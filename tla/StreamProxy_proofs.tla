------------------------- MODULE StreamProxy_proofs -------------------------
(***************************************************************************)
(* Proofs about StreamProxy, for every image, devio buffer and payload:    *)
(* that driver and server keep in step on the stream, and that a request   *)
(* that succeeds has moved what it was to move.                            *)
(***************************************************************************)
EXTENDS StreamProxy, SequenceTheorems, TLAPS

-----------------------------------------------------------------------------
(* The inductive invariant. *)

\* What is on its way: of the call, and of the answer.
Rest == up \o out
Got  == in \o down

Calling == worker \in {"send", "header", "data", "check"}
Busy    == Calling \/ worker = "done"
Early   == worker \in {"open", "connect", "answer", "claim"}

Call == IF irp.code = InfoReq THEN <<InfoReq>> ELSE CallWords(irp, length_done)
Block == <<irp.code, irp.off + length_done, ToDo>>
Asked == irp.off .. irp.off + irp.len - 1

Types ==
    /\ terminate_thread \in BOOLEAN
    /\ up \in Seq(Nat) /\ down \in Seq(Nat) /\ out \in Seq(Nat) /\ in \in Seq(Nat)
    /\ irp \in Irp \cup {Query, NoIrp} /\ length_done \in Nat /\ result \in Seq(Nat)
    /\ kind \in {"devio", "net"} /\ req_block \in Seq(Nat) /\ buf \in Seq(Nat)
    /\ buffer_size \in Nat /\ image \in [Cell -> Nat] /\ disk \in [Cell -> Nat]
    /\ worker \in {"open", "connect", "answer", "claim", "send", "header", "data", "check",
                    "done", "idle", "close", "gone"}
    /\ server \in {"listen", "code", "rest", "payload", "transfer", "answer", "exited"}

\* Where the driver is with its request.
DriverInv ==
    /\ IF Busy THEN irp # NoIrp ELSE irp = NoIrp /\ length_done = 0 /\ result = <<>>
    /\ Calling => IF irp.code = ReadReq THEN length_done < irp.len ELSE length_done = 0 /\ result = <<>>
    /\ IF worker = "send" THEN out # <<>> ELSE out = <<>>
    /\ worker \notin {"header", "data", "check"} => in = <<>>
    /\ worker = "header" => Len(in) < HeaderSize
    /\ worker = "data" => Len(in) >= HeaderSize /\ (DataSize = 0 \/ Len(in) < 2 + DataSize)
                          /\ (DataSize = 0 => Len(in) = HeaderSize)
    /\ worker = "check" => Len(in) >= HeaderSize /\ Len(in) = HeaderSize + DataSize

\* What the server has of a request, whoever made it.
ServerInv ==
    /\ server = "listen" => ~objects /\ session \in {"accept", "exited"}
    /\ server = "rest" => Len(req_block) = 1
    /\ server \in {"payload", "transfer"} => Len(req_block) = 3

\* An answer that fits the call.
Answers(a) ==
    /\ irp.code = InfoReq => a = <<Size, 1, 0>>
    /\ irp.code = ReadReq => /\ Len(a) = 2 + a[2] /\ a[2] <= ToDo
                             /\ a[1] # 0 => a[2] = 0
                             /\ \A i \in 1 .. a[2] : a[2 + i] = Told(irp.off + length_done + i - 1)
    /\ irp.code = WriteReq => /\ Len(a) = 2
                              /\ a[1] = 0 /\ a[2] = irp.len => \A p \in Asked : image[p] = irp.word

\* One to a write of which the server has not read everything.
Short(a) == /\ irp.code = WriteReq /\ kind = "net"
            /\ Len(a) >= 2 /\ ~(a[1] = 0 /\ a[2] = irp.len)

\* The server has not answered yet: it has taken the first words of the call.
Waiting ==
    /\ in = <<>> /\ down = <<>> /\ Len(Rest) <= Len(Call)
    /\ server = "listen" => FALSE
    /\ server = "code" => Rest = Call
    /\ server = "rest" => /\ irp.code # InfoReq /\ req_block = <<irp.code>>
                          /\ Rest = SubSeq(Call, 2, Len(Call))
    /\ server = "payload" => /\ irp.code = WriteReq /\ req_block = Block
                             /\ Rest = SubSeq(Call, 4, Len(Call))
    /\ server = "transfer" => /\ irp.code # InfoReq /\ req_block = Block
                              /\ IF irp.code = ReadReq THEN Rest = <<>>
                                 ELSE /\ Len(buf) + Len(Rest) = irp.len /\ Len(buf) > 0
                                      /\ kind = "devio" => Rest = <<>>
                                      /\ \A i \in 1 .. Len(buf) : buf[i] = irp.word
    /\ server = "answer" => /\ Answers(buf) /\ Len(buf) >= 2
                            /\ Rest = <<>> \/ (Short(buf) /\ Len(Rest) < Len(Call))

\* It has answered, and waits for the next call or has ended; ...
Answered == Answers(Got) /\ Len(Got) >= 2 /\ Rest = <<>> /\ server \in {"code", "exited"}

\* ... or it has answered a write that it has not read to its end.
Spoiled == Short(Got) /\ Len(Rest) < Len(Call)

CallInv == Calling => Waiting \/ Answered \/ Spoiled

\* Between the calls the stream is empty, and the server waits for a code.
Between == Early \/ worker = "done" \/ (worker = "idle" /\ ~terminate_thread)

QuietInv ==
    Between => /\ up = <<>> /\ down = <<>>
               /\ server \in {"code", "exited"} \/ (Early /\ server = "listen")

\* The data of the request.
DataInv ==
    /\ Busy /\ irp.code = ReadReq =>
          /\ Len(result) = length_done /\ length_done <= irp.len
          /\ \A i \in 1 .. length_done : result[i] = Told(irp.off + i - 1)
    /\ irp.code = WriteReq =>
          /\ ~(Calling /\ Spoiled) => \A p \in Cell : p \notin Asked => image[p] = disk[p]
          /\ worker = "done" => \A p \in Asked : image[p] = irp.word

IInv == Types /\ DriverInv /\ ServerInv /\ QuietInv /\ CallInv /\ DataInv
-----------------------------------------------------------------------------
(* Sequences. *)

LEMMA ThreeParts ==
    ASSUME NEW a \in Seq(Nat), NEW b \in Seq(Nat), NEW c \in Seq(Nat)
    PROVE  (a \o b) \o c = a \o (b \o c)
  OBVIOUS

LEMMA HeadAndTail ==
    ASSUME NEW a \in Seq(Nat), NEW n \in 0 .. Len(a)
    PROVE  /\ SubSeq(a, 1, n) \in Seq(Nat) /\ SubSeq(a, n + 1, Len(a)) \in Seq(Nat)
           /\ Len(SubSeq(a, 1, n)) = n /\ Len(SubSeq(a, n + 1, Len(a))) = Len(a) - n
           /\ \A i \in 1 .. n : SubSeq(a, 1, n)[i] = a[i]
           /\ \A i \in 1 .. Len(a) - n : SubSeq(a, n + 1, Len(a))[i] = a[n + i]
           /\ SubSeq(a, 1, n) \o SubSeq(a, n + 1, Len(a)) = a
<1> Len(a) \in Nat /\ \A i \in 1 .. Len(a) : a[i] \in Nat
  BY LenProperties, ElementOfSeq
<1>1. /\ SubSeq(a, 1, n) \in Seq(Nat) /\ Len(SubSeq(a, 1, n)) = n
      /\ \A i \in 1 .. n : SubSeq(a, 1, n)[i] = a[i]
  BY SubSeqProperties, n \in Int, 1 \in Int, \A i \in 1 .. n : a[i] \in Nat
<1>2. /\ SubSeq(a, n + 1, Len(a)) \in Seq(Nat)
      /\ Len(SubSeq(a, n + 1, Len(a))) = Len(a) - n
      /\ \A i \in 1 .. Len(a) - n : SubSeq(a, n + 1, Len(a))[i] = a[n + i]
  BY SubSeqProperties, n + 1 \in Int, Len(a) \in Int, \A i \in n + 1 .. Len(a) : a[i] \in Nat
<1>3. SubSeq(a, 1, n) \o SubSeq(a, n + 1, Len(a)) = a
  BY ConcatAdjacentSubSeq, SubSeqFull, 1 \in 1 .. Len(a) + 1, n \in 1 - 1 .. Len(a),
     Len(a) \in n .. Len(a)
<1> QED  BY <1>1, <1>2, <1>3

\* What moves from the head of one sequence to the end of another leaves them together
\* as they were; ...
LEMMA MoveWords ==
    ASSUME NEW a \in Seq(Nat), NEW b \in Seq(Nat), NEW n \in 0 .. Len(b)
    PROVE  /\ (a \o SubSeq(b, 1, n)) \o SubSeq(b, n + 1, Len(b)) = a \o b
           /\ a \o SubSeq(b, 1, n) \in Seq(Nat) /\ SubSeq(b, n + 1, Len(b)) \in Seq(Nat)
           /\ Len(a \o SubSeq(b, 1, n)) = Len(a) + n
           /\ Len(SubSeq(b, n + 1, Len(b))) = Len(b) - n
<1>1. PICK h, t : h = SubSeq(b, 1, n) /\ t = SubSeq(b, n + 1, Len(b))
  OBVIOUS
<1>2. h \in Seq(Nat) /\ t \in Seq(Nat) /\ Len(h) = n /\ Len(t) = Len(b) - n /\ h \o t = b
  BY <1>1, HeadAndTail
<1>3. (a \o h) \o t = a \o b
  <2>1. (a \o h) \o t = a \o (h \o t)
    BY <1>2, ThreeParts
  <2> QED  BY <1>2, <2>1
<1>4. a \o h \in Seq(Nat) /\ Len(a \o h) = Len(a) + n
  BY <1>2, ConcatProperties
<1> QED  BY <1>1, <1>2, <1>3, <1>4

\* ... what is taken from the head leaves the tail.
LEMMA TakeWords ==
    ASSUME NEW a \in Seq(Nat), NEW b \in Seq(Nat), NEW n \in 0 .. Len(a)
    PROVE  /\ SubSeq(a, n + 1, Len(a)) \o b = SubSeq(a \o b, n + 1, Len(a \o b))
           /\ a \o b \in Seq(Nat) /\ Len(a \o b) = Len(a) + Len(b)
           /\ \A i \in 1 .. Len(a) : a[i] = (a \o b)[i]
<1>1. PICK w, r : w = a \o b /\ r = SubSeq(a, n + 1, Len(a))
  OBVIOUS
<1>2. PICK t, u : t = r \o b /\ u = SubSeq(w, n + 1, Len(w))
  OBVIOUS
<1> Len(a) \in Nat /\ Len(b) \in Nat
  BY LenProperties
<1>3. /\ w \in Seq(Nat) /\ Len(w) = Len(a) + Len(b)
      /\ \A i \in 1 .. Len(a) + Len(b) : w[i] = IF i <= Len(a) THEN a[i] ELSE b[i - Len(a)]
  BY <1>1, ConcatProperties
<1>4. /\ r \in Seq(Nat) /\ Len(r) = Len(a) - n
      /\ \A i \in 1 .. Len(a) - n : r[i] = a[n + i]
  BY <1>1, HeadAndTail
<1>5. /\ t \in Seq(Nat) /\ Len(t) = Len(r) + Len(b)
      /\ \A i \in 1 .. Len(r) + Len(b) : t[i] = IF i <= Len(r) THEN r[i] ELSE b[i - Len(r)]
  BY <1>2, <1>4, ConcatProperties
<1>6. n \in 0 .. Len(w)
  BY <1>3
<1>7. /\ u \in Seq(Nat) /\ Len(u) = Len(w) - n
      /\ \A i \in 1 .. Len(w) - n : u[i] = w[n + i]
  BY <1>2, <1>3, <1>6, HeadAndTail
<1>8. Len(t) = Len(u)
  BY <1>3, <1>4, <1>5, <1>7
<1>9. ASSUME NEW i \in 1 .. Len(t) PROVE t[i] = u[i]
  <2>1. /\ i \in 1 .. Len(r) + Len(b) /\ n + i \in 1 .. Len(a) + Len(b)
        /\ i \in 1 .. Len(w) - n
    BY <1>3, <1>4, <1>5, <1>9
  <2>2. CASE i <= Len(r)
    <3>1. n + i <= Len(a) /\ i \in 1 .. Len(a) - n
      BY <1>4, <1>9, <1>5, <2>2
    <3>2. t[i] = r[i] /\ r[i] = a[n + i]
      BY <1>4, <1>5, <2>1, <2>2, <3>1
    <3>3. u[i] = w[n + i] /\ w[n + i] = a[n + i]
      BY <1>3, <1>7, <2>1, <3>1
    <3> QED  BY <3>2, <3>3
  <2>3. CASE ~(i <= Len(r))
    <3>1. n + i - Len(a) = i - Len(r) /\ ~(n + i <= Len(a))
      BY <1>4, <2>1, <2>3
    <3>2. t[i] = b[i - Len(r)]
      BY <1>5, <2>1, <2>3
    <3>3. u[i] = w[n + i]
      BY <1>7, <2>1
    <3>4. w[n + i] = b[n + i - Len(a)]
      BY <1>3, <2>1, <3>1, SMTT(30)
    <3> QED  BY <3>1, <3>2, <3>3, <3>4
  <2> QED  BY <2>2, <2>3
<1>10. t = u
  BY <1>5, <1>7, <1>8, <1>9, SeqEqual
<1>11. t = SubSeq(a \o b, n + 1, Len(a \o b)) /\ t = SubSeq(a, n + 1, Len(a)) \o b
  BY <1>1, <1>2, <1>10
<1>12. \A i \in 1 .. Len(a) : a[i] = w[i]
  BY <1>3
<1> QED  BY <1>1, <1>3, <1>11, <1>12

LEMMA DropTwice ==
    ASSUME NEW c \in Seq(Nat), NEW m \in Nat, NEW n \in Nat, m + n <= Len(c),
           NEW s, s = SubSeq(c, m + 1, Len(c))
    PROVE  SubSeq(s, n + 1, Len(s)) = SubSeq(c, m + n + 1, Len(c))
<1>1. PICK t, u : t = SubSeq(s, n + 1, Len(s)) /\ u = SubSeq(c, m + n + 1, Len(c))
  OBVIOUS
<1> Len(c) \in Nat
  BY LenProperties
<1>2. s \in Seq(Nat) /\ Len(s) = Len(c) - m /\ \A i \in 1 .. Len(c) - m : s[i] = c[m + i]
  BY HeadAndTail, m \in 0 .. Len(c)
<1>3. t \in Seq(Nat) /\ Len(t) = Len(s) - n /\ \A i \in 1 .. Len(s) - n : t[i] = s[n + i]
  BY <1>1, <1>2, HeadAndTail, n \in 0 .. Len(s)
<1>4. /\ u \in Seq(Nat) /\ Len(u) = Len(c) - (m + n)
      /\ \A i \in 1 .. Len(c) - (m + n) : u[i] = c[m + n + i]
  BY <1>1, HeadAndTail, m + n \in 0 .. Len(c)
<1>5. ASSUME NEW i \in 1 .. Len(t) PROVE t[i] = u[i]
  <2>1. /\ n + i \in 1 .. Len(c) - m /\ i \in 1 .. Len(s) - n /\ i \in 1 .. Len(c) - (m + n)
        /\ m + (n + i) = m + n + i
    BY <1>2, <1>3, <1>5
  <2> QED  BY <1>2, <1>3, <1>4, <2>1
<1>6. t = u
  <2>1. Len(t) = Len(u)
    BY <1>2, <1>3, <1>4
  <2> QED  BY <1>3, <1>4, <1>5, <2>1, SeqEqual
<1> QED  BY <1>1, <1>6

LEMMA Whole ==
    ASSUME NEW a \in Seq(Nat)
    PROVE  /\ SubSeq(a, Len(a) + 1, Len(a)) = <<>>
           /\ a # <<>> <=> Len(a) > 0
  BY HeadAndTail, EmptySeq, LenProperties

LEMMA IrpIs ==
    ASSUME NEW r \in Irp
    PROVE  /\ r.code \in {ReadReq, WriteReq} /\ r.off \in Nat /\ r.len \in Nat \ {0}
           /\ r.code = WriteReq => r.word \in Nat
           /\ r.off + r.len <= Size
<1>1. Cell \subseteq Nat /\ 1 .. Size \subseteq Nat \ {0} /\ Payload \subseteq Nat
  BY SizeAssumption DEF Cell
<1>2. CASE r \in [code : {ReadReq}, off : Cell, len : 1 .. Size, word : {0}]
  <2>1. r.code = ReadReq /\ r.off \in Cell /\ r.len \in 1 .. Size /\ r.word = 0
    BY <1>2
  <2>2. r.off + r.len <= Size
    BY DEF Irp
  <2>3. r.word \in Nat
    BY <2>1
  <2>4. r.off \in Nat /\ r.len \in Nat \ {0}
    BY <1>1, <2>1
  <2> QED  BY <2>1, <2>2, <2>3, <2>4
<1>3. CASE r \in [code : {WriteReq}, off : Cell, len : 1 .. Size, word : Payload]
  <2>1. r.code = WriteReq /\ r.off \in Cell /\ r.len \in 1 .. Size /\ r.word \in Payload
    BY <1>3
  <2>2. r.off + r.len <= Size
    BY DEF Irp
  <2> QED  BY <1>1, <2>1, <2>2
<1> QED  BY <1>2, <1>3 DEF Irp

\* The words of a call.
LEMMA CallIs ==
    ASSUME NEW r \in Irp, NEW done \in Nat, done <= r.len
    PROVE  /\ CallWords(r, done) \in Seq(Nat)
           /\ Len(CallWords(r, done)) = 3 + (IF r.code = WriteReq THEN r.len ELSE 0)
           /\ CallWords(r, done)[1] = r.code
           /\ CallWords(r, done)[2] = r.off + done
           /\ CallWords(r, done)[3] = r.len - done
           /\ r.code = WriteReq => \A i \in 1 .. r.len : CallWords(r, done)[3 + i] = r.word
<1> DEFINE h == <<r.code, r.off + done, r.len - done>>
           d == IF r.code = WriteReq THEN [i \in 1 .. r.len |-> r.word] ELSE <<>>
<1>1. /\ r.code \in Nat /\ r.off \in Nat /\ r.len \in Nat
      /\ r.code = WriteReq => r.word \in Nat
  BY IrpIs DEF ReadReq, WriteReq
<1>2. h \in Seq(Nat) /\ Len(h) = 3
  BY <1>1
<1>3. d \in Seq(Nat) /\ Len(d) = IF r.code = WriteReq THEN r.len ELSE 0
  BY <1>1
<1>4. r.code = WriteReq => \A i \in 1 .. r.len : d[i] = r.word
  OBVIOUS
<1> HIDE DEF d
<1>5. CallWords(r, done) = h \o d
  BY DEF CallWords, d
<1> QED  BY <1>1, <1>2, <1>3, <1>4, <1>5, ConcatProperties
-----------------------------------------------------------------------------
(* The initial state. *)

LEMMA InitInv == Init => IInv
<1> SUFFICES ASSUME Init PROVE IInv
  OBVIOUS
<1>1. <<>> \in Seq(Nat) /\ Len(<<>>) = 0 /\ Size \in Nat
  BY SizeAssumption
<1>2. Types
  BY <1>1, SizeAssumption DEF Init, Types
<1>3. DriverInv /\ ServerInv
  BY <1>1 DEF Init, DriverInv, ServerInv, Busy, Calling, NoIrp
<1>4. QuietInv /\ CallInv
  BY DEF Init, QuietInv, CallInv, Calling, Early
<1>5. DataInv
  BY DEF Init, DataInv, Busy, Calling, NoIrp, ReadReq, WriteReq
<1> QED  BY <1>2, <1>3, <1>4, <1>5 DEF IInv

-----------------------------------------------------------------------------
(* Types. *)

LEMMA IrpType ==
    ASSUME Types
    PROVE  /\ irp.code \in Nat /\ irp.off \in Nat /\ irp.len \in Nat /\ HeaderSize \in {2, 3}
           /\ irp.code \in {0, InfoReq, ReadReq, WriteReq}
           /\ irp.code \in {ReadReq, WriteReq} <=> irp \in Irp
           /\ irp.code = InfoReq <=> irp = Query
           /\ irp.code = 0 <=> irp = NoIrp
<1>1. CASE irp \in Irp
  BY <1>1, IrpIs DEF InfoReq, ReadReq, WriteReq, Query, NoIrp, HeaderSize
<1>2. CASE irp = Query
  <2>1. Query \notin Irp
    BY IrpIs DEF Query, InfoReq, ReadReq, WriteReq
  <2> QED  BY <1>2, <2>1 DEF InfoReq, ReadReq, WriteReq, Query, NoIrp, HeaderSize
<1>3. CASE irp = NoIrp
  <2>1. NoIrp \notin Irp
    BY IrpIs DEF NoIrp, InfoReq, ReadReq, WriteReq
  <2> QED  BY <1>3, <2>1 DEF InfoReq, ReadReq, WriteReq, Query, NoIrp, HeaderSize
<1> QED  BY <1>1, <1>2, <1>3 DEF Types

\* Reading keeps the words that have been read, and all of them in their order.
LEMMA ReadWordsIs ==
    ASSUME Types, NEW limit \in Int, NEW then, ReadWords(limit, then)
    PROVE  /\ in' \in Seq(Nat) /\ down' \in Seq(Nat) /\ in' \o down' = Got
           /\ Len(down) > 0
           /\ Len(in') <= Len(in) + limit /\ Len(in') > Len(in)
           /\ worker' = IF Len(in') = Len(in) + limit THEN then ELSE worker
           /\ \A i \in 1 .. Len(in) : in'[i] = in[i]
           /\ UNCHANGED <<terminate_thread, irp, out, length_done, result, unread>>
<1>1. PICK n \in 1 .. Least(limit, Len(down)) :
         /\ in' = in \o SubSeq(down, 1, n)
         /\ down' = SubSeq(down, n + 1, Len(down))
         /\ worker' = IF n = limit THEN then ELSE worker
         /\ UNCHANGED <<terminate_thread, irp, out, length_done, result, unread>>
  BY DEF ReadWords
<1>2. in \in Seq(Nat) /\ down \in Seq(Nat) /\ Len(down) \in Nat /\ Len(in) \in Nat
  BY LenProperties DEF Types
<1>3. n \in 0 .. Len(down) /\ n <= limit /\ n \in Nat \ {0}
  BY <1>2 DEF Least
<1>4. /\ in' \o down' = in \o down /\ in' \in Seq(Nat) /\ down' \in Seq(Nat)
      /\ Len(in') = Len(in) + n
  BY <1>1, <1>2, <1>3, MoveWords
<1>5. \A i \in 1 .. Len(in) : in'[i] = in[i]
  <2>1. PICK h : h = SubSeq(down, 1, n)
    OBVIOUS
  <2>2. h \in Seq(Nat)
    BY <1>2, <1>3, <2>1, HeadAndTail
  <2> QED  BY <1>1, <1>2, <2>1, <2>2, TakeWords, 0 \in 0 .. Len(in)
<1>6. in' \o down' = Got
  BY <1>4 DEF Got
<1>7. Len(down) > 0
  BY <1>2, <1>3
<1>8. /\ Len(in') <= Len(in) + limit /\ Len(in') > Len(in)
      /\ Len(in') = Len(in) + limit <=> n = limit
  <2>1. PICK l, m : l = Len(in) /\ m = Len(in')
    OBVIOUS
  <2>2. m = l + n /\ l \in Nat /\ n \in Nat \ {0} /\ n <= limit
    BY <1>2, <1>3, <1>4, <2>1
  <2>3. m <= l + limit /\ m > l /\ (m = l + limit <=> n = limit)
    BY <2>2
  <2> QED  BY <2>1, <2>3
<1> QED  BY <1>1, <1>4, <1>5, <1>6, <1>7, <1>8

\* Of an answer's header, its second word is there.
LEMMA DataSizeType ==
    ASSUME Types, DriverInv, worker \in {"data", "check"}
    PROVE  DataSize \in Nat /\ Len(in) \in Nat /\ Len(in) >= 2 /\ in[1] \in Nat /\ in[2] \in Nat
<1>1. in \in Seq(Nat) /\ Len(in) \in Nat
  BY LenProperties DEF Types
<1>2. Len(in) >= 2
  BY <1>1, IrpType DEF DriverInv
<1> QED  BY <1>1, <1>2, ElementOfSeq DEF DataSize

\* What the server takes of the stream.
LEMMA TakesIs ==
    ASSUME Types, NEW n \in Nat, Takes(n), out' = out
    PROVE  /\ up' \in Seq(Nat) /\ SubSeq(up, 1, n) \in Seq(Nat) /\ Len(SubSeq(up, 1, n)) = n
           /\ Len(up) >= n /\ Len(up) \in Nat
           /\ Rest \in Seq(Nat) /\ Rest' = SubSeq(Rest, n + 1, Len(Rest))
           /\ Rest' \in Seq(Nat) /\ Len(Rest') = Len(Rest) - n /\ Len(Rest) >= n
           /\ \A i \in 1 .. n : up[i] \in Nat /\ up[i] = Rest[i] /\ SubSeq(up, 1, n)[i] = Rest[i]
<1>1. /\ up \in Seq(Nat) /\ out \in Seq(Nat) /\ Len(up) \in Nat /\ Len(out) \in Nat
      /\ \A i \in 1 .. Len(up) : up[i] \in Nat
  BY LenProperties, ElementOfSeq DEF Types
<1>2. Len(up) >= n /\ up' = SubSeq(up, n + 1, Len(up)) /\ n \in 0 .. Len(up)
  BY <1>1 DEF Takes
<1>3. /\ SubSeq(up, 1, n) \in Seq(Nat) /\ up' \in Seq(Nat) /\ Len(SubSeq(up, 1, n)) = n
      /\ \A i \in 1 .. n : SubSeq(up, 1, n)[i] = up[i]
  BY <1>1, <1>2, HeadAndTail
<1>4. /\ Rest \in Seq(Nat) /\ Len(Rest) = Len(up) + Len(out)
      /\ \A i \in 1 .. Len(up) : up[i] = Rest[i]
      /\ Rest' = SubSeq(Rest, n + 1, Len(Rest))
  BY <1>1, <1>2, TakeWords DEF Rest
<1>5. n \in 0 .. Len(Rest)
  BY <1>1, <1>2, <1>4
<1>6. Rest' \in Seq(Nat) /\ Len(Rest') = Len(Rest) - n
  <2>1. PICK r : r = Rest
    OBVIOUS
  <2> QED  BY <1>4, <1>5, <2>1, HeadAndTail
<1>7. \A i \in 1 .. n : i \in 1 .. Len(up)
  BY <1>1, <1>2
<1> QED  BY <1>1, <1>2, <1>3, <1>4, <1>5, <1>6, <1>7, SMTT(30)
LEMMA SendIs ==
    ASSUME Types, NEW n \in 1 .. Len(out),
           up' = up \o SubSeq(out, 1, n), out' = SubSeq(out, n + 1, Len(out))
    PROVE  Rest' = Rest /\ up' \in Seq(Nat) /\ out' \in Seq(Nat)
<1>1. up \in Seq(Nat) /\ out \in Seq(Nat) /\ Len(out) \in Nat
  BY LenProperties DEF Types
<1>2. n \in 0 .. Len(out)
  BY <1>1
<1> QED  BY <1>1, <1>2, MoveWords DEF Rest

USE DEF connecting, stream, driver, serverVars

LEMMA QueryType == CallWords(Query, 0) \in Seq(Nat) /\ <<InfoReq>> \in Seq(Nat) /\ <<>> \in Seq(Nat)
  BY DEF CallWords, Query, InfoReq, WriteReq

LEMMA FailTypes == Types /\ EndCall => /\ irp' \in Irp \cup {Query, NoIrp} /\ out' \in Seq(Nat)
                                       /\ in' \in Seq(Nat) /\ length_done' \in Nat /\ result' \in Seq(Nat)
                                       /\ worker' \in {"close", "idle"}
  BY DEF EndCall

\* Every action of the driver keeps the types.
LEMMA DriverTypes ==
    ASSUME IInv, DriverStep \/ (\E r \in Irp : TakeIrp(r)) \/ OutOfMemory \/ RemoveVirtualDisk
    PROVE  Types'
<1> USE DEF IInv
<1>1. CASE OpenPipe \/ SendConnect \/ ReadConnect \/ CloseProxy \/ TearDown \/ RemoveVirtualDisk
  BY <1>1 DEF OpenPipe, SendConnect, ReadConnect, CloseProxy, TearDown, RemoveVirtualDisk, Goto,
              GiveUp, Types
<1>2. CASE Claim
  BY <1>2, QueryType DEF Claim, GetReferencedHandle, GiveUp, Types
<1>3. CASE Send
  <2>1. CASE Broken /\ Fail /\ UNCHANGED up
    BY <1>3, <2>1, FailTypes DEF Send, Fail, Types
  <2>2. CASE \E n \in 1 .. Len(out) :
                /\ up' = up \o SubSeq(out, 1, n)
                /\ out' = SubSeq(out, n + 1, Len(out))
                /\ worker' \in {"send", "header"}
                /\ UNCHANGED <<terminate_thread, irp, in, length_done, result>>
    <3>1. up' \in Seq(Nat) /\ out' \in Seq(Nat)
      BY <2>2, SendIs
    <3> QED  BY <1>3, <2>2, <3>1 DEF Send, Types
  <2> QED  BY <1>3, <2>1, <2>2 DEF Send
<1>4. CASE ReadHeader
  <2>1. CASE ReadWords(HeaderSize - Len(in), "data")
    <3>1. HeaderSize - Len(in) \in Int
      BY IrpType, LenProperties DEF Types
    <3> QED  BY <1>4, <2>1, <3>1, ReadWordsIs DEF ReadHeader, Types
  <2>2. CASE Fail /\ UNCHANGED down
    BY <1>4, <2>2, FailTypes DEF ReadHeader, Fail, Types
  <2> QED  BY <1>4, <2>1, <2>2 DEF ReadHeader
<1>5. CASE ReadData
  <2>1. CASE ReadWords(2 + DataSize - Len(in), "check")
    <3>1. 2 + DataSize - Len(in) \in Int
      BY <1>5, DataSizeType DEF ReadData
    <3> QED  BY <1>5, <2>1, <3>1, ReadWordsIs DEF ReadData, Types
  <2>2. CASE Fail /\ UNCHANGED down
    BY <1>5, <2>2, FailTypes DEF ReadData, Fail, Types
  <2>3. CASE worker' = "check" /\ UNCHANGED <<terminate_thread, irp, out, in, down, length_done, result,
                                               unread>>
    BY <1>5, <2>3 DEF ReadData, Types
  <2> QED  BY <1>5, <2>1, <2>2, <2>3 DEF ReadData
<1>6. CASE CheckAnswer
  <2>1. worker = "check" /\ Len(in) \in Nat /\ in[2] \in Nat /\ Len(in) >= 2 /\ in \in Seq(Nat)
    BY <1>6, DataSizeType DEF CheckAnswer, Types
  <2>2. CASE Fail
    BY <1>6, <2>2, FailTypes DEF CheckAnswer, Fail, Types
  <2>3. CASE irp.code = ReadReq /\ ~Refused /\ Continue(in[2], SubSeq(in, 3, Len(in)))
    <3>1. SubSeq(in, 3, Len(in)) \in Seq(Nat)
      BY <2>1, HeadAndTail, 2 \in 0 .. Len(in), 2 + 1 = 3
    <3>2. result' \in Seq(Nat)
      BY <2>3, <3>1, ConcatProperties DEF Continue, Types
    <3>3. irp \in Irp
      BY <2>3, IrpType
    <3>4. in[2] < ToDo => CallWords(irp, length_done + in[2]) \in Seq(Nat)
      <4> SUFFICES ASSUME in[2] < ToDo PROVE CallWords(irp, length_done + in[2]) \in Seq(Nat)
        OBVIOUS
      <4>1. length_done + in[2] \in Nat /\ length_done + in[2] <= irp.len
        <5>1. irp.len \in Nat /\ length_done \in Nat /\ in[2] < irp.len - length_done
          BY IrpType DEF ToDo, Types
        <5> QED  BY <2>1, <5>1
      <4> QED  BY <3>3, <4>1, CallIs
    <3>5. out' \in Seq(Nat) /\ worker' \in {"send", "done"} /\ length_done' \in Nat
      <4>1. /\ length_done' = length_done + in[2]
            /\ out' \in {CallWords(irp, length_done + in[2]), <<>>}
            /\ out' # <<>> => in[2] < ToDo
            /\ worker' \in {"send", "done"}
        BY <2>3 DEF Continue
      <4>2. <<>> \in Seq(Nat) /\ length_done \in Nat
        BY DEF Types
      <4>3. out' \in Seq(Nat)
        <5> HIDE DEF IInv
        <5>1. CASE out' = <<>>
          BY <4>2, <5>1
        <5>2. CASE out' # <<>>
          BY <3>4, <4>1, <5>2
        <5> QED  BY <5>1, <5>2
      <4> QED  BY <2>1, <4>1, <4>2, <4>3
    <3>6. in' = <<>> /\ irp' = irp /\ terminate_thread' = terminate_thread
      BY <2>3 DEF Continue
    <3>7. UNCHANGED <<up, down, kind, req_block, buf, buffer_size, image, disk, server>>
      BY <1>6 DEF CheckAnswer
    <3>8. Types
      OBVIOUS
    <3> HIDE DEF IInv
    <3> QED  BY <3>2, <3>5, <3>6, <3>7, <3>8 DEF Types
  <2>4. CASE irp.code # ReadReq /\ Continue(irp.len, <<>>)
    <3>1. result' = result /\ out' = <<>> /\ worker' = "done" /\ length_done' \in Nat
      BY <2>4, IrpType, ConcatEmptySeq, SMTT(30) DEF Continue, Types
    <3> QED  BY <1>6, <2>4, <3>1 DEF CheckAnswer, Continue, Types
  <2> QED  BY <1>6, <2>2, <2>3, <2>4 DEF CheckAnswer
<1>7. CASE CompleteIrp
  BY <1>7 DEF CompleteIrp, Goto, Types
<1>8. ASSUME NEW r \in Irp, TakeIrp(r) PROVE Types'
  <2>1. CallWords(r, 0) \in Seq(Nat)
    BY CallIs, IrpIs
  <2> QED  BY <1>8, <2>1 DEF TakeIrp, Goto, Types
<1>9. CASE OutOfMemory
  BY <1>9, FailTypes DEF OutOfMemory, Fail, Types
<1> QED  BY <1>1, <1>2, <1>3, <1>4, <1>5, <1>6, <1>7, <1>8, <1>9 DEF DriverStep
\* What the server has of a request's header.
LEMMA BlockIs ==
    ASSUME Types, ServerInv
    PROVE  /\ server = "rest" => req_block[1] \in Nat
           /\ server \in {"payload", "transfer"} => /\ req_block[1] \in Nat /\ req_block[2] \in Nat
                                                  /\ req_block[3] \in Nat
<1>1. req_block \in Seq(Nat)
  BY DEF Types
<1>2. \A i \in 1 .. Len(req_block) : req_block[i] \in Nat
  BY <1>1, ElementOfSeq
<1>3. CASE server = "rest"
  <2>1. Len(req_block) = 1
    BY <1>3 DEF ServerInv
  <2> QED  BY <1>2, <1>3, <2>1
<1>4. CASE server \in {"payload", "transfer"}
  <2>1. Len(req_block) = 3
    BY <1>4 DEF ServerInv
  <2> QED  BY <1>2, <1>4, <2>1
<1> QED  BY <1>3, <1>4

\* Every action of the service and of the server keeps the types.
LEMMA ServerTypes ==
    ASSUME IInv, ServiceStep \/ ServerStep \/ ServiceStops \/ ServerKilled
    PROVE  Types'
<1> USE DEF IInv
<1>1. CASE Connect \/ ReferenceHandle \/ SendAnswer \/ CleanUp \/ ServiceStops \/ ServerKilled
           \/ EndOfStream \/ ServerCloses
  BY <1>1 DEF Connect, ReferenceHandle, SendAnswer, CleanUp, ServiceStops, ServerKilled,
              EndOfStream, ServerCloses, Session, Types
<1>2. CASE ServerCode
  <2>1. PICK code : code = Head(up)
    OBVIOUS
  <2>2. up' \in Seq(Nat) /\ code \in Nat
    <3>1. Takes(1) /\ out' = out
      BY <1>2 DEF ServerCode
    <3>2. up' \in Seq(Nat) /\ Len(up) >= 1 /\ up \in Seq(Nat)
      BY <3>1, TakesIs DEF Types
    <3> QED  BY <2>1, <3>2
  <2>3. req_block' \in Seq(Nat)
    BY <1>2, <2>1, <2>2 DEF ServerCode
  <2>4. buf' \in {<<>>, <<Size, 1, 0>>, <<ENODEV>>}
    BY <1>2 DEF ServerCode
  <2>5. buf' \in Seq(Nat)
    <3>1. ENODEV \in Nat /\ Size \in Nat
      BY SizeAssumption DEF ENODEV
    <3>2. <<ENODEV>> \in Seq(Nat) /\ <<Size, 1, 0>> \in Seq(Nat) /\ <<>> \in Seq(Nat)
      BY <3>1
    <3> QED  BY <2>4, <3>2
  <2>6. server' \in {"rest", "answer", "exited"}
    BY <1>2 DEF ServerCode
  <2> QED  BY <1>2, <2>2, <2>3, <2>5, <2>6 DEF ServerCode, Types
<1>3. CASE ServerRest
  <2>1. Takes(2) /\ out' = out
    BY <1>3 DEF ServerRest
  <2>2. up' \in Seq(Nat) /\ up[1] \in Nat /\ up[2] \in Nat
    BY <2>1, TakesIs
  <2>3. req_block[1] \in Nat
    BY <1>3, BlockIs DEF ServerRest
  <2>4. req_block' \in Seq(Nat)
    BY <1>3, <2>2, <2>3 DEF ServerRest
  <2> QED  BY <1>3, <2>2, <2>4 DEF ServerRest, Types
<1>4. CASE ServerPayload
  <2>1. req_block[3] \in Nat
    BY <1>4, BlockIs DEF ServerPayload, At
  <2>2. PICK n \in 1 .. req_block[3] : Takes(n) /\ buf' = SubSeq(up, 1, n)
    BY <1>4 DEF ServerPayload
  <2>3. up' \in Seq(Nat) /\ buf' \in Seq(Nat)
    BY <1>4, <2>1, <2>2, TakesIs DEF ServerPayload
  <2> QED  BY <1>4, <2>3 DEF ServerPayload, At, Types
<1>5. CASE ServerRead
  <2>1. req_block[2] \in Nat /\ req_block[3] \in Nat
    BY <1>5, BlockIs DEF ServerRead, At
  <2>2. buffer_size' \in Nat
    BY <1>5, <2>1 DEF ServerRead, Grown, Types
  <2>3. buf' \in Seq(Nat)
    <3>1. CASE buf' = <<EIO, 0>>
      BY <3>1 DEF EIO
    <3>2. ASSUME NEW n \in 0 .. req_block[3], NEW got \in SUBSET Target(req_block[3]),
                 buf' = <<0, n>> \o [i \in 1 .. n |-> IF req_block[2] + i - 1 \in got
                                                      THEN image[req_block[2] + i - 1] ELSE 0]
          PROVE  buf' \in Seq(Nat)
      <4>1. PICK d : d = [i \in 1 .. n |-> IF req_block[2] + i - 1 \in got
                                           THEN image[req_block[2] + i - 1] ELSE 0]
        OBVIOUS
      <4>2. \A q \in got : image[q] \in Nat
        BY DEF Target, Types
      <4>3. d \in Seq(Nat) /\ n \in Nat
        BY <2>1, <3>2, <4>1, <4>2
      <4> QED  BY <3>2, <4>1, <4>3, ConcatProperties
    <3> QED  BY <1>5, <3>1, <3>2 DEF ServerRead
  <2> QED  BY <1>5, <2>2, <2>3 DEF ServerRead, At, Types
<1>6. CASE ServerWrite
  <2>1. req_block[2] \in Nat /\ req_block[3] \in Nat
    BY <1>6, BlockIs DEF ServerWrite, At
  <2>2. PICK n \in 0 .. Len(buf) :
          /\ image' = [p \in Cell |->
                IF p \in req_block[2] .. req_block[2] + n - 1 THEN buf[p - req_block[2] + 1]
                ELSE image[p]]
          /\ buf' \in {<<0, n>>, <<EIO, 0>>}
    BY <1>6 DEF ServerWrite
  <2>3. buf' \in Seq(Nat)
    <3>1. n \in Nat /\ EIO \in Nat
      BY LenProperties DEF EIO, Types
    <3>2. <<0, n>> \in Seq(Nat) /\ <<EIO, 0>> \in Seq(Nat)
      BY <3>1
    <3> QED  BY <2>2, <3>2
  <2>4. ASSUME NEW p \in Cell, p \in req_block[2] .. req_block[2] + n - 1
        PROVE  buf[p - req_block[2] + 1] \in Nat
    <3>1. Len(buf) \in Nat /\ Cell \subseteq Nat /\ n \in Nat /\ n <= Len(buf)
      BY <2>2, LenProperties DEF Cell, Types
    <3>2. p - req_block[2] + 1 \in 1 .. Len(buf)
      BY <2>1, <2>4, <3>1
    <3> QED  BY <3>2, ElementOfSeq DEF Types
  <2>5. image' \in [Cell -> Nat]
    BY <2>2, <2>4 DEF Types
  <2> QED  BY <1>6, <2>3, <2>5 DEF ServerWrite, At, Types
<1>7. CASE ServerAnswer
  <2>1. down \o buf \in Seq(Nat) /\ <<>> \in Seq(Nat)
    BY ConcatProperties DEF Types
  <2>2. down' \in Seq(Nat) /\ req_block' \in Seq(Nat) /\ buf' \in Seq(Nat)
        /\ server' \in {"code", "exited"}
    BY <1>7, <2>1 DEF ServerAnswer, Types
  <2> QED  BY <1>7, <2>2 DEF ServerAnswer, Types
<1> QED  BY <1>1, <1>2, <1>3, <1>4, <1>5, <1>6, <1>7 DEF ServiceStep, ServerStep

LEMMA TypesNext == IInv /\ [Next]_vars => Types'
  BY DriverTypes, ServerTypes, ZenonT(60) DEF Next, vars, IInv, Types
-----------------------------------------------------------------------------
(* Where the driver and the server are. *)

LEMMA FailPlaces ==
    ASSUME Types, EndCall
    PROVE  DriverInv'
  BY LenProperties DEF EndCall, DriverInv, Busy, Calling, NoIrp

LEMMA DriverNext ==
    ASSUME IInv, [Next]_vars
    PROVE  DriverInv'
<1> USE DEF IInv
<1>0. Len(in) \in Nat /\ Len(in') \in Nat /\ \A i \in 1 .. Len(in') : in'[i] \in Nat
  <2>1. in \in Seq(Nat) /\ in' \in Seq(Nat)
    BY TypesNext DEF Types
  <2> QED  BY <2>1, LenProperties, ElementOfSeq
<1>1. CASE UNCHANGED driver
  BY <1>1 DEF DriverInv, Busy, Calling, ToDo, DataSize, HeaderSize
<1>2. CASE OpenPipe \/ SendConnect \/ ReadConnect \/ CloseProxy \/ TearDown
  BY <1>2 DEF OpenPipe, SendConnect, ReadConnect, CloseProxy, TearDown, Goto, GiveUp,
              DriverInv, Busy, Calling
<1>3. CASE Claim
  <2>1. <<InfoReq>> # <<>>
    OBVIOUS
  <2> QED
    BY <1>3, <2>1, SMTT(30)
    DEF Claim, GiveUp, DriverInv, Busy, Calling, Query, NoIrp, InfoReq, ReadReq
<1>4. CASE Send
  <2>1. CASE Fail
    BY <2>1, FailPlaces DEF Fail
  <2>2. CASE ~Fail
    <3>1. /\ worker' = IF out' = <<>> THEN "header" ELSE "send"
          /\ UNCHANGED <<terminate_thread, irp, in, length_done, result>> /\ worker = "send"
      BY <1>4, <2>2 DEF Send
    <3>2. in = <<>> /\ Len(in) = 0 /\ HeaderSize' = HeaderSize /\ HeaderSize \in {2, 3}
      BY <3>1, IrpType DEF DriverInv, HeaderSize
    <3> QED  BY <3>1, <3>2 DEF DriverInv, Busy, Calling
  <2> QED  BY <2>1, <2>2
<1>5. CASE ReadHeader
  <2>1. CASE Fail
    BY <2>1, FailPlaces DEF Fail
  <2>2. CASE ReadWords(HeaderSize - Len(in), "data")
    <3>0. Len(in) \in Nat /\ Len(in') \in Nat /\ HeaderSize \in {2, 3} /\ HeaderSize - Len(in) \in Int
      BY IrpType, <1>0
    <3>1. /\ Len(in') <= Len(in) + (HeaderSize - Len(in))
          /\ worker' = IF Len(in') = Len(in) + (HeaderSize - Len(in)) THEN "data" ELSE worker
          /\ UNCHANGED <<terminate_thread, irp, out, length_done, result, unread>>
      BY <2>2, <3>0, ReadWordsIs
    <3>2. worker = "header" /\ HeaderSize' = HeaderSize
      BY <1>5, <3>1 DEF ReadHeader, HeaderSize
    <3>3. /\ Len(in') <= HeaderSize
          /\ worker' = IF Len(in') = HeaderSize THEN "data" ELSE "header"
      BY <3>0, <3>1, <3>2
    <3>4. worker' = "data" => DataSize' = 0 \/ Len(in') < 2 + DataSize'
      <4> SUFFICES ASSUME worker' = "data", DataSize' # 0 PROVE Len(in') < 2 + DataSize'
        OBVIOUS
      <4>1. irp.code = ReadReq /\ DataSize' = in'[2]
        BY <3>1 DEF DataSize
      <4>2. Len(in') = 2
        BY <3>3, <4>1 DEF HeaderSize, InfoReq, ReadReq
      <4>3. in'[2] \in Nat
        BY <1>0, <4>2
      <4> QED  BY <4>1, <4>2, <4>3
    <3>5. worker' = "header" => Len(in') < HeaderSize'
      BY <3>0, <3>2, <3>3
    <3> QED  BY <3>0, <3>1, <3>2, <3>3, <3>4, <3>5 DEF DriverInv, Busy, Calling
  <2> QED  BY <1>5, <2>1, <2>2 DEF ReadHeader
<1>6. CASE ReadData
  <2>1. CASE Fail
    BY <2>1, FailPlaces DEF Fail
  <2>2. worker = "data" /\ DataSize \in Nat /\ Len(in) \in Nat /\ Len(in) >= HeaderSize
    BY <1>6, DataSizeType DEF ReadData, DriverInv
  <2>3. CASE 0 < DataSize /\ ReadWords(2 + DataSize - Len(in), "check")
    <3>0. Len(in') \in Nat /\ HeaderSize \in {2, 3} /\ 2 + DataSize - Len(in) \in Int /\ Len(in) >= 2
      BY IrpType, <1>0, <2>2
    <3>1. /\ Len(in') <= Len(in) + (2 + DataSize - Len(in)) /\ Len(in') > Len(in)
          /\ worker' = IF Len(in') = Len(in) + (2 + DataSize - Len(in)) THEN "check" ELSE worker
          /\ \A i \in 1 .. Len(in) : in'[i] = in[i]
          /\ UNCHANGED <<terminate_thread, irp, out, length_done, result, unread>>
      BY <2>3, <3>0, ReadWordsIs
    <3>2. irp.code = ReadReq /\ HeaderSize = 2 /\ HeaderSize' = 2
      BY <2>3, <3>1 DEF DataSize, HeaderSize, InfoReq, ReadReq
    <3>3. DataSize' = DataSize
      <4>1. in'[2] = in[2]
        BY <2>2, <3>0, <3>1
      <4> QED  BY <3>1, <4>1 DEF DataSize
    <3>4. /\ Len(in') <= 2 + DataSize /\ Len(in') > Len(in) /\ Len(in') >= 2
          /\ worker' = IF Len(in') = 2 + DataSize THEN "check" ELSE "data"
      BY <2>2, <3>0, <3>1
    <3>5. Len(in') = 2 + DataSize \/ Len(in') < 2 + DataSize
      BY <2>2, <3>0, <3>4
    <3> QED  BY <2>2, <2>3, <3>1, <3>2, <3>3, <3>4, <3>5 DEF DriverInv, Busy, Calling
  <2>4. CASE /\ DataSize = 0 /\ worker' = "check"
             /\ UNCHANGED <<terminate_thread, irp, out, in, down, length_done, result, unread>>
    <3>1. HeaderSize' = HeaderSize /\ DataSize' = 0 /\ Len(in) = HeaderSize
      BY <2>2, <2>4 DEF HeaderSize, DataSize, DriverInv
    <3>2. Len(in') = HeaderSize' + DataSize'
      BY <2>2, <2>4, <3>1
    <3> QED  BY <2>2, <2>4, <3>1, <3>2 DEF DriverInv, Busy, Calling
  <2> QED  BY <1>6, <2>1, <2>3, <2>4 DEF ReadData
<1>7. CASE CheckAnswer
  <2>1. CASE Fail
    BY <2>1, FailPlaces DEF Fail
  <2>2. CASE irp.code = ReadReq /\ Continue(in[2], SubSeq(in, 3, Len(in)))
    <3>1. worker = "check" /\ in[2] \in Nat /\ irp.len \in Nat /\ length_done \in Nat
      BY <1>7, DataSizeType, IrpType DEF CheckAnswer, Types
    <3>2. irp' = irp /\ length_done' = length_done + in[2] /\ in' = <<>>
          /\ worker' = (IF 0 < in[2] /\ in[2] < ToDo THEN "send" ELSE "done")
          /\ out' = (IF 0 < in[2] /\ in[2] < ToDo THEN CallWords(irp, length_done + in[2]) ELSE <<>>)
      BY <2>2 DEF Continue
    <3>3. worker' = "send" => length_done' < irp.len /\ out' # <<>>
      <4> SUFFICES ASSUME worker' = "send" PROVE length_done' < irp.len /\ out' # <<>>
        OBVIOUS
      <4>1. in[2] < irp.len - length_done /\ out' = CallWords(irp, length_done + in[2])
        BY <3>2 DEF ToDo
      <4>2. length_done + in[2] < irp.len /\ length_done + in[2] \in Nat
        BY <3>1, <4>1
      <4>3. Len(out') >= 3 /\ out' \in Seq(Nat)
        <5>1. irp \in Irp /\ length_done + in[2] <= irp.len /\ irp.len \in Nat
          BY <2>2, <3>1, <4>2, IrpType
        <5>2. /\ CallWords(irp, length_done + in[2]) \in Seq(Nat)
              /\ Len(CallWords(irp, length_done + in[2]))
                    = 3 + (IF irp.code = WriteReq THEN irp.len ELSE 0)
          BY <4>2, <5>1, CallIs
        <5> QED  BY <4>1, <5>1, <5>2
      <4> QED  BY <3>2, <4>2, <4>3
    <3>4. irp # NoIrp
      BY <2>2 DEF NoIrp, ReadReq
    <3> QED  BY <2>2, <3>2, <3>3, <3>4 DEF DriverInv, Busy, Calling
  <2>3. CASE irp.code # ReadReq /\ Continue(irp.len, <<>>)
    <3>1. worker' = "done" /\ irp' = irp /\ in' = <<>> /\ out' = <<>>
      BY <2>3 DEF Continue
    <3>2. irp # NoIrp
      BY <1>7 DEF CheckAnswer, DriverInv, Busy, Calling
    <3> QED  BY <3>1, <3>2 DEF DriverInv, Busy, Calling
  <2> QED  BY <1>7, <2>1, <2>2, <2>3 DEF CheckAnswer
<1>8. CASE CompleteIrp
  BY <1>8 DEF CompleteIrp, Goto, DriverInv, Busy, Calling
<1>9. ASSUME NEW r \in Irp, TakeIrp(r) PROVE DriverInv'
  <2>1. /\ CallWords(r, 0) # <<>> /\ r # NoIrp /\ r.len > 0 /\ r.len \in Nat
    BY CallIs, IrpIs DEF NoIrp, ReadReq, WriteReq
  <2> QED  BY <1>9, <2>1 DEF TakeIrp, Goto, DriverInv, Busy, Calling
<1>10. CASE OutOfMemory
  BY <1>10, FailPlaces DEF OutOfMemory, Fail
<1>11. CASE RemoveVirtualDisk \/ ServiceStep \/ ServerStep \/ ServiceStops \/ ServerKilled
  <2>1. UNCHANGED driver
    BY <1>11 DEF RemoveVirtualDisk, ServiceStep, Connect, ReferenceHandle, SendAnswer, CleanUp,
                 ServiceStops, ServerKilled, ServerStep, EndOfStream, ServerCode, ServerRest,
                 ServerPayload, ServerRead, ServerWrite, ServerAnswer, ServerCloses
  <2> QED  BY <1>1, <2>1
<1> QED  BY <1>1, <1>2, <1>3, <1>4, <1>5, <1>6, <1>7, <1>8, <1>9, <1>10, <1>11
         DEF Next, DriverStep, vars
LEMMA ServerNext ==
    ASSUME IInv, [Next]_vars
    PROVE  ServerInv'
<1> USE DEF IInv
<1>1. CASE UNCHANGED <<server, req_block, objects, session>>
  BY <1>1 DEF ServerInv
<1>2. CASE Claim
  BY <1>2 DEF Claim, GetReferencedHandle, ServerInv
<1>3. CASE Connect \/ ReferenceHandle \/ SendAnswer \/ CleanUp \/ ServiceStops
  BY <1>3 DEF Connect, ReferenceHandle, SendAnswer, CleanUp, ServiceStops, Session, ServerInv
<1>4. CASE EndOfStream \/ ServerKilled \/ ServerCloses
  BY <1>4 DEF EndOfStream, ServerKilled, ServerCloses, ServerInv
<1>5. CASE ServerCode
  BY <1>5 DEF ServerCode, ServerInv
<1>6. CASE ServerRest
  <2>1. Len(req_block') = 3
    BY <1>6 DEF ServerRest
  <2>2. server' \in {"transfer", "exited", "payload"}
    BY <1>6 DEF ServerRest
  <2> QED  BY <1>6, <2>1, <2>2 DEF ServerRest, ServerInv
<1>7. CASE ServerPayload \/ ServerRead \/ ServerWrite
  BY <1>7 DEF ServerPayload, ServerRead, ServerWrite, At, ServerInv
<1>8. CASE ServerAnswer
  BY <1>8 DEF ServerAnswer, ServerInv
<1>9. CASE OpenPipe \/ SendConnect \/ ReadConnect \/ CloseProxy \/ Send \/ ReadHeader \/ ReadData
           \/ CheckAnswer \/ CompleteIrp \/ TearDown \/ (\E r \in Irp : TakeIrp(r)) \/ OutOfMemory
           \/ RemoveVirtualDisk
  BY <1>1, <1>9 DEF OpenPipe, SendConnect, ReadConnect, CloseProxy, Send, ReadHeader, ReadData,
                    CheckAnswer, CompleteIrp, TearDown, TakeIrp, OutOfMemory, RemoveVirtualDisk
<1> QED  BY <1>1, <1>2, <1>3, <1>4, <1>5, <1>6, <1>7, <1>8, <1>9
         DEF Next, DriverStep, ServiceStep, ServerStep, vars

-----------------------------------------------------------------------------
(* The call and its answer. *)

CallVars == <<irp, length_done, server, req_block, buf, kind, image, unread>>

\* A step that keeps what is on its way, and neither the request nor the server's part of
\* it, keeps the call where it is.
LEMMA CallKept ==
    ASSUME UNCHANGED CallVars, Rest' = Rest, Got' = Got, in' = in /\ down' = down
    PROVE  /\ Waiting' <=> Waiting
           /\ Answered' <=> Answered
           /\ Spoiled' <=> Spoiled
  BY DEF CallVars, Waiting, Answered, Spoiled, Answers, Short, Call, CallWords, Block, ToDo, Asked,
         Told

\* The same for a step that reads words of the answer.
LEMMA AnswerKept ==
    ASSUME UNCHANGED CallVars, Rest' = Rest, Got' = Got
    PROVE  /\ Answered' <=> Answered
           /\ Spoiled' <=> Spoiled
  BY DEF CallVars, Answered, Spoiled, Answers, Short, Call, CallWords, Block, ToDo, Asked,
         Told

\* The words of the call that is being made.
LEMMA CallFacts ==
    ASSUME Types, DriverInv, Calling
    PROVE  /\ irp \in Irp \cup {Query}
           /\ irp.code \in {InfoReq, ReadReq, WriteReq}
           /\ irp.code # InfoReq => irp \in Irp
           /\ irp.off \in Nat /\ irp.len \in Nat /\ length_done \in Nat /\ ToDo \in Nat
           /\ irp.code # InfoReq => irp.off + irp.len <= Size /\ ToDo > 0
           /\ irp.code = WriteReq => ToDo = irp.len /\ length_done = 0 /\ irp.word \in Nat
           /\ Call \in Seq(Nat) /\ Call[1] = irp.code
           /\ irp.code = InfoReq => Len(Call) = 1
           /\ irp.code = ReadReq => Len(Call) = 3
           /\ irp.code = WriteReq => Len(Call) = 3 + irp.len
           /\ irp.code # InfoReq => Call[2] = Block[2] /\ Call[3] = Block[3]
           /\ irp.code = WriteReq => \A i \in 1 .. irp.len : Call[3 + i] = irp.word
<1>1. /\ irp # NoIrp /\ irp \in Irp \cup {Query} /\ irp.code \in {InfoReq, ReadReq, WriteReq}
      /\ irp.code # InfoReq => irp \in Irp
  BY IrpType DEF Types, DriverInv, Busy
<1>2. irp.off \in Nat /\ irp.len \in Nat /\ length_done \in Nat
  BY IrpType DEF Types
<1>3. IF irp.code = ReadReq THEN length_done < irp.len ELSE length_done = 0
  BY DEF DriverInv
<1>4. ToDo \in Nat /\ length_done <= irp.len
  BY <1>2, <1>3 DEF ToDo
<1>5. irp.code # InfoReq => irp.off + irp.len <= Size /\ irp.len > 0
                            /\ (irp.code = WriteReq => irp.word \in Nat)
  BY <1>1, IrpIs
<1>6. irp.code # InfoReq => ToDo > 0
  BY <1>1, <1>2, <1>3, <1>5 DEF ToDo
<1>7. irp.code = WriteReq => ToDo = irp.len /\ length_done = 0
  BY <1>2, <1>3 DEF ToDo, WriteReq, ReadReq
<1>8. CASE irp.code = InfoReq
  <2>1. Call = <<InfoReq>>
    BY <1>8 DEF Call
  <2>2. Call \in Seq(Nat) /\ Call[1] = irp.code /\ Len(Call) = 1
    BY <1>8, <2>1 DEF InfoReq
  <2> QED  BY <1>1, <1>2, <1>4, <1>8, <2>2 DEF InfoReq, ReadReq, WriteReq
<1>9. CASE irp.code # InfoReq
  <2>1. irp \in Irp /\ Call = CallWords(irp, length_done)
    BY <1>1, <1>9 DEF Call
  <2>2. /\ Call \in Seq(Nat)
        /\ Len(Call) = 3 + (IF irp.code = WriteReq THEN irp.len ELSE 0)
        /\ Call[1] = irp.code /\ Call[2] = irp.off + length_done /\ Call[3] = irp.len - length_done
        /\ irp.code = WriteReq => \A i \in 1 .. irp.len : Call[3 + i] = irp.word
    BY <1>2, <1>4, <2>1, CallIs
  <2>3. Call[2] = Block[2] /\ Call[3] = Block[3]
    BY <2>2 DEF Block, ToDo
  <2>4. /\ irp.code = ReadReq => Len(Call) = 3
        /\ irp.code = WriteReq => Len(Call) = 3 + irp.len
    BY <1>1, <1>9, <2>2 DEF InfoReq, ReadReq, WriteReq
  <2> QED  BY <1>1, <1>2, <1>4, <1>5, <1>6, <1>7, <1>9, <2>2, <2>3, <2>4
<1> QED  BY <1>8, <1>9
\* Words that have been read are the first of the answer.
LEMMA GotIs ==
    ASSUME Types
    PROVE  /\ Got \in Seq(Nat) /\ Len(Got) = Len(in) + Len(down)
           /\ Len(in) \in Nat /\ Len(down) \in Nat
           /\ \A i \in 1 .. Len(in) : Got[i] = in[i]
           /\ down = <<>> <=> Len(down) = 0
           /\ in = <<>> <=> Len(in) = 0
<1>1. in \in Seq(Nat) /\ down \in Seq(Nat) /\ Len(in) \in Nat /\ Len(down) \in Nat
  BY LenProperties DEF Types
<1>2. 0 \in 0 .. Len(in)
  BY <1>1
<1>3. /\ Got \in Seq(Nat) /\ Len(Got) = Len(in) + Len(down)
      /\ \A i \in 1 .. Len(in) : Got[i] = in[i]
  BY <1>1, <1>2, TakeWords DEF Got
<1> QED  BY <1>1, <1>3, Whole

LEMMA RestIs ==
    ASSUME Types
    PROVE  /\ Rest \in Seq(Nat) /\ Len(Rest) = Len(up) + Len(out)
           /\ Len(up) \in Nat /\ Len(out) \in Nat
           /\ up = <<>> <=> Len(up) = 0
           /\ out = <<>> <=> Len(out) = 0
           /\ Rest = <<>> <=> Len(Rest) = 0
           /\ Rest = <<>> => up = <<>> /\ out = <<>>
<1>1. up \in Seq(Nat) /\ out \in Seq(Nat) /\ Len(up) \in Nat /\ Len(out) \in Nat
  BY LenProperties DEF Types
<1>2. Rest \in Seq(Nat) /\ Len(Rest) = Len(up) + Len(out)
  BY <1>1, ConcatProperties DEF Rest
<1>3. (up = <<>> <=> Len(up) = 0) /\ (out = <<>> <=> Len(out) = 0) /\ (Rest = <<>> <=> Len(Rest) = 0)
  BY <1>1, <1>2, Whole
<1> QED  BY <1>1, <1>2, <1>3

\* An answer that is not refused is the whole answer to this call.
LEMMA AcceptedIsWhole ==
    ASSUME IInv, worker = "check", ~Refused
    PROVE  /\ Answered /\ down = <<>> /\ up = <<>>
           /\ irp.code = WriteReq => ~Spoiled /\ \A p \in Asked : image[p] = irp.word
           /\ irp.code = ReadReq =>
                /\ in[2] \in Nat /\ in[2] <= ToDo /\ Len(in) = 2 + in[2]
                /\ \A i \in 1 .. in[2] : in[2 + i] = Told(irp.off + length_done + i - 1)
<1> USE DEF IInv
<1>1. /\ DataSize \in Nat /\ Len(in) \in Nat /\ Len(in) >= 2 /\ in[1] \in Nat /\ in[2] \in Nat
      /\ Len(in) = HeaderSize + DataSize /\ Calling
  BY DataSizeType DEF DriverInv, Calling
<1>2. Got[1] = in[1] /\ Got[2] = in[2]
  BY <1>1, GotIs
<1>3. ~Waiting
  BY <1>1, GotIs DEF Waiting
<1>4. ~Spoiled
  BY <1>2 DEF Spoiled, Short, Refused, WriteReq, InfoReq
<1>5. Answered
  BY <1>1, <1>3, <1>4 DEF CallInv
<1>6. Answers(Got) /\ Rest = <<>>
  BY <1>5 DEF Answered
<1>7. up = <<>>
  BY <1>6, RestIs
<1>8. irp.code = InfoReq \/ irp.code = ReadReq \/ irp.code = WriteReq
  BY <1>1, CallFacts
<1>9. CASE irp.code = InfoReq
  <2>1. Len(Got) = 3
    BY <1>6, <1>9 DEF Answers
  <2>2. Len(in) = 3
    BY <1>1, <1>9 DEF HeaderSize, DataSize, InfoReq, ReadReq
  <2> QED  BY <1>5, <1>7, <1>9, <2>1, <2>2, GotIs DEF InfoReq, WriteReq, ReadReq
<1>10. CASE irp.code = ReadReq
  <2>1. /\ Len(Got) = 2 + Got[2] /\ Got[2] <= ToDo
        /\ \A i \in 1 .. Got[2] : Got[2 + i] = Told(irp.off + length_done + i - 1)
    BY <1>6, <1>10 DEF Answers
  <2>2. Len(in) = 2 + in[2]
    BY <1>1, <1>10 DEF HeaderSize, DataSize, InfoReq, ReadReq
  <2>3. down = <<>>
    BY <1>2, <2>1, <2>2, GotIs
  <2>4. \A i \in 1 .. in[2] : 2 + i \in 1 .. Len(in) /\ Got[2 + i] = in[2 + i]
    BY <1>1, <2>2, GotIs, SMTT(30)
  <2> QED  BY <1>1, <1>2, <1>5, <1>7, <1>10, <2>1, <2>2, <2>3, <2>4 DEF ReadReq, WriteReq
<1>11. CASE irp.code = WriteReq
  <2>1. Len(Got) = 2 /\ (Got[1] = 0 /\ Got[2] = irp.len => \A p \in Asked : image[p] = irp.word)
    BY <1>6, <1>11 DEF Answers
  <2>2. Len(in) = 2
    BY <1>1, <1>11 DEF HeaderSize, DataSize, InfoReq, ReadReq, WriteReq
  <2>3. down = <<>>
    BY <2>1, <2>2, GotIs
  <2>4. in[1] = 0 /\ in[2] = irp.len
    BY <1>11 DEF Refused, InfoReq, WriteReq
  <2> QED  BY <1>2, <1>4, <1>5, <1>7, <1>11, <2>1, <2>3, <2>4 DEF ReadReq, WriteReq
<1> QED  BY <1>8, <1>9, <1>10, <1>11
CallTyped == Call \in Seq(Nat)

LEMMA CallType == Types /\ DriverInv /\ Calling => CallTyped
  BY CallFacts DEF CallTyped

LEMMA CallTypeNext == Types' /\ DriverInv' /\ Calling' => CallTyped'
  BY CallType, PTL

\* A call that is about to be made, with nothing of an earlier one left.
LEMMA FreshCall ==
    ASSUME IInv, [Next]_vars, Calling', in' = <<>>, down' = <<>>, up' = <<>>, out' = Call',
           server' \in {"code", "exited"}
    PROVE  Waiting'
<1>1. Types' /\ DriverInv'
  BY TypesNext, DriverNext
<1>2. Call' \in Seq(Nat)
  BY <1>1, CallTypeNext DEF CallTyped
<1>3. Rest' = Call'
  BY <1>2, ConcatEmptySeq DEF Rest
<1>4. Len(Call') \in Nat
  BY <1>2, LenProperties
<1> QED  BY <1>3, <1>4 DEF Waiting

\* The driver's steps keep to its call.
LEMMA DriverCall ==
    ASSUME IInv, DriverStep \/ (\E r \in Irp : TakeIrp(r)) \/ OutOfMemory \/ RemoveVirtualDisk
    PROVE  CallInv' /\ QuietInv'
<1> [Next]_vars
  BY DEF Next
<1>1. CASE OpenPipe \/ SendConnect \/ ReadConnect \/ CloseProxy \/ TearDown
  <2>1. ~Calling' /\ (Between' => Between)
    BY <1>1 DEF OpenPipe, SendConnect, ReadConnect, CloseProxy, TearDown, Goto, GiveUp,
                Calling, Between, Early
  <2>2. UNCHANGED <<up, down, server>> /\ (Early /\ worker' # "close" /\ worker' # "gone" => Early')
    BY <1>1 DEF OpenPipe, SendConnect, ReadConnect, CloseProxy, TearDown, Goto, GiveUp, Early
  <2>3. Between' => Early' \/ ~Early
    BY <2>2 DEF Between, Early
  <2> QED  BY <2>1, <2>2, <2>3 DEF IInv, CallInv, QuietInv
<1>2. CASE Claim
  <2>1. CASE worker' = "close"
    BY <2>1 DEF CallInv, QuietInv, Calling, Between, Early
  <2>2. CASE worker' # "close"
    <3>1. objects /\ worker' = "send" /\ irp' = Query /\ out' = <<InfoReq>> /\ worker = "claim"
      BY <1>2, <2>2 DEF Claim, GiveUp, GetReferencedHandle
    <3>2. UNCHANGED <<in, up, down, server>>
      BY <1>2 DEF Claim
    <3>3. in = <<>> /\ up = <<>> /\ down = <<>> /\ server \in {"code", "exited"}
      BY <3>1 DEF IInv, DriverInv, QuietInv, ServerInv, Between, Early
    <3>4. Call' = out' /\ Calling' /\ ~Between'
      BY <3>1 DEF Call, Query, InfoReq, Calling, Between, Early
    <3>5. Waiting'
      BY <3>2, <3>3, <3>4, FreshCall
    <3> QED  BY <3>4, <3>5 DEF CallInv, QuietInv
  <2> QED  BY <2>1, <2>2
<1>3. ASSUME Fail PROVE CallInv' /\ QuietInv'
  BY <1>3 DEF Fail, EndCall, CallInv, QuietInv, Calling, Between, Early
<1>4. CASE Send
  <2>1. CASE ~Fail
    <3>1. worker = "send" /\ worker' \in {"send", "header"} /\ UNCHANGED <<irp, length_done, in, down, unread>>
      BY <1>4, <2>1 DEF Send
    <3>2. Rest' = Rest
      BY <1>4, <2>1, SendIs DEF Send, IInv
    <3>3. UNCHANGED CallVars /\ Got' = Got
      BY <1>4, <3>1 DEF Send, CallVars, Got
    <3>4. Waiting' \/ Answered' \/ Spoiled'
      BY <3>1, <3>2, <3>3, CallKept DEF IInv, CallInv, Calling
    <3> QED  BY <3>1, <3>4 DEF CallInv, QuietInv, Between, Early
  <2> QED  BY <1>3, <2>1
<1>5. CASE ReadHeader
  <2>1. CASE ReadWords(HeaderSize - Len(in), "data")
    <3>1. Types /\ HeaderSize - Len(in) \in Int
      BY IrpType, GotIs DEF IInv
    <3>2. /\ in' \o down' = Got /\ Len(down) > 0 /\ worker' \in {"data", worker}
          /\ UNCHANGED <<irp, length_done, out, unread>>
      BY <2>1, <3>1, ReadWordsIs
    <3>3. worker = "header" /\ UNCHANGED CallVars /\ Rest' = Rest /\ Got' = Got
      BY <1>5, <3>2 DEF ReadHeader, CallVars, Rest, Got
    <3>4. ~Waiting
      BY <3>1, <3>2, GotIs DEF Waiting
    <3>5. Answered' \/ Spoiled'
      BY <3>3, <3>4, AnswerKept DEF IInv, CallInv, Calling
    <3> QED  BY <3>2, <3>3, <3>5 DEF CallInv, QuietInv, Between, Early
  <2> QED  BY <1>3, <1>5, <2>1 DEF ReadHeader
<1>6. CASE ReadData
  <2>1. CASE ReadWords(2 + DataSize - Len(in), "check")
    <3>1. Types /\ 2 + DataSize - Len(in) \in Int
      BY <1>6, DataSizeType DEF IInv, ReadData
    <3>2. /\ in' \o down' = Got /\ Len(down) > 0 /\ worker' \in {"check", worker}
          /\ UNCHANGED <<irp, length_done, out, unread>>
      BY <2>1, <3>1, ReadWordsIs
    <3>3. worker = "data" /\ UNCHANGED CallVars /\ Rest' = Rest /\ Got' = Got
      BY <1>6, <3>2 DEF ReadData, CallVars, Rest, Got
    <3>4. ~Waiting
      BY <3>1, <3>2, GotIs DEF Waiting
    <3>5. Answered' \/ Spoiled'
      BY <3>3, <3>4, AnswerKept DEF IInv, CallInv, Calling
    <3> QED  BY <3>2, <3>3, <3>5 DEF CallInv, QuietInv, Between, Early
  <2>2. CASE worker' = "check" /\ UNCHANGED <<terminate_thread, irp, out, in, down, length_done, result,
                                               unread>>
    <3>1. worker = "data" /\ UNCHANGED CallVars /\ Rest' = Rest /\ Got' = Got
      BY <1>6, <2>2 DEF ReadData, CallVars, Rest, Got
    <3>2. Waiting' \/ Answered' \/ Spoiled'
      BY <2>2, <3>1, CallKept DEF IInv, CallInv, Calling
    <3> QED  BY <2>2, <3>2 DEF CallInv, QuietInv, Between, Early
  <2> QED  BY <1>3, <1>6, <2>1, <2>2 DEF ReadData
<1>7. CASE CheckAnswer
  <2>1. CASE ~Fail
    <3>1. worker = "check" /\ ~Refused /\ UNCHANGED <<up, down, server>>
      BY <1>7, <2>1 DEF CheckAnswer
    <3>2. Answered /\ down = <<>> /\ up = <<>>
      BY <3>1, AcceptedIsWhole
    <3>3. server \in {"code", "exited"}
      BY <3>2 DEF Answered
    <3>4. irp' = irp /\ in' = <<>> /\ worker' \in {"send", "done"}
      BY <1>7, <2>1 DEF CheckAnswer, Continue
    <3>5. CASE worker' = "send"
      <4>1. irp.code = ReadReq /\ out' = CallWords(irp, length_done + in[2])
            /\ length_done' = length_done + in[2]
        BY <1>7, <2>1, <3>5 DEF CheckAnswer, Continue
      <4>2. out' = Call' /\ Calling'
        BY <3>4, <3>5, <4>1 DEF Call, ReadReq, InfoReq, Calling
      <4>3. Waiting'
        BY <3>1, <3>2, <3>3, <3>4, <4>2, FreshCall
      <4> QED  BY <3>5, <4>3 DEF CallInv, QuietInv, Between, Early
    <3>6. CASE worker' = "done"
      BY <3>1, <3>2, <3>3, <3>6 DEF CallInv, QuietInv, Calling
    <3> QED  BY <3>4, <3>5, <3>6
  <2> QED  BY <1>3, <2>1
<1>8. CASE CompleteIrp
  BY <1>8 DEF CompleteIrp, Goto, IInv, CallInv, QuietInv, Calling, Between, Early
<1>9. ASSUME NEW r \in Irp, TakeIrp(r) PROVE CallInv' /\ QuietInv'
  <2>1. /\ worker = "idle" /\ worker' = "send" /\ irp' = r /\ out' = CallWords(r, 0)
        /\ ~terminate_thread /\ UNCHANGED <<in, up, down, length_done, server>>
    BY <1>9 DEF TakeIrp, Goto
  <2>2. in = <<>> /\ length_done = 0 /\ up = <<>> /\ down = <<>> /\ server \in {"code", "exited"}
    BY <2>1 DEF IInv, DriverInv, QuietInv, Busy, Calling, Between, Early
  <2>3. out' = Call' /\ Calling'
    BY <2>1, <2>2, IrpIs DEF Call, InfoReq, ReadReq, WriteReq, Calling
  <2>4. Waiting'
    BY <2>1, <2>2, <2>3, FreshCall
  <2> QED  BY <2>1, <2>4 DEF CallInv, QuietInv, Between, Early
<1>10. CASE OutOfMemory
  BY <1>3, <1>10 DEF OutOfMemory
<1>11. CASE RemoveVirtualDisk
  <2>1. UNCHANGED CallVars /\ Rest' = Rest /\ Got' = Got /\ in' = in /\ down' = down
    BY <1>11 DEF RemoveVirtualDisk, CallVars, Rest, Got
  <2>2. UNCHANGED <<worker, up, down, server>> /\ (Between' => Between)
    BY <1>11 DEF RemoveVirtualDisk, Between, Early
  <2> QED  BY <2>1, <2>2, CallKept DEF IInv, CallInv, QuietInv, Calling, Early
<1> QED  BY <1>1, <1>2, <1>4, <1>5, <1>6, <1>7, <1>8, <1>9, <1>10, <1>11 DEF DriverStep
-----------------------------------------------------------------------------
(* The server's part of the call. *)

ByOthers == ServiceStep \/ ServerStep \/ ServiceStops \/ ServerKilled

LEMMA OthersKeep ==
    ASSUME ByOthers
    PROVE  UNCHANGED <<terminate_thread, driver, kind, disk>>
  BY DEF ByOthers, ServiceStep, Connect, ReferenceHandle, SendAnswer, CleanUp, ServiceStops,
         ServerKilled, ServerStep, EndOfStream, ServerCode, ServerRest, ServerPayload, ServerRead,
         ServerWrite, ServerAnswer, ServerCloses

\* Between the calls there is nothing for the server to do.
LEMMA OthersQuiet ==
    ASSUME IInv, ByOthers
    PROVE  QuietInv' /\ (Between \/ Answered => UNCHANGED <<up, down, image, unread>>
                                                /\ (server' \in {server, "code", "exited"}))
<1> USE DEF IInv
<1>1. Between' => Between
  BY OthersKeep DEF Between, Early
<1>2. Between \/ Answered => up = <<>> /\ server \in {"code", "exited", "listen"}
  BY RestIs DEF QuietInv, Answered
<1>3. up = <<>> => ~Takes(1) /\ ~Takes(2)
  BY DEF Takes
<1>4. Between \/ Answered => ~(ServerCode \/ ServerRest \/ ServerPayload \/ ServerRead \/ ServerWrite
                               \/ ServerAnswer)
  BY <1>2, <1>3 DEF ServerCode, ServerRest, ServerPayload, ServerRead, ServerWrite, ServerAnswer, At
<1>5. Between \/ Answered => UNCHANGED <<up, down, image, unread>> /\ (server' \in {server, "code", "exited"})
  BY <1>4 DEF ByOthers, ServiceStep, Connect, ReferenceHandle, SendAnswer, CleanUp, ServiceStops,
              ServerKilled, ServerStep, EndOfStream, ServerCloses, Session
<1>6. QuietInv'
  BY <1>1, <1>5, OthersKeep DEF QuietInv, Early
<1> QED  BY <1>5, <1>6

\* A write that was answered too soon remains one: more words may leave the stream, and more
\* answers come.
LEMMA SpoiledStays ==
    ASSUME IInv, ByOthers, Calling, Spoiled
    PROVE  Spoiled'
<1> USE DEF IInv
<1>1. UNCHANGED <<irp, length_done, kind, out, in>>
  BY OthersKeep
<1>2. Call' = Call
  BY <1>1 DEF Call, CallWords
<1>3. Len(Rest') <= Len(Rest) /\ Len(Rest) \in Nat /\ Len(Rest') \in Nat
  <2>1. Len(Rest) \in Nat
    BY RestIs
  <2>2. CASE UNCHANGED up
    BY <1>1, <2>1, <2>2 DEF Rest
  <2>3. ASSUME NEW n \in Nat, Takes(n) PROVE Len(Rest') <= Len(Rest) /\ Len(Rest') \in Nat
    <3>1. Rest' \in Seq(Nat) /\ Len(Rest') = Len(Rest) - n
      BY <1>1, <2>3, TakesIs
    <3> QED  BY <2>1, <3>1, LenProperties
  <2>4. CASE ServerCode
    BY <2>1, <2>3, <2>4 DEF ServerCode
  <2>5. CASE ServerRest
    BY <2>1, <2>3, <2>5 DEF ServerRest
  <2>6. CASE ServerPayload
    <3>1. req_block[3] \in Nat
      BY <2>6, BlockIs DEF ServerPayload, At
    <3>2. \A n \in 1 .. req_block[3] : n \in Nat
      BY <3>1
    <3> QED  BY <2>1, <2>3, <2>6, <3>2 DEF ServerPayload
  <2> QED  BY <2>1, <2>2, <2>4, <2>5, <2>6
           DEF ByOthers, ServiceStep, Connect, ReferenceHandle, SendAnswer, CleanUp, ServiceStops,
               ServerKilled, ServerStep, EndOfStream, ServerRead, ServerWrite, ServerAnswer, ServerCloses
<1>4. Len(Got) >= 2 /\ Len(Got') >= 2 /\ Got'[1] = Got[1] /\ Got'[2] = Got[2]
  <2>1. Len(Got) >= 2 /\ Got \in Seq(Nat) /\ Len(Got) \in Nat
    BY GotIs, LenProperties DEF Spoiled, Short
  <2>2. CASE UNCHANGED down
    BY <1>1, <2>1, <2>2 DEF Got
  <2>3. CASE down' = down \o buf
    <3>1. Got' = Got \o buf
      BY <1>1, <2>3, ThreeParts, ZenonT(60) DEF Got, Types
    <3>2. PICK g : g = Got
      OBVIOUS
    <3>3. /\ Len(g \o buf) = Len(g) + Len(buf) /\ Len(buf) \in Nat
          /\ \A i \in 1 .. Len(g) : g[i] = (g \o buf)[i]
      BY <2>1, <3>2, TakeWords, 0 \in 0 .. Len(g), LenProperties DEF Types
    <3> QED  BY <2>1, <3>1, <3>2, <3>3
  <2> QED  BY <2>2, <2>3
           DEF ByOthers, ServiceStep, Connect, ReferenceHandle, SendAnswer, CleanUp, ServiceStops,
               ServerKilled, ServerStep, EndOfStream, ServerCode, ServerRest, ServerPayload, ServerRead,
               ServerWrite, ServerAnswer, ServerCloses
<1>5. Len(Call) \in Nat
  BY CallFacts, LenProperties
<1> QED  BY <1>1, <1>2, <1>3, <1>4, <1>5 DEF Spoiled, Short
\* The server takes the code of the call, ...
LEMMA CodeTaken ==
    ASSUME IInv, Calling, Waiting, ServerCode
    PROVE  Waiting'
<1> USE DEF IInv
<1>1. UNCHANGED <<irp, length_done, kind, in, down, out, image>> /\ server = "code" /\ Takes(1)
  BY DEF ServerCode
<1>2. Call' = Call /\ HeaderSize' = HeaderSize
  BY <1>1 DEF Call, CallWords, HeaderSize
<1>3. Rest = Call /\ in = <<>> /\ down = <<>>
  BY <1>1 DEF Waiting
<1>4. /\ Rest' = SubSeq(Call, 2, Len(Call)) /\ Len(Rest') = Len(Call) - 1 /\ Rest' \in Seq(Nat)
      /\ up[1] = Call[1] /\ Len(Call) \in Nat /\ up \in Seq(Nat) /\ Len(up) >= 1
  <2>1. /\ Rest' = SubSeq(Rest, 1 + 1, Len(Rest)) /\ Len(Rest') = Len(Rest) - 1 /\ Rest' \in Seq(Nat)
        /\ up[1] = Rest[1] /\ Len(up) >= 1
    BY <1>1, TakesIs
  <2> QED  BY <1>3, <2>1, CallFacts, LenProperties DEF Types
<1>5. Head(up) = irp.code
  BY <1>4, CallFacts
<1>6. /\ irp.code \in {InfoReq, ReadReq, WriteReq}
      /\ irp.code = InfoReq => Len(Call) = 1
  BY CallFacts
<1>7. CASE irp.code = InfoReq
  <2>1. server' = "answer" /\ buf' = <<Size, 1, 0>>
    BY <1>5, <1>7 DEF ServerCode, InfoReq, ReadReq, WriteReq
  <2>2. Rest' = <<>>
    <3>1. Len(Rest') = 0
      BY <1>4, <1>6, <1>7
    <3> QED  BY <1>4, <3>1, Whole
  <2>3. Len(buf') >= 2
    BY <2>1
  <2>4. Answers(buf)'
    BY <1>1, <1>7, <2>1 DEF Answers, InfoReq, ReadReq, WriteReq
  <2>5. Len(Rest') <= Len(Call')
    BY <1>2, <1>4
  <2> QED  BY <1>1, <1>3, <2>1, <2>2, <2>3, <2>4, <2>5 DEF Waiting
<1>8. CASE irp.code \in {ReadReq, WriteReq}
  <2>1. server' = "rest" /\ req_block' = <<irp.code>>
    <3>1. Head(up) \in {ReadReq, WriteReq}
      BY <1>5, <1>8
    <3> QED  BY <1>5, <3>1 DEF ServerCode
  <2>2. irp'.code # InfoReq
    BY <1>1, <1>8 DEF InfoReq, ReadReq, WriteReq
  <2>3. Len(Rest') <= Len(Call') /\ Rest' = SubSeq(Call', 2, Len(Call'))
    BY <1>2, <1>4
  <2> QED  BY <1>1, <1>3, <2>1, <2>2, <2>3 DEF Waiting
<1> QED  BY <1>6, <1>7, <1>8

\* ... its offset and length, ...
LEMMA RestTaken ==
    ASSUME IInv, Calling, Waiting, ServerRest
    PROVE  Waiting'
<1> USE DEF IInv
<1>1. UNCHANGED <<irp, length_done, kind, in, down, out, image>> /\ server = "rest" /\ Takes(2)
  BY DEF ServerRest
<1>2. Call' = Call /\ Block' = Block
  BY <1>1 DEF Call, CallWords, Block, ToDo
<1>3. /\ Rest = SubSeq(Call, 2, Len(Call)) /\ in = <<>> /\ down = <<>> /\ irp.code # InfoReq
      /\ req_block = <<irp.code>>
  BY <1>1 DEF Waiting
<1>4. /\ Call \in Seq(Nat) /\ Len(Call) \in Nat /\ Len(Call) >= 3
      /\ irp.code = ReadReq => Len(Call) = 3
      /\ irp.code \in {ReadReq, WriteReq}
      /\ Call[2] = Block[2] /\ Call[3] = Block[3]
  BY <1>3, CallFacts, LenProperties, SMTT(30)
<1>5. /\ Rest' = SubSeq(Rest, 3, Len(Rest)) /\ Len(Rest') = Len(Rest) - 2
      /\ up[1] = Rest[1] /\ up[2] = Rest[2] /\ Rest' \in Seq(Nat)
  <2>1. /\ Rest' = SubSeq(Rest, 2 + 1, Len(Rest)) /\ Len(Rest') = Len(Rest) - 2 /\ Rest' \in Seq(Nat)
        /\ \A i \in 1 .. 2 : up[i] = Rest[i]
    BY <1>1, TakesIs
  <2> QED  BY <2>1
<1>6. /\ Rest' = SubSeq(Call, 4, Len(Call)) /\ Len(Rest) = Len(Call) - 1
      /\ Rest[1] = Call[2] /\ Rest[2] = Call[3]
  <2>1. PICK r : r = Rest
    OBVIOUS
  <2>2. SubSeq(r, 2 + 1, Len(r)) = SubSeq(Call, 1 + 2 + 1, Len(Call))
    BY <1>3, <1>4, <2>1, DropTwice, 1 + 1 = 2
  <2>3. /\ Len(r) = Len(Call) - 1 /\ \A i \in 1 .. Len(Call) - 1 : r[i] = Call[1 + i]
    BY <1>3, <1>4, <2>1, HeadAndTail, 1 \in 0 .. Len(Call), 1 + 1 = 2
  <2> QED  BY <1>4, <1>5, <2>1, <2>2, <2>3
<1>7. req_block' = Block
  <2>1. req_block' = <<irp.code, up[1], up[2]>>
    BY <1>3 DEF ServerRest
  <2> QED  BY <1>4, <1>5, <1>6, <2>1 DEF Block
<1>8. Len(Rest') <= Len(Call')
  BY <1>2, <1>4, <1>5, <1>6
<1>9. CASE irp.code = ReadReq
  <2>1. server' = "transfer"
    BY <1>3, <1>9 DEF ServerRest
  <2>2. Rest' = <<>>
    <3>1. Len(Rest') = 0
      BY <1>4, <1>5, <1>6, <1>9
    <3> QED  BY <1>5, <3>1, Whole
  <2> QED  BY <1>1, <1>2, <1>3, <1>7, <1>8, <1>9, <2>1, <2>2 DEF Waiting
<1>10. CASE irp.code = WriteReq
  <2>1. server' \in {"exited", "payload"}
    BY <1>3, <1>10 DEF ServerRest, ReadReq, WriteReq
  <2> QED  BY <1>1, <1>2, <1>3, <1>6, <1>7, <1>8, <1>10, <2>1 DEF Waiting
<1> QED  BY <1>4, <1>9, <1>10

\* ... and data of a write: all of it, or what is there.
LEMMA PayloadTaken ==
    ASSUME IInv, Calling, Waiting, ServerPayload
    PROVE  Waiting'
<1> USE DEF IInv
<1>1. /\ UNCHANGED <<irp, length_done, kind, in, down, out, image, req_block>>
      /\ server = "payload" /\ server' = "transfer"
  BY DEF ServerPayload, At
<1>2. Call' = Call /\ Block' = Block
  BY <1>1 DEF Call, CallWords, Block, ToDo
<1>3. /\ Rest = SubSeq(Call, 4, Len(Call)) /\ in = <<>> /\ down = <<>> /\ irp.code = WriteReq
      /\ req_block = Block
  BY <1>1 DEF Waiting
<1>4. /\ Call \in Seq(Nat) /\ Len(Call) = 3 + irp.len /\ irp.len \in Nat /\ ToDo = irp.len
      /\ \A i \in 1 .. irp.len : Call[3 + i] = irp.word
  BY <1>3, CallFacts
<1>5. req_block[3] = irp.len
  BY <1>3, <1>4 DEF Block
<1>6. PICK n \in 1 .. irp.len : Takes(n) /\ buf' = SubSeq(up, 1, n) /\ (kind = "devio" => n = irp.len)
  BY <1>5 DEF ServerPayload
<1>7. /\ Len(buf') = n /\ \A i \in 1 .. n : buf'[i] = Rest[i]
      /\ Len(Rest') = Len(Rest) - n /\ Rest' \in Seq(Nat)
  <2>1. n \in Nat
    BY <1>4
  <2> QED  BY <1>1, <1>6, <2>1, TakesIs
<1>8. Len(Rest) = irp.len /\ \A i \in 1 .. irp.len : Rest[i] = irp.word
  <2>1. PICK r : r = Rest
    OBVIOUS
  <2>2. Len(r) = Len(Call) - 3 /\ \A i \in 1 .. Len(Call) - 3 : r[i] = Call[3 + i]
    BY <1>3, <1>4, <2>1, HeadAndTail, 3 \in 0 .. Len(Call), 3 + 1 = 4, SMTT(30)
  <2> QED  BY <1>4, <2>1, <2>2
<1>9. /\ Len(buf') + Len(Rest') = irp.len /\ Len(buf') > 0 /\ Len(Rest') <= Len(Call')
      /\ kind = "devio" => Len(Rest') = 0
  <2>1. PICK b, r, k : b = Len(buf') /\ r = Len(Rest') /\ k = Len(Rest)
    OBVIOUS
  <2>2. b = n /\ r = k - n /\ k = irp.len /\ Len(Call') = 3 + irp.len /\ irp.len \in Nat
    BY <1>2, <1>4, <1>7, <1>8, <2>1
  <2>3. b + r = irp.len /\ b > 0 /\ r <= 3 + irp.len /\ (n = irp.len => r = 0)
    BY <2>2
  <2> QED  BY <1>6, <2>1, <2>2, <2>3
<1>10. kind = "devio" => Rest' = <<>>
  BY <1>7, <1>9, Whole
<1>11. \A i \in 1 .. Len(buf') : buf'[i] = irp.word
  BY <1>4, <1>6, <1>7, <1>8
<1> QED  BY <1>1, <1>2, <1>3, <1>9, <1>10, <1>11 DEF Waiting, WriteReq, ReadReq, InfoReq
\* The server reads: what it answers is what the image holds there, or zero for what it did not
\* get, and nothing changes for cells of earlier calls.
LEMMA ReadDone ==
    ASSUME IInv, Calling, Waiting, ServerRead
    PROVE  /\ Waiting' /\ irp.code = ReadReq
           /\ \A p \in Nat : p < irp.off + length_done => (p \in unread' <=> p \in unread)
<1> USE DEF IInv
<1>1. /\ UNCHANGED <<irp, length_done, kind, in, down, out, up, image, req_block>>
      /\ server = "transfer" /\ server' = "answer" /\ req_block[1] = ReadReq
  BY DEF ServerRead, At
<1>2. Call' = Call /\ Rest' = Rest /\ ToDo' = ToDo
  BY <1>1 DEF Call, CallWords, Rest, ToDo
<1>3. /\ in = <<>> /\ down = <<>> /\ req_block = Block /\ irp.code = ReadReq /\ Rest = <<>>
      /\ Len(Rest) <= Len(Call)
  BY <1>1 DEF Waiting, Block
<1>4. /\ irp.off \in Nat /\ irp.len \in Nat /\ length_done \in Nat /\ ToDo \in Nat
      /\ irp.off + irp.len <= Size
  BY <1>3, CallFacts DEF ReadReq, InfoReq
<1>5. req_block[2] = irp.off + length_done /\ req_block[3] = ToDo
  BY <1>3 DEF Block
<1>6. ASSUME buf' = <<EIO, 0>> PROVE Waiting'
  <2>1. Len(buf') = 2 /\ buf'[2] = 0
    BY <1>6
  <2>2. Answers(buf)'
    BY <1>1, <1>2, <1>3, <1>4, <2>1 DEF Answers, InfoReq, ReadReq, WriteReq
  <2> QED  BY <1>1, <1>2, <1>3, <2>1, <2>2 DEF Waiting
<1>7. ASSUME NEW n \in 0 .. req_block[3], NEW got \in SUBSET Target(req_block[3]),
             buf' = <<0, n>> \o [i \in 1 .. n |-> IF req_block[2] + i - 1 \in got
                                                  THEN image[req_block[2] + i - 1] ELSE 0],
             unread' = (unread \cup Target(n)) \ got
      PROVE  Waiting'
  <2>1. PICK d : d = [i \in 1 .. n |-> IF req_block[2] + i - 1 \in got
                                       THEN image[req_block[2] + i - 1] ELSE 0]
    OBVIOUS
  <2>2. \A q \in got : image[q] \in Nat
    BY DEF Target, Types
  <2>3. d \in Seq(Nat) /\ n \in Nat /\ Len(d) = n
    BY <1>4, <1>5, <1>7, <2>1, <2>2, SMTT(30)
  <2>4. <<0, n>> \in Seq(Nat) /\ Len(<<0, n>>) = 2
    BY <2>3
  <2>5. /\ Len(buf') = 2 + n /\ buf'[1] = 0 /\ buf'[2] = n
        /\ \A i \in 1 .. n : buf'[2 + i] = d[i]
    <3>1. \A i \in 1 .. 2 + n : buf'[i] = IF i <= 2 THEN <<0, n>>[i] ELSE d[i - 2]
      BY <1>7, <2>1, <2>3, <2>4, ConcatProperties
    <3>2. Len(buf') = 2 + n
      BY <1>7, <2>1, <2>3, <2>4, ConcatProperties
    <3>3. \A i \in 1 .. n : 2 + i \in 1 .. 2 + n /\ ~(2 + i <= 2) /\ (2 + i) - 2 = i
      BY <2>3
    <3>4. \A i \in 1 .. n : buf'[2 + i] = d[i]
      BY <3>1, <3>3
    <3> QED  BY <2>3, <3>1, <3>2, <3>4
  <2>6. ASSUME NEW i \in 1 .. n PROVE d[i] = Told(irp.off + length_done + i - 1)'
    <3>1. PICK p : p = irp.off + length_done + i - 1 /\ p = req_block[2] + i - 1
      BY <1>5
    <3>2. p \in Target(n)
      <4>1. n <= irp.len - length_done /\ i \in Nat /\ i >= 1 /\ i <= n /\ n \in Nat
        BY <1>4, <1>5, <1>7, <2>3, <2>6 DEF ToDo
      <4> QED  BY <1>4, <1>5, <3>1, <4>1, SizeAssumption DEF Cell, Target
    <3>3. p \in unread' <=> p \notin got
      BY <1>7, <3>2
    <3>4. d[i] = IF p \in got THEN image[p] ELSE 0
      BY <2>1, <2>6, <3>1
    <3> QED  BY <1>1, <3>1, <3>3, <3>4 DEF Told
  <2>7. Answers(buf)'
    <3>1. n <= ToDo
      BY <1>4, <1>5, <1>7
    <3>2. \A i \in 1 .. n : buf'[2 + i] = Told(irp.off + length_done + i - 1)'
      BY <2>5, <2>6
    <3>3. irp'.code = ReadReq /\ irp' = irp /\ length_done' = length_done
      BY <1>1, <1>3
    <3> QED  BY <1>2, <2>5, <3>1, <3>2, <3>3 DEF Answers, InfoReq, ReadReq, WriteReq
  <2>8. Len(buf') >= 2
    BY <2>3, <2>5
  <2> QED  BY <1>1, <1>2, <1>3, <2>7, <2>8 DEF Waiting
<1>8. \/ buf' = <<EIO, 0>> /\ unread' = unread
      \/ \E n \in 0 .. req_block[3], got \in SUBSET Target(req_block[3]) :
            /\ buf' = <<0, n>> \o [i \in 1 .. n |-> IF req_block[2] + i - 1 \in got
                                                    THEN image[req_block[2] + i - 1] ELSE 0]
            /\ unread' = IF irp.code = ReadReq THEN (unread \cup Target(n)) \ got ELSE {}
  BY DEF ServerRead
<1>9. \A p \in Nat : p < irp.off + length_done => (p \in unread' <=> p \in unread)
  <2>1. \A n \in 0 .. req_block[3] : \A p \in Target(n) : p >= irp.off + length_done
    BY <1>4, <1>5, SizeAssumption DEF Target, Cell
  <2>2. req_block[3] \in 0 .. req_block[3]
    BY <1>4, <1>5
  <2>3. ASSUME NEW n \in 0 .. req_block[3], NEW got \in SUBSET Target(req_block[3]),
               unread' = (unread \cup Target(n)) \ got, NEW p \in Nat, p < irp.off + length_done
        PROVE  p \in unread' <=> p \in unread
    <3>1. p \notin Target(n) /\ p \notin Target(req_block[3])
      BY <1>4, <2>1, <2>2, <2>3
    <3> QED  BY <2>3, <3>1
  <2> QED  BY <1>3, <1>8, <2>3
<1> QED  BY <1>3, <1>6, <1>7, <1>8, <1>9

\* The server writes: the cells it was given, or the first of them.
LEMMA WriteDone ==
    ASSUME IInv, Calling, Waiting, ServerWrite
    PROVE  Waiting' /\ irp.code = WriteReq /\ \A p \in Cell : p \notin Asked => image'[p] = image[p]
<1> USE DEF IInv
<1>1. /\ UNCHANGED <<irp, length_done, kind, in, down, out, up, req_block>>
      /\ server = "transfer" /\ server' = "answer" /\ req_block[1] = WriteReq
  BY DEF ServerWrite, At
<1>2. Call' = Call /\ Rest' = Rest /\ ToDo' = ToDo /\ Asked' = Asked
  BY <1>1 DEF Call, CallWords, Rest, ToDo, Asked
<1>3. /\ in = <<>> /\ down = <<>> /\ req_block = Block /\ irp.code = WriteReq
      /\ Len(Rest) <= Len(Call)
      /\ Len(buf) + Len(Rest) = irp.len /\ Len(buf) > 0
      /\ kind = "devio" => Rest = <<>>
      /\ \A i \in 1 .. Len(buf) : buf[i] = irp.word
  BY <1>1 DEF Waiting, Block, ReadReq, WriteReq
<1>4. /\ irp.off \in Nat /\ irp.len \in Nat /\ length_done = 0 /\ irp.off + irp.len <= Size
      /\ Len(Call) = 3 + irp.len
  BY <1>3, CallFacts DEF WriteReq, InfoReq
<1>5. Len(buf) \in Nat /\ Len(Rest) \in Nat /\ (Rest = <<>> <=> Len(Rest) = 0)
  BY RestIs, LenProperties DEF Types
<1>6. req_block[2] = irp.off
  BY <1>3, <1>4 DEF Block
<1>7. PICK n \in 0 .. Len(buf) :
         /\ image' = [p \in Cell |->
                IF p \in irp.off .. irp.off + n - 1 THEN buf[p - irp.off + 1] ELSE image[p]]
         /\ buf' = <<0, n>> \/ (n < Len(buf) /\ buf' = <<EIO, 0>>)
  BY <1>6 DEF ServerWrite
<1>8. PICK l : l = Len(buf)
  OBVIOUS
<1>9. n \in Nat /\ n <= l /\ l \in Nat /\ l <= irp.len /\ (l = irp.len => Rest = <<>>)
      /\ (l # irp.len => Len(Rest) > 0 /\ kind = "net") /\ Len(Rest) < Len(Call)
  <2>1. PICK r : r = Len(Rest)
    OBVIOUS
  <2>2. l + r = irp.len /\ l \in Nat /\ r \in Nat /\ l > 0 /\ irp.len \in Nat
    BY <1>3, <1>4, <1>5, <1>8, <2>1
  <2>3. (l = irp.len => r = 0) /\ (l # irp.len => r > 0) /\ r < 3 + irp.len /\ l <= irp.len
    BY <2>2
  <2>4. kind = "devio" => r = 0
    BY <1>3, <1>5, <2>1
  <2>5. l # irp.len => kind = "net"
    BY <2>3, <2>4 DEF Types
  <2> QED  BY <1>4, <1>5, <1>7, <1>8, <2>1, <2>2, <2>3, <2>5
<1>10. ASSUME NEW p \in Cell, p \notin Asked PROVE image'[p] = image[p]
  <2>1. p \notin irp.off .. irp.off + n - 1
    BY <1>4, <1>9, <1>10 DEF Asked
  <2> QED  BY <1>7, <2>1
<1>11. n = irp.len => \A p \in Asked : image'[p] = irp.word
  <2> SUFFICES ASSUME n = irp.len, NEW p \in Asked PROVE image'[p] = irp.word
    OBVIOUS
  <2>1. p \in irp.off .. irp.off + n - 1 /\ p \in Cell /\ p - irp.off + 1 \in 1 .. l
    BY <1>4, <1>9, SizeAssumption, SMTT(30) DEF Asked, Cell
  <2> QED  BY <1>3, <1>7, <1>8, <2>1
<1>12. Len(buf') = 2 /\ (buf'[1] = 0 /\ buf'[2] = irp.len => n = irp.len)
  BY <1>7 DEF EIO
<1>13. Answers(buf)'
  BY <1>1, <1>2, <1>3, <1>11, <1>12 DEF Answers, InfoReq, ReadReq, WriteReq
<1>14. l # irp.len => Short(buf)'
  <2> SUFFICES ASSUME l # irp.len PROVE Short(buf)'
    OBVIOUS
  <2>1. n # irp.len
    BY <1>4, <1>9
  <2> QED  BY <1>1, <1>3, <1>9, <1>12, <2>1 DEF Short
<1>15. Rest' = <<>> \/ (Short(buf)' /\ Len(Rest') < Len(Call'))
  BY <1>2, <1>9, <1>14
<1> QED  BY <1>1, <1>2, <1>3, <1>10, <1>12, <1>13, <1>15 DEF Waiting

\* It answers.
LEMMA AnswerGiven ==
    ASSUME IInv, Calling, Waiting, ServerAnswer
    PROVE  Waiting' \/ Answered' \/ Spoiled'
<1> USE DEF IInv
<1>1. UNCHANGED <<irp, length_done, kind, in, out, up, image, unread>> /\ server = "answer"
  BY DEF ServerAnswer
<1>2. Call' = Call /\ Rest' = Rest /\ ToDo' = ToDo /\ Asked' = Asked
  BY <1>1 DEF Call, CallWords, Rest, ToDo, Asked
<1>3. /\ in = <<>> /\ down = <<>> /\ Answers(buf) /\ Len(buf) >= 2 /\ Len(Rest) <= Len(Call)
      /\ Rest = <<>> \/ (Short(buf) /\ Len(Rest) < Len(Call))
  BY <1>1 DEF Waiting
<1>4. CASE link = "open"
  <2>1. server' = "code" /\ down' = down \o buf
    BY <1>4 DEF ServerAnswer
  <2>2. Got' = buf
    BY <1>1, <1>3, <2>1, ConcatEmptySeq DEF Got, Types
  <2>3. Answers(Got)'
    BY <1>1, <1>2, <1>3, <2>2 DEF Answers, Told
  <2>4. Short(buf) => Short(Got)'
    BY <1>1, <1>2, <2>2 DEF Short
  <2> QED  BY <1>2, <1>3, <2>1, <2>2, <2>3, <2>4 DEF Answered, Spoiled
<1>5. CASE link # "open"
  <2>1. server' = "exited" /\ down' = down
    BY <1>5 DEF ServerAnswer
  <2> QED  BY <1>1, <1>2, <1>3, <2>1 DEF Waiting
<1> QED  BY <1>4, <1>5
LEMMA OthersCall ==
    ASSUME IInv, ByOthers
    PROVE  CallInv'
<1> USE DEF IInv
<1> SUFFICES ASSUME Calling PROVE Waiting' \/ Answered' \/ Spoiled'
  BY OthersKeep DEF CallInv, Calling
<1>1. UNCHANGED <<irp, length_done, kind, in, out>>
  BY OthersKeep
<1>2. Call' = Call /\ ToDo' = ToDo /\ Asked' = Asked
  BY <1>1 DEF Call, CallWords, ToDo, Asked
<1>3. CASE Spoiled
  BY <1>3, SpoiledStays
<1>4. CASE Answered
  <2>1. UNCHANGED <<up, down, image, unread>> /\ server' \in {"code", "exited"}
    BY <1>4, OthersQuiet DEF Answered
  <2>2. Got' = Got /\ Rest' = Rest
    BY <1>1, <2>1 DEF Got, Rest
  <2> QED  BY <1>1, <1>2, <1>4, <2>1, <2>2 DEF Answered, Answers, Told
<1>5. CASE Waiting
  <2>1. CASE ServerCode \/ ServerRest \/ ServerPayload \/ ServerRead \/ ServerWrite \/ ServerAnswer
    BY <1>5, <2>1, CodeTaken, RestTaken, PayloadTaken, ReadDone, WriteDone, AnswerGiven
  <2>2. CASE ~(ServerCode \/ ServerRest \/ ServerPayload \/ ServerRead \/ ServerWrite \/ ServerAnswer)
    <3>1. server # "listen"
      BY <1>5 DEF Waiting
    <3>2. UNCHANGED <<up, down, image, unread, req_block, buf>> /\ server' \in {server, "exited"}
      BY <2>2, <3>1 DEF ByOthers, ServiceStep, Connect, ReferenceHandle, SendAnswer, CleanUp,
                        ServiceStops, ServerKilled, ServerStep, EndOfStream, ServerCloses
    <3>3. Rest' = Rest /\ Got' = Got
      BY <1>1, <3>2 DEF Rest, Got
    <3>4. CASE server' = server
      BY <1>1, <1>5, <3>2, <3>3, <3>4, CallKept DEF CallVars
    <3>5. CASE server' = "exited"
      BY <1>1, <1>2, <1>5, <3>2, <3>3, <3>5 DEF Waiting
    <3> QED  BY <3>2, <3>4, <3>5
  <2> QED  BY <2>1, <2>2
<1> QED  BY <1>3, <1>4, <1>5 DEF CallInv

LEMMA CallNext == IInv /\ [Next]_vars => CallInv' /\ QuietInv'
<1> SUFFICES ASSUME IInv, [Next]_vars PROVE CallInv' /\ QuietInv'
  OBVIOUS
<1>1. CASE DriverStep \/ (\E r \in Irp : TakeIrp(r)) \/ OutOfMemory \/ RemoveVirtualDisk
  BY <1>1, DriverCall
<1>2. CASE ByOthers
  BY <1>2, OthersCall, OthersQuiet
<1>3. CASE UNCHANGED vars
  <2>1. UNCHANGED CallVars /\ Rest' = Rest /\ Got' = Got /\ in' = in /\ down' = down
    BY <1>3 DEF vars, CallVars, Rest, Got
  <2>2. UNCHANGED <<worker, up, down, server, terminate_thread>>
    BY <1>3 DEF vars
  <2> QED  BY <2>1, <2>2, CallKept DEF IInv, CallInv, QuietInv, Calling, Between, Early
<1> QED  BY <1>1, <1>2, <1>3 DEF Next, ByOthers

-----------------------------------------------------------------------------
(* The data of the request. *)

\* A step that writes nothing and keeps the request, and what it has so far, keeps its data.
LEMMA DataKept ==
    ASSUME DataInv, UNCHANGED <<irp, length_done, result, image, disk, unread>>,
           worker' = worker \/ (worker' # "done" /\ Busy), Calling /\ Calling' /\ Spoiled => Spoiled',
           worker' = worker \/ ~Calling \/ Calling'
    PROVE  DataInv'
  BY DEF DataInv, Busy, Calling, Asked, Told

LEMMA DataNext ==
    ASSUME IInv, [Next]_vars
    PROVE  DataInv'
<1> USE DEF IInv
<1>1. ASSUME irp' = NoIrp PROVE DataInv'
  BY <1>1 DEF DataInv, NoIrp, ReadReq, WriteReq
<1>2. ASSUME Fail PROVE DataInv'
  BY <1>1, <1>2 DEF Fail, EndCall
<1>3. CASE OpenPipe \/ SendConnect \/ ReadConnect \/ CloseProxy \/ TearDown
  <2>1. worker \in {"open", "connect", "answer", "idle", "close"} /\ irp' = irp
    BY <1>3 DEF OpenPipe, SendConnect, ReadConnect, CloseProxy, TearDown, Goto
  <2>2. irp = NoIrp
    BY <2>1 DEF DriverInv, Busy, Calling
  <2> QED  BY <1>1, <2>1, <2>2
<1>4. CASE Claim
  <2>1. irp' \in {irp, Query} /\ worker = "claim"
    BY <1>4 DEF Claim, GiveUp
  <2>2. irp'.code \notin {ReadReq, WriteReq}
    BY <2>1 DEF DriverInv, Busy, Calling, NoIrp, Query, ReadReq, WriteReq, InfoReq
  <2> QED  BY <2>2 DEF DataInv
<1>5. CASE Send
  <2>1. CASE ~Fail
    <3>1. worker = "send" /\ worker' \in {"send", "header"}
          /\ UNCHANGED <<irp, length_done, result, in, down, image, disk, unread>>
      BY <1>5, <2>1 DEF Send
    <3>2. Rest' = Rest
      BY <1>5, <2>1, SendIs DEF Send
    <3>3. UNCHANGED CallVars /\ Got' = Got
      BY <1>5, <3>1 DEF Send, CallVars, Got
    <3> QED  BY <3>1, <3>2, <3>3, CallKept, DataKept DEF Busy, Calling
  <2> QED  BY <1>2, <2>1
<1>6. CASE ReadHeader
  <2>1. CASE ReadWords(HeaderSize - Len(in), "data")
    <3>1. Types /\ HeaderSize - Len(in) \in Int
      BY IrpType, GotIs
    <3>2. /\ in' \o down' = Got /\ worker' \in {"data", worker}
          /\ UNCHANGED <<irp, length_done, out, result, unread>>
      BY <2>1, <3>1, ReadWordsIs
    <3>3. worker = "header" /\ UNCHANGED <<CallVars, image, disk, unread>> /\ Rest' = Rest /\ Got' = Got
      BY <1>6, <3>2 DEF ReadHeader, CallVars, Rest, Got
    <3> QED  BY <3>2, <3>3, AnswerKept, DataKept DEF Busy, Calling
  <2> QED  BY <1>2, <1>6, <2>1 DEF ReadHeader
<1>7. CASE ReadData
  <2>1. CASE ReadWords(2 + DataSize - Len(in), "check")
    <3>1. Types /\ 2 + DataSize - Len(in) \in Int
      BY <1>7, DataSizeType DEF ReadData
    <3>2. /\ in' \o down' = Got /\ worker' \in {"check", worker}
          /\ UNCHANGED <<irp, length_done, out, result, unread>>
      BY <2>1, <3>1, ReadWordsIs
    <3>3. worker = "data" /\ UNCHANGED <<CallVars, image, disk, unread>> /\ Rest' = Rest /\ Got' = Got
      BY <1>7, <3>2 DEF ReadData, CallVars, Rest, Got
    <3> QED  BY <3>2, <3>3, AnswerKept, DataKept DEF Busy, Calling
  <2>2. CASE worker' = "check" /\ UNCHANGED <<terminate_thread, irp, out, in, down, length_done, result,
                                               unread>>
    <3>1. worker = "data" /\ UNCHANGED <<CallVars, image, disk, unread>> /\ Rest' = Rest /\ Got' = Got
      BY <1>7, <2>2 DEF ReadData, CallVars, Rest, Got
    <3> QED  BY <2>2, <3>1, AnswerKept, DataKept DEF Busy, Calling
  <2> QED  BY <1>2, <1>7, <2>1, <2>2 DEF ReadData
<1>8. CASE CheckAnswer
  <2>1. CASE ~Fail
    <3>1. worker = "check" /\ ~Refused /\ UNCHANGED <<image, disk, unread>>
      BY <1>8, <2>1 DEF CheckAnswer, Continue
    <3>2. irp' = irp
      BY <1>8, <2>1 DEF CheckAnswer, Continue
    <3>3. CASE irp.code = ReadReq
      <4>1. PICK n, d, l : n = in[2] /\ d = SubSeq(in, 3, Len(in)) /\ l = Len(in)
        OBVIOUS
      <4>2. /\ n \in Nat /\ n <= ToDo /\ l = 2 + n /\ in \in Seq(Nat)
            /\ \A i \in 1 .. n : in[2 + i] = Told(irp.off + length_done + i - 1)
        BY <3>1, <3>3, <4>1, AcceptedIsWhole DEF Types
      <4>3. /\ Len(result) = length_done /\ length_done \in Nat /\ irp.len \in Nat /\ irp.off \in Nat
            /\ \A i \in 1 .. length_done : result[i] = Told(irp.off + i - 1)
            /\ result \in Seq(Nat)
        BY <3>1, <3>3, IrpType DEF DataInv, Busy, Calling, Types
      <4>4. length_done' = length_done + n /\ result' = result \o d
        BY <1>8, <2>1, <3>3, <4>1 DEF CheckAnswer, Continue
      <4>5. d \in Seq(Nat) /\ Len(d) = n /\ \A i \in 1 .. n : d[i] = in[2 + i]
        <5> HIDE DEF IInv
        <5>1. PICK k : k = 2
          OBVIOUS
        <5>2. d \in Seq(Nat) /\ Len(d) = Len(in) - 2 /\ \A i \in 1 .. Len(in) - 2 : d[i] = in[2 + i]
          <6>1. k \in 0 .. Len(in) /\ d = SubSeq(in, k + 1, Len(in))
            BY <4>1, <4>2, <5>1
          <6>2. d \in Seq(Nat) /\ Len(d) = Len(in) - k /\ \A i \in 1 .. Len(in) - k : d[i] = in[k + i]
            BY <4>2, <6>1, HeadAndTail
          <6> QED  BY <5>1, <6>2
        <5>3. Len(in) - 2 = n
          BY <4>1, <4>2
        <5> QED  BY <5>2, <5>3
      <4>6. /\ Len(result') = length_done + n
            /\ \A i \in 1 .. length_done + n :
                  result'[i] = IF i <= length_done THEN result[i] ELSE d[i - length_done]
        BY <4>3, <4>4, <4>5, ConcatProperties
      <4>7. ASSUME NEW i \in 1 .. length_done + n PROVE result'[i] = Told(irp.off + i - 1)
        <5> HIDE DEF IInv
        <5>1. CASE i <= length_done
          BY <4>3, <4>6, <4>7, <5>1
        <5>2. CASE ~(i <= length_done)
          <6>1. PICK j : j = i - length_done
            OBVIOUS
          <6>2. j \in 1 .. n /\ irp.off + length_done + j - 1 = irp.off + i - 1
            BY <4>2, <4>3, <4>7, <5>2, <6>1
          <6>3. result'[i] = d[j]
            BY <4>6, <4>7, <5>2, <6>1
          <6>4. d[j] = Told(irp.off + length_done + j - 1)
            BY <4>2, <4>5, <6>2
          <6> QED  BY <6>2, <6>3, <6>4
        <5> QED  BY <5>1, <5>2
      <4>8. length_done' <= irp.len
        <5> HIDE DEF IInv
        <5>1. n <= irp.len - length_done
          BY <4>2 DEF ToDo
        <5> QED  BY <4>2, <4>3, <4>4, <5>1
      <4> HIDE DEF IInv
      <4>9. ASSUME NEW i \in 1 .. length_done + n PROVE Told(irp.off + i - 1)' = Told(irp.off + i - 1)
        BY <3>1, <3>2 DEF Told
      <4> QED  BY <3>1, <3>2, <3>3, <4>4, <4>6, <4>7, <4>8, <4>9 DEF DataInv, ReadReq, WriteReq
    <3>4. CASE irp.code = WriteReq
      <4>1. ~Spoiled /\ \A p \in Asked : image[p] = irp.word
        BY <3>1, <3>4, AcceptedIsWhole
      <4>2. \A p \in Cell : p \notin Asked => image[p] = disk[p]
        BY <3>4, <4>1 DEF DataInv
      <4>3. Asked' = Asked
        BY <3>2 DEF Asked
      <4> HIDE DEF IInv
      <4> QED  BY <3>1, <3>2, <3>4, <4>1, <4>2, <4>3 DEF DataInv, ReadReq, WriteReq
    <3>5. CASE irp.code \notin {ReadReq, WriteReq}
      BY <3>2, <3>5 DEF DataInv
    <3> QED  BY <3>3, <3>4, <3>5
  <2> QED  BY <1>2, <2>1
<1>9. CASE CompleteIrp
  BY <1>1, <1>9 DEF CompleteIrp
<1>10. ASSUME NEW r \in Irp, TakeIrp(r) PROVE DataInv'
  <2>1. irp' = r /\ worker' = "send" /\ UNCHANGED <<length_done, result, image>> /\ disk' = image
        /\ worker = "idle"
    BY <1>10 DEF TakeIrp, Goto
  <2>2. length_done = 0 /\ Len(result) = 0
    BY <2>1 DEF DriverInv, Busy, Calling
  <2>3. r.len \in Nat
    BY IrpIs
  <2> QED  BY <2>1, <2>2, <2>3 DEF DataInv
<1>11. CASE OutOfMemory
  BY <1>2, <1>11 DEF OutOfMemory
<1>12. CASE RemoveVirtualDisk
  <2>1. UNCHANGED CallVars /\ Rest' = Rest /\ Got' = Got
    BY <1>12 DEF RemoveVirtualDisk, CallVars, Rest, Got
  <2>2. UNCHANGED <<driver, image, disk, unread>>
    BY <1>12 DEF RemoveVirtualDisk
  <2> QED  BY <2>1, <2>2, AnswerKept, DataKept
<1>13. CASE ByOthers
  <2>1. UNCHANGED <<driver, disk>>
    BY <1>13, OthersKeep
  <2>2. Calling /\ Spoiled => Spoiled'
    BY <1>13, SpoiledStays
  <2>3. CASE UNCHANGED <<image, unread>>
    BY <2>1, <2>2, <2>3, DataKept
  <2>5. CASE ServerRead
    <3>1. image' = image /\ server = "transfer" /\ req_block[1] = ReadReq
      BY <2>5 DEF ServerRead, At
    <3>2. CASE ~Calling
      <4>1. server \notin {"code", "exited", "listen"}
        BY <3>1
      <4>2. irp = NoIrp
        BY <3>2, <4>1 DEF DriverInv, QuietInv, Busy, Between
      <4> QED  BY <1>1, <2>1, <4>2
    <3>3. CASE Calling /\ Spoiled
      <4>1. irp.code = WriteReq /\ Calling' /\ Spoiled' /\ irp' = irp /\ worker' # "done"
        BY <2>1, <2>2, <3>3 DEF Spoiled, Short, Calling
      <4> QED  BY <4>1 DEF DataInv, ReadReq, WriteReq
    <3>4. CASE Calling /\ ~Spoiled
      <4>1. Waiting
        BY <3>1, <3>4 DEF CallInv, Answered
      <4>2. irp.code = ReadReq /\ \A p \in Nat : p < irp.off + length_done => (p \in unread' <=> p \in unread)
        BY <2>5, <3>4, <4>1, ReadDone
      <4>3. length_done \in Nat /\ irp.off \in Nat
        BY <3>4, CallFacts
      <4>4. ASSUME NEW i \in 1 .. length_done PROVE Told(irp.off + i - 1)' = Told(irp.off + i - 1)
        <5>1. PICK p : p = irp.off + i - 1
          OBVIOUS
        <5>2. p \in Nat /\ p < irp.off + length_done
          BY <4>3, <5>1
        <5> QED  BY <2>1, <3>1, <4>2, <5>1, <5>2 DEF Told
      <4> QED  BY <2>1, <3>1, <3>4, <4>2, <4>4 DEF DataInv, Busy, Calling, ReadReq, WriteReq
    <3> QED  BY <3>2, <3>3, <3>4
  <2>4. CASE ~UNCHANGED <<image, unread>> /\ ~ServerRead
    <3>1. ServerWrite
      BY <1>13, <2>4 DEF ByOthers, ServiceStep, Connect, ReferenceHandle, SendAnswer, CleanUp,
         ServiceStops, ServerKilled, ServerStep, EndOfStream, ServerCode, ServerRest, ServerPayload,
         ServerAnswer, ServerCloses
    <3>2. ~Between /\ ~Answered
      BY <1>13, <2>4, OthersQuiet
    <3>3. CASE ~Calling
      <4>1. irp = NoIrp
        BY <3>2, <3>3 DEF DriverInv, Busy, Between
      <4> QED  BY <1>1, <2>1, <4>1
    <3>4. CASE Calling /\ Spoiled
      <4>1. irp.code = WriteReq /\ Calling' /\ Spoiled' /\ irp' = irp /\ worker' # "done"
        BY <2>1, <2>2, <3>4 DEF Spoiled, Short, Calling
      <4> QED  BY <4>1 DEF DataInv, ReadReq, WriteReq
    <3>5. CASE Calling /\ ~Spoiled
      <4>1. Waiting
        BY <3>2, <3>5 DEF CallInv
      <4>2. irp.code = WriteReq /\ \A p \in Cell : p \notin Asked => image'[p] = image[p]
        BY <3>1, <3>5, <4>1, WriteDone
      <4>3. \A p \in Cell : p \notin Asked => image[p] = disk[p]
        BY <3>5, <4>2 DEF DataInv
      <4>4. Asked' = Asked /\ irp' = irp /\ worker' # "done" /\ disk' = disk
        BY <2>1, <3>5 DEF Asked, Calling
      <4> QED  BY <4>2, <4>3, <4>4 DEF DataInv, ReadReq, WriteReq
    <3> QED  BY <3>3, <3>4, <3>5
  <2> QED  BY <2>3, <2>4, <2>5
<1>14. CASE UNCHANGED vars
  <2>1. UNCHANGED CallVars /\ Rest' = Rest /\ Got' = Got
    BY <1>14 DEF vars, CallVars, Rest, Got
  <2>2. UNCHANGED <<driver, image, disk, unread>>
    BY <1>14 DEF vars
  <2> QED  BY <2>1, <2>2, AnswerKept, DataKept
<1> QED  BY <1>3, <1>4, <1>5, <1>6, <1>7, <1>8, <1>9, <1>10, <1>11, <1>12, <1>13, <1>14
         DEF Next, DriverStep, ByOthers
-----------------------------------------------------------------------------
(* The theorems. *)

\* The inductive invariant: wherever driver, service and server are, and whatever ended
\* early, the stream holds the rest of one call and the beginning of its one answer.
THEOREM Inductive == Spec => []IInv
<1>1. IInv /\ [Next]_vars => IInv'
  BY TypesNext, DriverNext, ServerNext, CallNext, DataNext DEF IInv
<1> QED  BY <1>1, InitInv, PTL DEF Spec

\* Once the server has something of a call, less than the call is on its way.
LEMMA Begun ==
    ASSUME IInv, Calling, Len(Rest) >= Len(Call)
    PROVE  in = <<>> /\ down = <<>> /\ Len(Rest) = Len(Call) /\ server \in {"code", "exited"}
<1> USE DEF IInv
<1>1. /\ Call \in Seq(Nat) /\ Len(Call) \in Nat /\ Len(Call) >= 1 /\ irp.len \in Nat
      /\ irp.code # InfoReq => Len(Call) >= 3
      /\ irp.code = WriteReq => Len(Call) = 3 + irp.len
      /\ irp.code \in {InfoReq, ReadReq, WriteReq}
  BY CallFacts, LenProperties
<1>2. Rest \in Seq(Nat) /\ Len(Rest) \in Nat /\ Rest # <<>>
  BY <1>1, RestIs, LenProperties
<1>3. Waiting
  BY <1>1, <1>2 DEF CallInv, Answered, Spoiled
<1>4. server # "rest"
  <2> SUFFICES ASSUME server = "rest" PROVE FALSE
    OBVIOUS
  <2>1. Rest = SubSeq(Call, 2, Len(Call))
    BY <1>3 DEF Waiting
  <2>2. PICK k : k = 1
    OBVIOUS
  <2>3. Rest = SubSeq(Call, k + 1, Len(Call)) /\ k \in 0 .. Len(Call)
    BY <1>1, <2>1, <2>2
  <2>4. Len(Rest) = Len(Call) - k
    BY <1>1, <2>3, HeadAndTail
  <2> QED  BY <1>1, <1>2, <2>2, <2>4
<1>5. server # "payload"
  <2> SUFFICES ASSUME server = "payload" PROVE FALSE
    OBVIOUS
  <2>1. Rest = SubSeq(Call, 4, Len(Call)) /\ irp.code = WriteReq
    BY <1>3 DEF Waiting
  <2>2. PICK k : k = 3
    OBVIOUS
  <2>3. Rest = SubSeq(Call, k + 1, Len(Call)) /\ k \in 0 .. Len(Call)
    BY <1>1, <2>1, <2>2
  <2>4. Len(Rest) = Len(Call) - k
    BY <1>1, <2>3, HeadAndTail
  <2> QED  BY <1>1, <1>2, <2>2, <2>4
<1>6. server # "transfer"
  <2> SUFFICES ASSUME server = "transfer" PROVE FALSE
    OBVIOUS
  <2>1. irp.code = WriteReq /\ Len(buf) + Len(Rest) = irp.len /\ Len(buf) > 0
    BY <1>1, <1>2, <1>3 DEF Waiting
  <2>2. Len(buf) \in Nat
    BY LenProperties DEF Types
  <2> QED  BY <1>1, <1>2, <2>1, <2>2
<1>7. server # "answer"
  BY <1>1, <1>2, <1>3 DEF Waiting
<1> QED  BY <1>1, <1>2, <1>3, <1>4, <1>5, <1>6, <1>7 DEF Waiting, Types

\* For every size of image, buffer and payload: a call always begins on an empty stream, to
\* a server that waits for a request code.
THEOREM KeepsStep == Spec => []InStep
<1>1. IInv => InStep
  <2> SUFFICES ASSUME IInv, ~terminate_thread,
                      worker = "idle" \/ (worker = "send" /\ out = CallWords(irp, length_done))
               PROVE  up = <<>> /\ down = <<>> /\ server \in {"code", "exited"}
    BY DEF InStep
  <2>1. CASE worker = "idle"
    BY <2>1 DEF IInv, QuietInv, Between, Early
  <2>2. CASE worker = "send" /\ out = CallWords(irp, length_done)
    <3>1. Calling
      BY <2>2 DEF Calling
    <3>2. Len(Rest) = Len(up) + Len(out) /\ Len(up) \in Nat /\ Len(out) \in Nat
          /\ (up = <<>> <=> Len(up) = 0)
      BY RestIs DEF IInv
    <3>3. CASE irp.code = InfoReq
      <4>1. Len(Call) = 1
        BY <3>1, <3>3, CallFacts DEF IInv
      <4>2. Len(out) = 3
        <5>1. PICK h : h = <<irp.code, irp.off + length_done, irp.len - length_done>>
          OBVIOUS
        <5>2. out = h \o <<>> /\ irp.code \in Nat /\ irp.off \in Nat /\ irp.len \in Nat
              /\ length_done = 0
          BY <2>2, <3>1, <3>3, <5>1, IrpType
             DEF CallWords, InfoReq, WriteReq, ReadReq, IInv, DriverInv
        <5>3. h \in Seq(Nat) /\ Len(h) = 3
          BY <5>1, <5>2
        <5> QED  BY <5>2, <5>3, ConcatEmptySeq
      <4> QED  BY <3>1, <3>2, <4>1, <4>2, Begun
    <3>4. CASE irp.code # InfoReq
      <4>1. out = Call
        BY <2>2, <3>4 DEF Call
      <4> QED  BY <3>1, <3>2, <4>1, Begun
    <3> QED  BY <3>3, <3>4
  <2> QED  BY <2>1, <2>2
<1> QED  BY <1>1, Inductive, PTL

\* For every size of image, buffer and payload: a request that succeeds has moved exactly
\* what it was to move, but zeros for exactly the cells whose reading devio's read_data cut
\* short and answered as read, and with devio one under way has changed no other cells.
THEOREM MovesWhole == Spec => []TransfersWhole
<1>1. IInv => TransfersWhole
  <2> SUFFICES ASSUME IInv PROVE TransfersWhole
    OBVIOUS
  <2>1. ASSUME worker = "done", irp.code = ReadReq
        PROVE  result = [i \in 1 .. Len(result) |-> Told(irp.off + i - 1)]
    <3>1. /\ Len(result) = length_done
          /\ \A i \in 1 .. length_done : result[i] = Told(irp.off + i - 1)
      BY <2>1 DEF IInv, DataInv, Busy
    <3>2. result \in Seq(Nat)
      BY DEF IInv, Types
    <3>3. result = [i \in 1 .. Len(result) |-> result[i]]
      BY <3>2
    <3> QED  BY <3>1, <3>3
  <2>2. ASSUME irp.code = WriteReq, NEW p \in Cell
        PROVE  IF p \in irp.off .. irp.off + irp.len - 1
               THEN worker = "done" => image[p] = irp.word
               ELSE worker = "done" \/ kind = "devio" => image[p] = disk[p]
    <3>1. worker = "done" \/ kind = "devio" => ~(Calling /\ Spoiled)
      BY DEF Calling, Spoiled, Short
    <3> QED  BY <2>2, <3>1 DEF IInv, DataInv, Asked
  <2> QED  BY <2>1, <2>2 DEF TransfersWhole
<1> QED  BY <1>1, Inductive, PTL
=============================================================================
