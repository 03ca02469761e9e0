-------------------------- MODULE DiskImage_proofs --------------------------
(***************************************************************************)
(* Proofs about DiskImage, for every width of a size, every least size and *)
(* every set of creation requests: nothing is kept behind a failed         *)
(* creation or a removed disk, requests and disk stay within what stands   *)
(* behind them, and a disk that takes writes was opened for writing.       *)
(***************************************************************************)
EXTENDS DiskImage, TLAPS

-----------------------------------------------------------------------------
(* The inductive invariant. *)

Unopened == {"check", "open", "allocate"}
Opened   == {"length", "map", "connect", "size"}
Measured == {"geometry", "least", "reference", "create", "link", "publish", "preload", "running"}

\* What each failure exit and the teardown can rely on to be there, and not to be there.
KeepInv ==
    /\ pc \in Unopened => held = {} /\ buffer = 0
    /\ pc \in Opened => held \subseteq {"handle", "name", "proxy"} /\ buffer = 0
    /\ pc \in {"geometry", "least", "reference"} =>
          held \subseteq {"handle", "name", "proxy", "buffer"}
    /\ pc \in {"length", "map"} => "proxy" \notin held
    /\ pc = "connect" => d.kind \in Proxies
    /\ "proxy" \in held => d.kind \in Proxies
    /\ d.kind = "vm" => "object" \notin held /\ (pc = "running" => "handle" \notin held)
    /\ d.kind # "vm" => "buffer" \notin held /\ buffer = 0
    /\ pc = "torn" => held \subseteq {"device", "link"} /\ buffer = 0
    /\ NothingKept

\* From where its size is known on, a disk is within its memory or image.
SizeInv ==
    /\ pc \in {"check", "open", "length"} => d.size >= 0
    /\ pc = "allocate" => d.kind = "vm" /\ d.size > 0
    /\ pc \notin {"preload", "running"} => queue = <<>>
    /\ \A i \in DOMAIN queue : queue[i].op \in {"read", "write"} => queue[i].end <= d.size
    /\ pc \in Measured /\ d.kind = "vm" => buffer = d.size
    /\ d.kind \in Files /\ d.offset = 0 /\ access = "write" =>
          /\ pc \in {"map", "size"} /\ d.size # 0 => image >= d.size
          /\ pc \in Measured => image >= d.size

AccessInv ==
    /\ pc \in Unopened => access = "none"
    /\ pc \in Opened \cup Measured /\ ~d.ro /\ d.kind # "vm" => access = "write"
    /\ pc = "length" => d.kind \in Files

IInv == TypeOK /\ KeepInv /\ SizeInv /\ AccessInv

-----------------------------------------------------------------------------
(* Creation data, sums of sizes and requests. *)

LEMMA DataFacts ==
    ASSUME NEW r \in Data
    PROVE  /\ r.kind \in Kinds /\ r.named \in BOOLEAN /\ r.size \in -(Max + 1) .. Max
           /\ r.offset \in 0 .. Max /\ r.ro \in BOOLEAN /\ r.cd \in BOOLEAN
           /\ r.size \in Int /\ r.offset \in Nat
  BY SizeAssumption DEF Data

\* What an assignment to one field of the data does.
LEMMA SizeSet ==
    ASSUME NEW r \in Data, NEW s \in -(Max + 1) .. Max
    PROVE  LET e == [r EXCEPT !.size = s]
           IN e \in Data /\ e.size = s /\ e.kind = r.kind /\ e.offset = r.offset
              /\ e.ro = r.ro /\ e.named = r.named
  BY DEF Data

LEMMA ProtectionSet ==
    ASSUME NEW r \in Data, NEW b \in BOOLEAN
    PROVE  LET e == [r EXCEPT !.ro = b]
           IN e \in Data /\ e.ro = b /\ e.kind = r.kind /\ e.offset = r.offset
              /\ e.size = r.size /\ e.named = r.named
  BY DEF Data

LEMMA SparseSet ==
    ASSUME NEW r \in Data, NEW b \in BOOLEAN
    PROVE  LET e == [r EXCEPT !.sparse = b]
           IN e \in Data /\ e.ro = r.ro /\ e.kind = r.kind /\ e.offset = r.offset
              /\ e.size = r.size /\ e.named = r.named
  BY DEF Data

LEMMA GeometrySet ==
    ASSUME NEW r \in Data
    PROVE  LET e == [r EXCEPT !.geometry = TRUE]
           IN e \in Data /\ e.ro = r.ro /\ e.kind = r.kind /\ e.offset = r.offset
              /\ e.size = r.size /\ e.named = r.named
  BY DEF Data

\* A positive sum of a size and what a disk grows by did not wrap round.
LEMMA WrapFacts ==
    ASSUME NEW a \in -(Max + 1) .. Max, NEW b \in 0 .. Max, Wrap(a + b) > 0
    PROVE  Wrap(a + b) = a + b /\ Wrap(a + b) \in 1 .. Max /\ Wrap(a + b) >= a
  BY SizeAssumption DEF Wrap

LEMMA QueueFacts ==
    ASSUME NEW q \in Seq(Control)
    PROVE  /\ DOMAIN q = 1 .. Len(q) /\ Len(q) \in Nat
           /\ \A c \in Control :
                 /\ Append(q, c) \in Seq(Control) /\ Len(Append(q, c)) = Len(q) + 1
                 /\ \A i \in DOMAIN Append(q, c) :
                       (i \in DOMAIN q /\ Append(q, c)[i] = q[i]) \/ Append(q, c)[i] = c
           /\ q # <<>> =>
                 /\ Tail(q) \in Seq(Control) /\ Len(Tail(q)) = Len(q) - 1
                 /\ Len(q) >= 1 /\ Head(q) = q[1] /\ Head(q) \in Control
                 /\ \A i \in DOMAIN Tail(q) : i + 1 \in DOMAIN q /\ Tail(q)[i] = q[i + 1]
  OBVIOUS

LEMMA EmptyQueue ==
    /\ <<>> \in Seq(Control) /\ Len(<<>>) = 0 /\ DOMAIN <<>> = {}
  OBVIOUS

LEMMA ControlFacts ==
    /\ \A c \in Control : c.op = "grow" => c.by \in 0 .. Max
    /\ \A c \in Control : c.op \in {"read", "write"} => c.end \in 1 .. Max
    /\ \A by \in 0 .. Max : [op |-> "grow", by |-> by] \in Control
    /\ \A op \in {"read", "write"}, end \in 1 .. Max : [op |-> op, end |-> end] \in Control
    /\ \A op \in {"flush", "verify", "pass"} : [op |-> op] \in Control
<1>1. ASSUME NEW c \in Control
      PROVE  /\ c.op = "grow" => c.by \in 0 .. Max
             /\ c.op \in {"read", "write"} => c.end \in 1 .. Max
  <2>1. CASE c \in [op : {"grow"}, by : 0 .. Max]
    BY <2>1
  <2>2. CASE c \in [op : {"read", "write"}, end : 1 .. Max]
    BY <2>2
  <2>3. CASE c \in [op : {"flush", "verify", "pass"}]
    BY <2>3
  <2> QED
    BY <2>1, <2>2, <2>3 DEF Control
<1>2. /\ \A by \in 0 .. Max : [op |-> "grow", by |-> by] \in Control
      /\ \A op \in {"read", "write"}, end \in 1 .. Max : [op |-> op, end |-> end] \in Control
      /\ \A op \in {"flush", "verify", "pass"} : [op |-> op] \in Control
  BY DEF Control
<1> QED
  BY <1>1, <1>2

-----------------------------------------------------------------------------
(* The steps, by what they share. *)

\* A request is put into the queue: one that writes or reads lies within the disk.
Queues == \E c \in Control :
    /\ c.op \in {"read", "write"} => c.end <= d.size
    /\ Len(queue) < MaxQueue /\ queue' = Append(queue, c)
    /\ Serving
    /\ UNCHANGED <<pc, d, image, access, held, buffer, terminate, special>>

\* The worker takes a request that moves nothing but the file object.
ServesObject ==
    /\ \E op \in {"read", "verify", "flush", "pass"} : Take(op)
    /\ MayBeLost /\ (held' = held \/ ReferenceLate)
    /\ UNCHANGED <<d, image, buffer>> /\ Same

LEMMA StepCases ==
    ASSUME TypeOK, Next
    PROVE  \/ CheckParameters \/ OpenImage \/ SetLength \/ ReferenceProxy \/ ConnectProxy
           \/ ImageSize \/ ProxySize \/ ReadGeometry \/ CheckLeast \/ AllocateBlank
           \/ ReferenceObject \/ IoCreateDevice \/ CreateSymlink \/ InitExtension \/ PreloadImage
           \/ Queues \/ (\E on \in BOOLEAN : SetReadOnly(on)) \/ SetSparse
           \/ (\E change \in {-1, 1} : UsageNotification(change)) \/ RemoveDevice
           \/ ServeGrow \/ ServeWrite \/ ServesObject \/ TearDown \/ DeleteDevice
<1>1. ASSUME NEW op \in {"read", "write"}, NEW end \in 1 .. Max, DispatchTransfer(op, end)
      PROVE  Queues
  <2> DEFINE c == [op |-> op, end |-> end]
  <2>1. c \in Control /\ c.end = end
    BY ControlFacts
  <2> QED
    BY <1>1, <2>1 DEF DispatchTransfer, QueueIrp, Queues
<1>2. ASSUME NEW by \in 0 .. Max, DispatchGrow(by) PROVE Queues
  <2>1. [op |-> "grow", by |-> by] \in Control /\ [op |-> "grow", by |-> by].op = "grow"
    BY ControlFacts
  <2> QED
    BY <1>2, <2>1 DEF DispatchGrow, QueueIrp, Queues
<1>3. ASSUME NEW op \in {"flush", "verify", "pass"}, Serving, QueueIrp([op |-> op]) PROVE Queues
  <2>1. [op |-> op] \in Control /\ [op |-> op].op = op
    BY ControlFacts
  <2> QED
    BY <1>3, <2>1 DEF QueueIrp, Queues
<1>4. DispatchFlush \/ DispatchVerify \/ DispatchPass => Queues
  BY <1>3 DEF DispatchFlush, DispatchVerify, DispatchPass
<1>5. ServeRead \/ ServeVerify \/ ServeFlush \/ ServePass => ServesObject
  BY DEF ServeRead, ServeVerify, ServeFlush, ServePass, ServesObject
<1>6. CASE Dispatch
  BY <1>1, <1>2, <1>4, <1>6 DEF Dispatch
<1> QED
  BY <1>5, <1>6 DEF Next, Create, Serve

\* What a request that is served leaves of the queue.
LEMMA TakeFacts ==
    ASSUME TypeOK, NEW op, Take(op)
    PROVE  /\ pc = "running" /\ Head(queue) \in Control /\ Head(queue).op = op
           /\ queue' \in Seq(Control) /\ Len(queue') <= MaxQueue
           /\ 1 \in DOMAIN queue /\ Head(queue) = queue[1]
           /\ \A i \in DOMAIN queue' : i + 1 \in DOMAIN queue /\ queue'[i] = queue[i + 1]
<1>1. queue \in Seq(Control) /\ queue # <<>> /\ Len(queue) <= MaxQueue /\ queue' = Tail(queue)
      /\ MaxQueue \in Nat
  BY BoundAssumption DEF TypeOK, Take
<1> QED
  BY <1>1, QueueFacts DEF Take

-----------------------------------------------------------------------------
(* Type correctness. *)

LEMMA InitType == Init => TypeOK
<1> SUFFICES ASSUME Init PROVE TypeOK
  OBVIOUS
<1>1. queue \in Seq(Control) /\ Len(queue) <= MaxQueue
  BY EmptyQueue, BoundAssumption DEF Init
<1>2. d \in Data /\ buffer \in 0 .. Max /\ special \in 0 .. MaxSpecial
  BY SizeAssumption, RequestAssumption, BoundAssumption DEF Init
<1> QED
  BY <1>1, <1>2 DEF Init, TypeOK, Held

LEMMA StepType == TypeOK /\ SizeInv /\ [Next]_vars => TypeOK'
<1> SUFFICES ASSUME TypeOK, SizeInv, [Next]_vars PROVE TypeOK'
  OBVIOUS
<1> USE DEF Unserved, Goto, Idle, Same, Absent
<1>1. CASE UNCHANGED vars
  BY <1>1 DEF vars, TypeOK
<1>2. ASSUME NEW freed, Fail(freed) PROVE TypeOK'
  BY <1>2, SizeAssumption DEF Fail, TypeOK
<1>3. CASE CheckParameters \/ ReferenceProxy \/ ConnectProxy \/ ReadGeometry \/ CheckLeast
           \/ IoCreateDevice \/ CreateSymlink \/ InitExtension
  BY <1>2, <1>3 DEF CheckParameters, ReferenceProxy, ConnectProxy, ReadGeometry, CheckLeast,
                    IoCreateDevice, CreateSymlink, InitExtension, TypeOK, Held
<1>4. CASE OpenImage
  <2> DEFINE r == [d EXCEPT !.ro = d.ro \/ d.cd]
  <2>1. CASE Fail({})
    BY <1>2, <2>1
  <2>2. CASE /\ d' = r /\ access' = WantedAccess(r)
             /\ image' = IF r.kind \in Proxies \/ image # Absent THEN image ELSE 0
             /\ held' = {"handle"} \cup IF d.named THEN {"name"} ELSE {}
             /\ Goto(IF r.kind \in Files /\ ~r.ro THEN "length" ELSE "map")
             /\ UNCHANGED buffer
    <3>1. r \in Data
      BY ProtectionSet, DataFacts DEF TypeOK
    <3>2. image' \in Absent .. Max
      BY <2>2, SizeAssumption DEF TypeOK
    <3> HIDE DEF r
    <3> QED
      BY <2>2, <3>1, <3>2 DEF WantedAccess, TypeOK, Held
  <2> QED
    BY <1>4, <2>1, <2>2 DEF OpenImage
<1>5. CASE SetLength
  <2>1. CASE Fail({"handle"})
    BY <1>2, <2>1
  <2>2. CASE /\ \E sparse \in BOOLEAN : d' = [d EXCEPT !.sparse = @ /\ sparse]
             /\ image' = IF d.size # 0 /\ d.offset = 0 THEN d.size ELSE image
             /\ Goto("map") /\ UNCHANGED <<access, held, buffer>>
    <3>1. d' \in Data
      BY <2>2, SparseSet DEF TypeOK, Data
    <3>2. image' \in Absent .. Max
      BY <1>5, <2>2, DataFacts DEF TypeOK, SizeInv, SetLength
    <3> QED
      BY <2>2, <3>1, <3>2 DEF TypeOK
  <2> QED
    BY <1>5, <2>1, <2>2 DEF SetLength
<1>6. CASE ImageSize \/ ProxySize
  <2>1. CASE \E freed : Fail(freed)
    BY <1>2, <2>1
  <2>2. CASE /\ ImageSize /\ d' = [d EXCEPT !.size = GivenSize(Behind)]
             /\ IF d.kind = "vm" THEN /\ GivenSize(Behind) > 0 /\ buffer' = GivenSize(Behind)
                                      /\ held' = held \cup {"buffer"}
                                 ELSE UNCHANGED <<buffer, held>>
             /\ Goto(IF d.geometry THEN "least" ELSE "geometry") /\ UNCHANGED <<image, access>>
    <3>1. GivenSize(Behind) \in -(Max + 1) .. Max
      BY DataFacts, SizeAssumption DEF GivenSize, Behind, TypeOK
    <3>2. d' \in Data
      BY <2>2, <3>1, SizeSet DEF TypeOK
    <3>3. buffer' \in 0 .. Max
      BY <2>2, <3>1, SizeAssumption DEF TypeOK
    <3> QED
      BY <2>2, <3>2, <3>3 DEF TypeOK, Held
  <2>3. CASE /\ ProxySize /\ GivenSize(image) > 0
             /\ \E ro \in BOOLEAN : d' = [d EXCEPT !.size = GivenSize(image), !.ro = @ \/ ro]
             /\ Goto(IF d.geometry THEN "least" ELSE "geometry")
             /\ UNCHANGED <<image, access, held, buffer>>
    <3>1. GivenSize(image) \in -(Max + 1) .. Max
      BY DataFacts, SizeAssumption DEF GivenSize, TypeOK
    <3>2. d' \in Data
      BY <2>3, <3>1 DEF TypeOK, Data
    <3> QED
      BY <2>3, <3>2 DEF TypeOK
  <2> QED
    BY <1>6, <2>1, <2>2, <2>3 DEF ImageSize, ProxySize
<1>7. CASE AllocateBlank
  <2>1. ASSUME buffer' = d.size PROVE buffer' \in 0 .. Max
    BY <1>7, <2>1, DataFacts DEF TypeOK, SizeInv, AllocateBlank
  <2> QED
    BY <1>2, <1>7, <2>1 DEF AllocateBlank, TypeOK, Held
<1>8. CASE ReferenceObject
  <2>1. FillGeometry(d) \in Data
    BY GeometrySet DEF FillGeometry, TypeOK
  <2> QED
    BY <1>2, <1>8, <2>1 DEF ReferenceObject, TypeOK, Held
<1>9. CASE PreloadImage \/ TearDown \/ DeleteDevice \/ RemoveDevice
  <2>1. CASE PreloadImage
    <3>1. held' \subseteq Held /\ terminate' \in BOOLEAN
      BY <2>1 DEF PreloadImage, TypeOK
    <3> QED
      BY <2>1, <3>1 DEF PreloadImage, TypeOK
  <2>2. CASE TearDown
    <3>1. held' \subseteq Held /\ buffer' \in 0 .. Max
      BY <2>2, SizeAssumption DEF TearDown, TypeOK
    <3> QED
      BY <2>2, <3>1 DEF TearDown, TypeOK
  <2>3. CASE DeleteDevice \/ RemoveDevice
    BY <2>3 DEF DeleteDevice, RemoveDevice, TypeOK
  <2> QED
    BY <1>9, <2>1, <2>2, <2>3
<1>10. CASE Queues
  <2>1. queue' \in Seq(Control) /\ Len(queue') <= MaxQueue
    BY <1>10, QueueFacts, BoundAssumption DEF Queues, TypeOK
  <2> QED
    BY <1>10, <2>1 DEF Queues, TypeOK
<1>11. CASE (\E on \in BOOLEAN : SetReadOnly(on)) \/ SetSparse
  <2>1. d' \in Data
    BY <1>11, ProtectionSet, SparseSet, ZenonT(60) DEF SetReadOnly, SetSparse, TypeOK
  <2> QED
    BY <1>11, <2>1 DEF SetReadOnly, SetSparse, TypeOK
<1>12. ASSUME NEW change \in {-1, 1}, UsageNotification(change) PROVE TypeOK'
  BY <1>12 DEF UsageNotification, TypeOK
<1>13. CASE ServeGrow
  <2>1. queue' \in Seq(Control) /\ Len(queue') <= MaxQueue /\ Head(queue).by \in 0 .. Max
    BY <1>13, TakeFacts, ControlFacts DEF ServeGrow
  <2> DEFINE size == Wrap(d.size + Head(queue).by)
  <2>2. CASE size > 0 /\ Resize(size) /\ d' = [d EXCEPT !.size = size]
    <3>1. size \in 1 .. Max
      BY <2>1, <2>2, WrapFacts, DataFacts DEF TypeOK
    <3>2. size \in -(Max + 1) .. Max /\ size \in 0 .. Max
      BY <3>1, SizeAssumption
    <3> HIDE DEF size
    <3>3. d' \in Data
      BY <2>2, <3>2, SizeSet DEF TypeOK
    <3>4. buffer' \in 0 .. Max /\ image' \in Absent .. Max
      BY <2>2, <3>2, SizeAssumption DEF Resize, TypeOK
    <3> QED
      BY <1>13, <2>1, <3>3, <3>4 DEF ServeGrow, TypeOK
  <2>3. CASE UNCHANGED <<d, buffer, image>>
    BY <1>13, <2>1, <2>3 DEF ServeGrow, TypeOK
  <2> QED
    BY <1>13, <2>2, <2>3 DEF ServeGrow
<1>14. CASE ServeWrite
  <2>1. /\ queue' \in Seq(Control) /\ Len(queue') <= MaxQueue /\ Head(queue) \in Control
        /\ Head(queue).op = "write"
    BY <1>14, TakeFacts DEF ServeWrite
  <2>2. image' \in Absent .. Max
    <3>1. Head(queue).end \in 1 .. Max
      BY <2>1, ControlFacts
    <3>2. d.offset \in 0 .. Max
      BY DataFacts DEF TypeOK
    <3> QED
      BY <1>14, <3>1, <3>2, SizeAssumption DEF ServeWrite, TypeOK
  <2> QED
    BY <1>14, <2>1, <2>2 DEF ServeWrite, MayBeLost, TypeOK
<1>15. CASE ServesObject
  <2>1. queue' \in Seq(Control) /\ Len(queue') <= MaxQueue
    BY <1>15, TakeFacts DEF ServesObject
  <2> QED
    BY <1>15, <2>1 DEF ServesObject, MayBeLost, ReferenceLate, TypeOK, Held
<1> QED
  BY StepCases, <1>1, <1>3, <1>4, <1>5, <1>6, <1>7, <1>8, <1>9, <1>10, <1>11, <1>12, <1>13,
     <1>14, <1>15

-----------------------------------------------------------------------------
(* What is held. *)

LEMMA KindFacts ==
    /\ "vm" \notin Proxies /\ "vm" \notin Files
    /\ Proxies \cap Files = {} /\ Kinds = Proxies \cup Files \cup {"vm"}
  BY DEF Proxies, Files, Kinds

\* The data change in no step but in their size, protection, sparseness and geometry.
LEMMA KindStays ==
    ASSUME TypeOK, [Next]_vars
    PROVE  d'.kind = d.kind /\ d'.offset = d.offset
<1> USE DEF Unserved, Goto, Idle, Same
<1>1. CASE UNCHANGED vars
  BY <1>1 DEF vars
<1>2. CASE OpenImage \/ SetLength \/ ImageSize \/ ProxySize \/ ReferenceObject
  BY <1>2 DEF Fail, OpenImage, SetLength, ImageSize, ProxySize, ReferenceObject, FillGeometry,
              TypeOK, Data
<1>3. CASE CheckParameters \/ ReferenceProxy \/ ConnectProxy \/ ReadGeometry \/ CheckLeast
           \/ AllocateBlank \/ IoCreateDevice \/ CreateSymlink \/ InitExtension \/ PreloadImage
  BY <1>3 DEF Fail, CheckParameters, ReferenceProxy, ConnectProxy, ReadGeometry, CheckLeast,
              AllocateBlank, IoCreateDevice, CreateSymlink, InitExtension, PreloadImage
<1>4. CASE Queues \/ ServeWrite \/ ServesObject \/ TearDown \/ DeleteDevice \/ RemoveDevice
           \/ (\E change \in {-1, 1} : UsageNotification(change))
  BY <1>4 DEF Queues, ServeWrite, ServesObject, TearDown, DeleteDevice, RemoveDevice,
              UsageNotification
<1>5. CASE (\E on \in BOOLEAN : SetReadOnly(on)) \/ SetSparse \/ ServeGrow
  BY <1>5 DEF SetReadOnly, SetSparse, ServeGrow, TypeOK, Data
<1> QED
  BY StepCases, <1>1, <1>2, <1>3, <1>4, <1>5

LEMMA StepKeep == TypeOK /\ KeepInv /\ SizeInv /\ [Next]_vars => KeepInv'
<1> SUFFICES ASSUME TypeOK, KeepInv, SizeInv, [Next]_vars PROVE KeepInv'
  OBVIOUS
<1>0. d'.kind = d.kind
  BY KindStays
<1> USE DEF Unserved, Goto, Idle, Same, Unopened, Opened, NothingKept
<1>1. CASE UNCHANGED vars
  BY <1>1 DEF vars, KeepInv
\* A failure exit names everything that is held where it is taken.
<1>2. ASSUME NEW freed, Fail(freed), held \subseteq freed \cup {"name"},
             "buffer" \in freed \/ buffer = 0
      PROVE  KeepInv'
  BY <1>2 DEF Fail, KeepInv
<1>3. CASE CheckParameters
  BY <1>0, <1>2, <1>3 DEF CheckParameters, KeepInv
<1>4. CASE OpenImage
  BY <1>0, <1>2, <1>4 DEF OpenImage, KeepInv
<1>5. CASE SetLength
  BY <1>0, <1>2, <1>5 DEF SetLength, KeepInv
<1>6. CASE ReferenceProxy
  BY <1>0, <1>2, <1>6, KindFacts DEF ReferenceProxy, KeepInv
<1>7. CASE ConnectProxy
  BY <1>0, <1>2, <1>7 DEF ConnectProxy, KeepInv
<1>8. CASE ImageSize
  BY <1>0, <1>2, <1>8, KindFacts DEF ImageSize, KeepInv
<1>9. CASE ProxySize
  BY <1>0, <1>2, <1>9 DEF ProxySize, KeepInv
<1>10. CASE ReadGeometry
  BY <1>0, <1>2, <1>10, KindFacts DEF ReadGeometry, KeepInv
<1>11. CASE CheckLeast
  BY <1>0, <1>2, <1>11 DEF CheckLeast, KeepInv
<1>12. CASE AllocateBlank
  BY <1>0, <1>2, <1>12 DEF AllocateBlank, KeepInv, SizeInv
<1>13. CASE ReferenceObject
  BY <1>0, <1>2, <1>13 DEF ReferenceObject, KeepInv
<1>14. CASE IoCreateDevice \/ CreateSymlink
  <2>1. held \subseteq Everything \cup {"name"} /\ "buffer" \in Everything
    BY DEF TypeOK, Held, Everything
  <2> QED
    BY <1>0, <1>2, <1>14, <2>1 DEF IoCreateDevice, CreateSymlink, KeepInv
<1>15. CASE InitExtension \/ PreloadImage
  BY <1>0, <1>15 DEF InitExtension, PreloadImage, KeepInv
<1>16. CASE Queues \/ RemoveDevice \/ SetSparse \/ (\E on \in BOOLEAN : SetReadOnly(on))
            \/ (\E change \in {-1, 1} : UsageNotification(change))
  BY <1>0, <1>16 DEF Queues, RemoveDevice, SetSparse, SetReadOnly, UsageNotification, Serving,
                     KeepInv
<1>17. CASE ServeGrow
  BY <1>0, <1>17, KindFacts DEF ServeGrow, Take, Resize, KeepInv
<1>18. CASE ServeWrite \/ ServesObject
  BY <1>0, <1>18 DEF ServeWrite, ServesObject, ReferenceLate, Take, KeepInv
<1>19. CASE TearDown
  <2>1. held' \subseteq {"device", "link"}
    BY <1>19 DEF TearDown, KeepInv, TypeOK, Held
  <2> QED
    BY <1>0, <1>19, <2>1 DEF TearDown, KeepInv
<1>20. CASE DeleteDevice
  BY <1>0, <1>20 DEF DeleteDevice, KeepInv
<1> QED
  BY StepCases, <1>1, <1>3, <1>4, <1>5, <1>6, <1>7, <1>8, <1>9, <1>10, <1>11, <1>12, <1>13,
     <1>14, <1>15, <1>16, <1>17, <1>18, <1>19, <1>20

-----------------------------------------------------------------------------
(* What stands behind the disk. *)

LEMMA StepSize == TypeOK /\ KeepInv /\ SizeInv /\ AccessInv /\ [Next]_vars => SizeInv'
<1> SUFFICES ASSUME TypeOK, KeepInv, SizeInv, AccessInv, [Next]_vars PROVE SizeInv'
  OBVIOUS
<1>0. d'.kind = d.kind /\ d'.offset = d.offset
  BY KindStays
<1>00. /\ d.size \in Int /\ d.offset \in Nat /\ image \in Int /\ d.kind \in Kinds
       /\ d.size <= Max /\ d.ro \in BOOLEAN
  BY DataFacts, SizeAssumption DEF TypeOK, Absent
<1> USE DEF Unserved, Goto, Idle, Same, Unopened, Opened, Measured
<1>1. CASE UNCHANGED vars
  BY <1>1 DEF vars, SizeInv
<1>2. ASSUME NEW freed, Fail(freed), pc \notin {"preload", "running"} PROVE SizeInv'
  <2>1. pc' = "refused" /\ queue' = <<>> /\ d' = d
    BY <1>2 DEF Fail, SizeInv
  <2> QED
    BY <2>1, EmptyQueue DEF SizeInv
<1>3. CASE CheckParameters
  <2>1. ~Opens /\ ~NameMissing => d.kind = "vm" /\ d.size > 0
    BY SizeAssumption, <1>00 DEF Opens, NameMissing
  <2> QED
    BY <1>2, <1>3, <2>1 DEF CheckParameters, SizeInv
<1>4. CASE OpenImage
  <2>1. CASE Fail({})
    BY <1>2, <1>4, <2>1 DEF OpenImage
  <2>2. CASE /\ d' = [d EXCEPT !.ro = d.ro \/ d.cd] /\ access' = WantedAccess(d')
             /\ Goto(IF d'.kind \in Files /\ ~d'.ro THEN "length" ELSE "map")
    <3>1. d'.size = d.size /\ d'.ro \in BOOLEAN
      BY <2>2, ProtectionSet, DataFacts DEF TypeOK
    <3>2. d.kind \in Files /\ pc' = "map" => access' # "write"
      BY <1>0, <2>2, KindFacts DEF WantedAccess
    <3>3. queue' = <<>> /\ queue = <<>> /\ pc' \in {"length", "map"} /\ pc = "open"
      BY <1>4, <2>2 DEF OpenImage, SizeInv
    <3> QED
      BY <1>0, <3>1, <3>2, <3>3, EmptyQueue DEF SizeInv
  <2> QED
    BY <1>4, <2>1, <2>2 DEF OpenImage
<1>5. CASE SetLength
  <2>1. CASE Fail({"handle"})
    BY <1>2, <1>5, <2>1 DEF SetLength
  <2>2. CASE /\ \E sparse \in BOOLEAN : d' = [d EXCEPT !.sparse = @ /\ sparse]
             /\ image' = IF d.size # 0 /\ d.offset = 0 THEN d.size ELSE image
             /\ Goto("map") /\ UNCHANGED <<access, held, buffer>>
    <3>1. d'.size = d.size
      BY <2>2 DEF TypeOK, Data
    <3>2. queue' = <<>>
      BY <1>5, <2>2 DEF SetLength, SizeInv
    <3> QED
      BY <1>0, <1>00, <2>2, <3>1, <3>2, EmptyQueue DEF SizeInv
  <2> QED
    BY <1>5, <2>1, <2>2 DEF SetLength
<1>6. CASE ReferenceProxy
  BY <1>2, <1>6 DEF ReferenceProxy, SizeInv
<1>7. CASE ConnectProxy
  BY <1>2, <1>7, KindFacts DEF ConnectProxy, SizeInv, KeepInv
<1>8. CASE ImageSize
  <2>1. CASE Fail({"handle"})
    BY <1>2, <1>8, <2>1 DEF ImageSize
  <2>2. CASE /\ d' = [d EXCEPT !.size = GivenSize(Behind)]
             /\ d.kind = "vm" => buffer' = GivenSize(Behind)
             /\ pc' \in {"least", "geometry"} /\ UNCHANGED <<image, access, queue>>
    <3>1. GivenSize(Behind) \in -(Max + 1) .. Max
      BY DataFacts, SizeAssumption DEF GivenSize, Behind, TypeOK, Absent
    <3>2. d'.size = GivenSize(Behind)
      BY <2>2, <3>1, SizeSet DEF TypeOK
    <3>3. queue' = <<>>
      BY <1>8, <2>2 DEF ImageSize, SizeInv
    <3>4. d.kind \in Files /\ d.offset = 0 /\ access = "write" => image >= d'.size
      BY <1>8, <1>00, <3>2 DEF GivenSize, Behind, SizeInv, ImageSize
    <3> QED
      BY <1>0, <2>2, <3>2, <3>3, <3>4, EmptyQueue DEF SizeInv
  <2> QED
    BY <1>8, <2>1, <2>2 DEF ImageSize
<1>9. CASE ProxySize
  <2>1. CASE Fail({"proxy", "handle"})
    BY <1>2, <1>9, <2>1 DEF ProxySize
  <2>2. CASE pc' \in {"least", "geometry"} /\ queue' = queue
    BY <1>0, <1>9, <2>2, KindFacts, EmptyQueue DEF ProxySize, SizeInv
  <2> QED
    BY <1>9, <2>1, <2>2 DEF ProxySize
<1>10. CASE ReadGeometry \/ CheckLeast \/ IoCreateDevice \/ CreateSymlink
  BY <1>2, <1>10 DEF ReadGeometry, CheckLeast, IoCreateDevice, CreateSymlink, SizeInv
<1>11. CASE InitExtension \/ PreloadImage \/ RemoveDevice
  BY <1>11 DEF InitExtension, PreloadImage, RemoveDevice, Serving, SizeInv
<1>12. CASE AllocateBlank
  BY <1>2, <1>12, KindFacts DEF AllocateBlank, SizeInv
<1>13. CASE ReferenceObject
  <2>1. FillGeometry(d).size = d.size
    BY GeometrySet DEF FillGeometry, TypeOK
  <2> QED
    BY <1>0, <1>2, <1>13, <2>1 DEF ReferenceObject, SizeInv
<1>14. CASE Queues
  <2>1. PICK c \in Control :
          /\ c.op \in {"read", "write"} => c.end <= d.size
          /\ queue' = Append(queue, c) /\ pc \in {"preload", "running"}
          /\ UNCHANGED <<pc, d, image, access, buffer>>
    BY <1>14 DEF Queues, Serving
  <2>2. queue \in Seq(Control)
    BY DEF TypeOK
  <2>3. \A i \in DOMAIN queue' : (i \in DOMAIN queue /\ queue'[i] = queue[i]) \/ queue'[i] = c
    BY <2>1, <2>2, QueueFacts
  <2> QED
    BY <2>1, <2>3 DEF SizeInv
<1>15. CASE SetSparse \/ (\E on \in BOOLEAN : SetReadOnly(on))
  <2>1. d'.size = d.size
    BY <1>15 DEF SetSparse, SetReadOnly, TypeOK, Data
  <2>2. UNCHANGED <<pc, image, access, buffer, queue>>
    BY <1>15 DEF SetSparse, SetReadOnly
  <2> QED
    BY <1>0, <2>1, <2>2 DEF SizeInv
<1>16. ASSUME NEW change \in {-1, 1}, UsageNotification(change) PROVE SizeInv'
  BY <1>16 DEF UsageNotification, SizeInv
<1>17. CASE ServeGrow
  <2>1. /\ Head(queue).by \in 0 .. Max /\ pc = "running" /\ pc' = pc /\ access' = access
        /\ \A i \in DOMAIN queue' : i + 1 \in DOMAIN queue /\ queue'[i] = queue[i + 1]
    BY <1>17, TakeFacts, ControlFacts DEF ServeGrow
  <2> DEFINE size == Wrap(d.size + Head(queue).by)
  <2>2. CASE size > 0 /\ Resize(size) /\ d' = [d EXCEPT !.size = size]
    <3>1. size \in 1 .. Max /\ size >= d.size
      BY <2>1, <2>2, WrapFacts, DataFacts DEF TypeOK
    <3>2. d'.size = size
      BY <2>2, <3>1, SizeSet, SizeAssumption DEF TypeOK
    <3> HIDE DEF size
    <3>3. \A i \in DOMAIN queue' : queue'[i].op \in {"read", "write"} => queue'[i].end <= d'.size
      <4> SUFFICES ASSUME NEW i \in DOMAIN queue', queue'[i].op \in {"read", "write"}
                   PROVE  queue'[i].end <= d'.size
        OBVIOUS
      <4>1. queue[i + 1] \in Control /\ queue'[i] = queue[i + 1] /\ i + 1 \in DOMAIN queue
        BY <2>1 DEF TypeOK
      <4>2. queue[i + 1].end \in 1 .. Max /\ queue[i + 1].end <= d.size
        BY <4>1, ControlFacts DEF SizeInv
      <4> QED
        BY <1>00, <3>1, <3>2, <4>1, <4>2
    <3>4. d.kind = "vm" => buffer' = d'.size
      BY <2>2, <3>2, KindFacts DEF Resize
    <3>5. d.kind \in Files => image' >= d'.size
      BY <1>00, <2>2, <3>1, <3>2, KindFacts DEF Resize
    <3> QED
      BY <1>0, <2>1, <3>3, <3>4, <3>5 DEF SizeInv
  <2>3. CASE UNCHANGED <<d, buffer, image>>
    BY <2>1, <2>3 DEF SizeInv
  <2> QED
    BY <1>17, <2>2, <2>3 DEF ServeGrow
<1>18. CASE ServeWrite
  <2>1. /\ pc = "running" /\ UNCHANGED <<pc, access, d, buffer>>
        /\ \A i \in DOMAIN queue' : i + 1 \in DOMAIN queue /\ queue'[i] = queue[i + 1]
        /\ Head(queue).end \in 1 .. Max
    BY <1>18, TakeFacts, ControlFacts DEF ServeWrite
  <2>2. image' >= image
    BY <1>00, <1>18, <2>1 DEF ServeWrite, Behind
  <2>3. image' \in Int
    BY <1>00, <1>18, <2>1 DEF ServeWrite
  <2> QED
    BY <1>00, <2>1, <2>2, <2>3 DEF SizeInv
<1>19. CASE ServesObject
  <2>1. /\ pc = "running" /\ UNCHANGED <<pc, access, d, buffer, image>>
        /\ \A i \in DOMAIN queue' : i + 1 \in DOMAIN queue /\ queue'[i] = queue[i + 1]
    BY <1>19, TakeFacts DEF ServesObject
  <2> QED
    BY <2>1 DEF SizeInv
<1>20. CASE TearDown \/ DeleteDevice
  BY <1>20, EmptyQueue DEF TearDown, DeleteDevice, SizeInv
<1> QED
  BY StepCases, <1>1, <1>3, <1>4, <1>5, <1>6, <1>7, <1>8, <1>9, <1>10, <1>11, <1>12, <1>13,
     <1>14, <1>15, <1>16, <1>17, <1>18, <1>19, <1>20

\* Only a disk in memory loses its protection again.
LEMMA StepAccess == TypeOK /\ SizeInv /\ AccessInv /\ [Next]_vars => AccessInv'
<1> SUFFICES ASSUME TypeOK, SizeInv, AccessInv, [Next]_vars PROVE AccessInv'
  OBVIOUS
<1>0. d'.kind = d.kind /\ d.kind \in Kinds /\ d.ro \in BOOLEAN /\ d.cd \in BOOLEAN
  BY KindStays, DataFacts DEF TypeOK
<1> USE DEF Unserved, Goto, Idle, Same, Unopened, Opened, Measured
<1>1. CASE UNCHANGED vars
  BY <1>1 DEF vars, AccessInv
<1>2. ASSUME NEW freed, Fail(freed) PROVE AccessInv'
  BY <1>2 DEF Fail, AccessInv
<1>3. CASE OpenImage
  <2>1. CASE /\ d' = [d EXCEPT !.ro = d.ro \/ d.cd] /\ access' = WantedAccess(d')
             /\ Goto(IF d'.kind \in Files /\ ~d'.ro THEN "length" ELSE "map")
    BY <1>0, <2>1 DEF WantedAccess, AccessInv
  <2> QED
    BY <1>2, <1>3, <2>1 DEF OpenImage
<1>4. CASE SetLength \/ ImageSize \/ ReferenceObject \/ SetSparse \/ ServeGrow
  <2>1. ASSUME d'.ro = d.ro, access' = access,
               \/ pc' = pc
               \/ pc \in Opened \cup Measured /\ pc' \in Measured \cup {"map"}
        PROVE  AccessInv'
    BY <1>0, <2>1 DEF AccessInv
  <2>2. ASSUME d' # d PROVE d'.ro = d.ro
    BY <1>4, <2>2 DEF SetLength, ImageSize, ReferenceObject, FillGeometry, SetSparse, ServeGrow,
                      Fail, TypeOK, Data
  <2>3. CASE SetLength \/ ImageSize
    BY <1>2, <2>1, <2>2, <2>3 DEF SetLength, ImageSize
  <2>4. CASE ReferenceObject
    BY <1>2, <2>1, <2>2, <2>4 DEF ReferenceObject
  <2>5. CASE SetSparse \/ ServeGrow
    BY <2>1, <2>2, <2>5 DEF SetSparse, ServeGrow
  <2> QED
    BY <1>4, <2>3, <2>4, <2>5
<1>5. CASE ProxySize
  <2>1. CASE \E ro \in BOOLEAN : d' = [d EXCEPT !.size = GivenSize(image), !.ro = @ \/ ro]
    <3>1. d'.ro \in BOOLEAN /\ (~d'.ro => ~d.ro)
      BY <1>0, <2>1 DEF TypeOK, Data
    <3> QED
      BY <1>0, <1>2, <1>5, <3>1 DEF ProxySize, AccessInv
  <2> QED
    BY <1>2, <1>5, <2>1 DEF ProxySize
<1>6. CASE CheckParameters \/ AllocateBlank
  BY <1>2, <1>6 DEF CheckParameters, AllocateBlank, SizeInv, AccessInv
<1>7. CASE ReferenceProxy \/ ConnectProxy \/ ReadGeometry \/ CheckLeast \/ IoCreateDevice
           \/ CreateSymlink \/ InitExtension \/ PreloadImage
  BY <1>2, <1>7 DEF ReferenceProxy, ConnectProxy, ReadGeometry, CheckLeast, IoCreateDevice,
                    CreateSymlink, InitExtension, PreloadImage, AccessInv
<1>8. CASE Queues \/ RemoveDevice \/ (\E change \in {-1, 1} : UsageNotification(change))
           \/ ServeWrite \/ ServesObject
  BY <1>8 DEF Queues, RemoveDevice, UsageNotification, ServeWrite, ServesObject, AccessInv
<1>9. ASSUME NEW on \in BOOLEAN, SetReadOnly(on) PROVE AccessInv'
  <2>1. (d'.ro = TRUE \/ d.kind = "vm") /\ UNCHANGED <<pc, access>>
    BY <1>9 DEF SetReadOnly, TypeOK, Data
  <2> QED
    BY <1>0, <1>9, <2>1 DEF AccessInv, SetReadOnly, Serving
<1>10. CASE TearDown \/ DeleteDevice
  BY <1>10 DEF TearDown, DeleteDevice, AccessInv
<1> QED
  BY StepCases, <1>1, <1>3, <1>4, <1>5, <1>6, <1>7, <1>8, <1>9, <1>10

-----------------------------------------------------------------------------
(* The theorems. *)

LEMMA InitInv == Init => IInv
<1> SUFFICES ASSUME Init PROVE IInv
  OBVIOUS
<1>1. TypeOK
  BY InitType
<1>2. KeepInv
  BY <1>1 DEF Init, KeepInv, NothingKept, Unopened, Opened
<1>3. SizeInv
  BY EmptyQueue, RequestAssumption DEF Init, SizeInv, Measured
<1>4. AccessInv
  BY DEF Init, AccessInv, Unopened, Opened, Measured
<1> QED
  BY <1>1, <1>2, <1>3, <1>4 DEF IInv

LEMMA StepInv == IInv /\ [Next]_vars => IInv'
  BY StepType, StepKeep, StepSize, StepAccess DEF IInv

\* The inductive invariant: what is held and how long the disk is at every exit of the creation.
THEOREM Inductive == Spec => []IInv
  BY InitInv, StepInv, PTL DEF Spec

\* Each of the failure exits of FscryptDiskCreateDevice gives back all that was acquired before
\* it, and the teardown of a disk, with FscryptDiskDeleteDevice, leaves at most the symbolic link.
THEOREM LeavesNothing == Spec => []NothingKept
<1>1. IInv => NothingKept
  BY DEF IInv, KeepInv
<1> QED
  BY <1>1, Inductive, PTL

\* For every width of a size: the requests that wait lie within the disk and the disk within its
\* memory or image, through growth that was checked before other growth was served.
THEOREM StaysWithin == Spec => []WithinBacking
<1>1. IInv => WithinBacking
  BY DEF IInv, SizeInv, WithinBacking, Published, Measured
<1> QED
  BY <1>1, Inductive, PTL

\* A published disk without write protection has an image that was opened for writing, whatever
\* IOCTL_FSCRYPTDISK_SET_DEVICE_FLAGS requests asked for since.
THEOREM OpenedForWriting == Spec => []WritableAsOpened
<1>1. IInv => WritableAsOpened
  BY DEF IInv, AccessInv, WritableAsOpened, Published, Opened, Measured
<1> QED
  BY <1>1, Inductive, PTL
=============================================================================
