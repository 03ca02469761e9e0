-------------------------- MODULE DevIoDrv_proofs ---------------------------
(***************************************************************************)
(* Proofs about DevIoDrv, for any number of openers, server threads and    *)
(* client requests: what its table entry counts, where a client's IRP is,  *)
(* whose answer it gets, and that a server's exchange finds its memory.    *)
(***************************************************************************)
EXTENDS DevIoDrv, FiniteSetTheorems, TLAPS

-----------------------------------------------------------------------------
(* The inductive invariant. *)

\* Where a thread of the server holds a client's IRP, and where its buffer carries the request,
\* or the answer to it.
Holding(w)  == xpc[w] \in {"taken", "insert", "putback", "answer"}
Carrying(w) == \/ xpc[w] \in {"insert", "deliver", "complete"}
               \/ xpc[w] = "serve" /\ buffer[w].code = "request"
               \/ xpc[w] \in {"ready", "reserve", "lookup"}
Tagged(w)   == Carrying(w) /\ buffer[w].tag # None

Holders   == {f \in File : Attached(f)}
Gone      == {f \in Opener : handle[f] = "gone"}
Client(f) == /\ f # Server /\ access[f] # "attributes"
             /\ handle[f] = "open" \/ (handle[f] = "check" /\ refNumber[f] = 2)

\* The count of references and what hangs on it.
CountInv ==
    /\ RefCount = Cardinality(Holders) + leaked
    /\ leaked <= Cardinality(Gone)
    /\ exists <=> RefCount > 0
    /\ handle[Server] \in {"none", "open", "cancel", "close", "closing", "gone"}
    /\ refNumber[Server] = 0

\* Nobody has the context before the server has made it, and as long as the server has it a
\* second reference makes the only client.
ServerInv ==
    /\ handle[Server] = "none" => /\ RefCount = 0 /\ server = None
                                  /\ \A w \in Worker : xpc[w] = "out"
    /\ server = Server => handle[Server] = "open"
    /\ \A f \in File : handle[f] = "cancel" => server = None
    /\ Attached(Server) => \A f, g \in File : Client(f) /\ Client(g) => f = g

\* No request is twice in a list.
NoDup(list) == \A i, j \in DOMAIN list : list[i] = list[j] => i = j

\* A client IRP is where its state says, and nowhere else.
PlaceInv ==
    /\ NoDup(received) /\ NoDup(sent) /\ NoDup(requests)
    /\ \A r \in Req : /\ InList(r, received) <=> rpc[r] = "received"
                      /\ InList(r, sent) <=> rpc[r] = "sent"
                      /\ rpc[r] \in {"send", "answer"} => \E w \in Worker : Holding(w) /\ target[w] = r
    /\ \A w \in Worker : InList(w, requests) => xpc[w] = "queued"
    /\ \A w \in Worker : Holding(w) =>
          /\ target[w] \in Req
          /\ rpc[target[w]] = IF xpc[w] = "answer" THEN "answer" ELSE "send"
    /\ \A v, w \in Worker : Holding(v) /\ Holding(w) /\ target[v] = target[w] => v = w

\* A cancel routine that has been taken belongs to an IRP that no thread is working on.
CancelInv ==
    /\ firing \subseteq cancelled /\ (firing # {} => killed)
    /\ \A w \in Worker : /\ X(w) \in armed => xpc[w] = "queued"
                         /\ X(w) \in firing => xpc[w] \in {"queued", "serve"} /\ X(w) \notin armed

\* An IRP has a list entry, of its own, from its dispatch to its completion.
EntryInv ==
    /\ \A r \in Req : entry[r] # None <=> rpc[r] \in {"lock", "received", "send", "sent", "answer"}
    /\ \A r, q \in Req : entry[r] # None /\ entry[r] = entry[q] => r = q

\* What a buffer's tag stands for: no other request has its address while the server is there,
\* and none gets an address afterwards.
TagInv ==
    /\ \A w \in Worker :
          /\ xpc[w] \in {"ready", "reserve", "lookup", "answer", "ask", "queued", "taken"} =>
                buffer[w].code # "request"
          /\ Tagged(w) => /\ buffer[w].about \in Req
                          /\ \A r \in Req : entry[r] = buffer[w].tag => r = buffer[w].about
          /\ Tagged(w) /\ server = Server =>
                /\ entry[buffer[w].about] = buffer[w].tag
                /\ IF xpc[w] = "insert" THEN target[w] = buffer[w].about
                   ELSE rpc[buffer[w].about] = "sent"
          /\ xpc[w] = "answer" /\ buffer[w].code = "ok" => buffer[w].about = target[w]
    /\ server = Server => \A v, w \in Worker :
          Tagged(v) /\ Tagged(w) /\ buffer[v].about = buffer[w].about => v = w

\* What an IRP has been completed with is its own.
ResultInv == \A r \in Req : result[r] \in {"none", "failed", r}

\* While the server is there, its memory is in the list where it may come back with it.
MemoryInv ==
    \A w \in Worker :
       /\ xpc[w] \in {"ready", "reserve", "complete", "serve"} /\ server = Server
          /\ M(w) \notin cancelled => InList(w, memory)

IInv == TypeOK /\ CountInv /\ ServerInv /\ PlaceInv /\ CancelInv /\ EntryInv /\ TagInv /\ ResultInv
        /\ MemoryInv
-----------------------------------------------------------------------------
(* Lists. *)

LEMMA JoinFacts ==
    ASSUME NEW S, NEW a \in Seq(S), NEW b \in Seq(S)
    PROVE  /\ a \o b \in Seq(S) /\ Len(a \o b) = Len(a) + Len(b)
           /\ DOMAIN (a \o b) = 1 .. Len(a) + Len(b)
           /\ \A k \in 1 .. Len(a) + Len(b) :
                 (a \o b)[k] = IF k <= Len(a) THEN a[k] ELSE b[k - Len(a)]
  OBVIOUS

LEMMA CutFacts ==
    ASSUME NEW S, NEW s \in Seq(S), NEW i \in DOMAIN s
    PROVE  LET r == RemoveAt(s, i) IN
           /\ r \in Seq(S) /\ Len(r) = Len(s) - 1 /\ DOMAIN r = 1 .. Len(s) - 1
           /\ \A k \in DOMAIN r : r[k] = IF k < i THEN s[k] ELSE s[k + 1]
<1> DEFINE a == SubSeq(s, 1, i - 1)
           b == SubSeq(s, i + 1, Len(s))
           m == Len(s)
<1>1. m \in Nat /\ i \in 1 .. m /\ DOMAIN s = 1 .. m
  OBVIOUS
<1>2. a \in Seq(S) /\ Len(a) = i - 1 /\ \A k \in 1 .. i - 1 : a[k] = s[k]
  BY <1>1
<1>3. b \in Seq(S) /\ Len(b) = m - i /\ \A k \in 1 .. m - i : b[k] = s[i + k]
  BY <1>1
<1> HIDE DEF a, b, m
<1>4. /\ a \o b \in Seq(S) /\ Len(a \o b) = m - 1 /\ DOMAIN (a \o b) = 1 .. m - 1
      /\ \A k \in 1 .. m - 1 : (a \o b)[k] = IF k < i THEN a[k] ELSE b[k - (i - 1)]
  <2>1. Len(a) + Len(b) = m - 1 /\ \A k \in 1 .. m - 1 : k <= Len(a) <=> k < i
    BY <1>1, <1>2, <1>3
  <2>2. /\ a \o b \in Seq(S) /\ Len(a \o b) = Len(a) + Len(b)
        /\ DOMAIN (a \o b) = 1 .. Len(a) + Len(b)
        /\ \A k \in 1 .. Len(a) + Len(b) :
              (a \o b)[k] = IF k <= Len(a) THEN a[k] ELSE b[k - Len(a)]
    BY <1>2, <1>3, JoinFacts, Zenon
  <2> QED
    BY <1>2, <2>1, <2>2
<1>5. \A k \in 1 .. m - 1 : (a \o b)[k] = IF k < i THEN s[k] ELSE s[k + 1]
  <2> SUFFICES ASSUME NEW k \in 1 .. m - 1 PROVE (a \o b)[k] = IF k < i THEN s[k] ELSE s[k + 1]
    OBVIOUS
  <2>1. CASE k < i
    <3>1. k \in 1 .. i - 1
      BY <1>1, <2>1
    <3> QED
      BY <1>2, <1>4, <2>1, <3>1
  <2>2. CASE ~(k < i)
    <3>1. k - (i - 1) \in 1 .. m - i /\ i + (k - (i - 1)) = k + 1
      BY <1>1, <2>2
    <3> QED
      BY <1>3, <1>4, <2>2, <3>1
  <2> QED
    BY <2>1, <2>2
<1> QED
  BY <1>4, <1>5 DEF RemoveAt, a, b, m

\* What is left of a list without one of its elements.
LEMMA WithoutFacts ==
    ASSUME NEW S, NEW s \in Seq(S), NEW e
    PROVE  /\ Without(s, e) \in Seq(S)
           /\ \A f : f # e => (InList(f, Without(s, e)) <=> InList(f, s))
           /\ NoDup(s) => NoDup(Without(s, e)) /\ ~InList(e, Without(s, e))
<1>1. CASE ~InList(e, s)
  BY <1>1 DEF Without
<1>2. CASE InList(e, s)
  <2> DEFINE i == CHOOSE k \in DOMAIN s : s[k] = e
             r == Without(s, e)
             m == Len(s)
  <2>1. i \in DOMAIN s /\ s[i] = e
    BY <1>2 DEF InList
  <2>2. r = RemoveAt(s, i)
    BY <1>2 DEF Without
  <2> HIDE DEF i
  <2>3. /\ RemoveAt(s, i) \in Seq(S) /\ DOMAIN RemoveAt(s, i) = 1 .. m - 1
        /\ \A k \in DOMAIN RemoveAt(s, i) : RemoveAt(s, i)[k] = IF k < i THEN s[k] ELSE s[k + 1]
    BY <2>1, CutFacts
  <2>4. m \in Nat /\ DOMAIN s = 1 .. m
    OBVIOUS
  <2> HIDE DEF r, m
  <2>5. /\ r \in Seq(S) /\ DOMAIN r = 1 .. m - 1
        /\ \A k \in DOMAIN r : r[k] = IF k < i THEN s[k] ELSE s[k + 1]
    BY <2>2, <2>3
  <2>6. \A k \in DOMAIN r : \E j \in DOMAIN s :
           r[k] = s[j] /\ j # i /\ j = IF k < i THEN k ELSE k + 1
    <3> SUFFICES ASSUME NEW k \in DOMAIN r
                 PROVE  \E j \in DOMAIN s : r[k] = s[j] /\ j # i /\ j = IF k < i THEN k ELSE k + 1
      OBVIOUS
    <3>1. CASE k < i
      BY <2>1, <2>4, <2>5, <3>1
    <3>2. CASE ~(k < i)
      <4>1. k + 1 \in DOMAIN s /\ k + 1 # i
        BY <2>1, <2>4, <2>5, <3>2
      <4> QED
        BY <2>5, <3>2, <4>1
    <3> QED
      BY <3>1, <3>2
  <2>7. \A j \in DOMAIN s : j # i => \E k \in DOMAIN r : r[k] = s[j]
    <3> SUFFICES ASSUME NEW j \in DOMAIN s, j # i PROVE \E k \in DOMAIN r : r[k] = s[j]
      OBVIOUS
    <3>1. CASE j < i
      BY <2>1, <2>4, <2>5, <3>1
    <3>2. CASE ~(j < i)
      <4>1. j - 1 \in DOMAIN r /\ ~(j - 1 < i) /\ (j - 1) + 1 = j
        BY <2>1, <2>4, <2>5, <3>2
      <4> QED
        BY <2>5, <3>2, <4>1
    <3> QED
      BY <3>1, <3>2
  <2>8. \A f : f # e => (InList(f, r) <=> InList(f, s))
    <3> SUFFICES ASSUME NEW f, f # e PROVE InList(f, r) <=> InList(f, s)
      OBVIOUS
    <3>1. ASSUME InList(f, s) PROVE InList(f, r)
      <4>1. PICK j \in DOMAIN s : s[j] = f
        BY <3>1 DEF InList
      <4>2. j # i
        BY <2>1, <4>1
      <4> QED
        BY <2>7, <4>1, <4>2 DEF InList
    <3>2. ASSUME InList(f, r) PROVE InList(f, s)
      BY <2>6, <3>2 DEF InList
    <3> QED
      BY <3>1, <3>2
  <2>9. ASSUME NoDup(s) PROVE NoDup(r) /\ ~InList(e, r)
    <3>1. ~InList(e, r)
      BY <2>1, <2>6, <2>9 DEF InList, NoDup
    <3>2. ASSUME NEW a \in DOMAIN r, NEW b \in DOMAIN r, r[a] = r[b] PROVE a = b
      <4>1. PICK p \in DOMAIN s : r[a] = s[p] /\ p # i /\ p = IF a < i THEN a ELSE a + 1
        BY <2>6
      <4>2. PICK q \in DOMAIN s : r[b] = s[q] /\ q # i /\ q = IF b < i THEN b ELSE b + 1
        BY <2>6
      <4>3. p = q
        BY <2>9, <3>2, <4>1, <4>2 DEF NoDup
      <4> QED
        BY <2>1, <2>4, <2>5, <4>1, <4>2, <4>3
    <3> QED
      BY <3>1, <3>2 DEF NoDup
  <2> QED
    BY <2>5, <2>8, <2>9 DEF r
<1> QED
  BY <1>1, <1>2

LEMMA AppendFacts ==
    ASSUME NEW S, NEW s \in Seq(S), NEW e \in S
    PROVE  /\ Append(s, e) \in Seq(S)
           /\ \A f : InList(f, Append(s, e)) <=> InList(f, s) \/ f = e
           /\ NoDup(s) /\ ~InList(e, s) => NoDup(Append(s, e))
<1> DEFINE r == Append(s, e)
           m == Len(s)
<1>1. /\ m \in Nat /\ DOMAIN s = 1 .. m
      /\ r \in Seq(S) /\ DOMAIN r = 1 .. m + 1 /\ r[m + 1] = e /\ \A i \in 1 .. m : r[i] = s[i]
  OBVIOUS
<1> HIDE DEF r, m
<1>2. m + 1 \in DOMAIN r /\ \A i \in DOMAIN r : i \in DOMAIN s \/ i = m + 1
  BY <1>1
<1>3. \A i \in DOMAIN s : i \in DOMAIN r /\ r[i] = s[i]
  BY <1>1
<1>4. \A f : InList(f, r) <=> InList(f, s) \/ f = e
  BY <1>1, <1>2, <1>3 DEF InList
<1>5. NoDup(s) /\ ~InList(e, s) => NoDup(r)
  BY <1>1, <1>2, <1>3 DEF InList, NoDup
<1> QED
  BY <1>1, <1>4, <1>5 DEF r

LEMMA FrontFacts ==
    ASSUME NEW S, NEW s \in Seq(S), NEW e \in S
    PROVE  /\ <<e>> \o s \in Seq(S)
           /\ \A f : InList(f, <<e>> \o s) <=> InList(f, s) \/ f = e
           /\ NoDup(s) /\ ~InList(e, s) => NoDup(<<e>> \o s)
<1> DEFINE r == <<e>> \o s
           m == Len(s)
<1>1. /\ m \in Nat /\ DOMAIN s = 1 .. m
      /\ r \in Seq(S) /\ DOMAIN r = 1 .. m + 1 /\ r[1] = e
      /\ \A i \in 1 .. m : i + 1 \in DOMAIN r /\ r[i + 1] = s[i]
      /\ \A i \in DOMAIN r : i = 1 \/ (i - 1 \in 1 .. m /\ r[i] = s[i - 1])
  OBVIOUS
<1> HIDE DEF r, m
<1>2. \A f : InList(f, r) <=> InList(f, s) \/ f = e
  <2> TAKE f
  <2>1. ASSUME NEW i \in DOMAIN r, r[i] = f PROVE InList(f, s) \/ f = e
    <3>1. CASE i = 1
      BY <1>1, <2>1, <3>1
    <3>2. CASE i - 1 \in 1 .. m /\ r[i] = s[i - 1]
      BY <1>1, <2>1, <3>2 DEF InList
    <3> QED
      BY <1>1, <2>1, <3>1, <3>2
  <2>2. ASSUME NEW i \in DOMAIN s, s[i] = f PROVE InList(f, r)
    <3>1. i + 1 \in DOMAIN r /\ r[i + 1] = f
      BY <1>1, <2>2
    <3> QED
      BY <3>1 DEF InList
  <2>3. f = e => InList(f, r)
    <3>1. 1 \in DOMAIN r /\ r[1] = e
      BY <1>1
    <3> QED
      BY <3>1 DEF InList
  <2> QED
    BY <2>1, <2>2, <2>3 DEF InList
<1>3. ASSUME NoDup(s), ~InList(e, s), NEW i \in DOMAIN r, NEW j \in DOMAIN r, r[i] = r[j]
      PROVE  i = j
  <2>1. CASE i = 1 \/ j = 1
    BY <1>1, <1>3, <2>1 DEF InList
  <2>2. CASE i # 1 /\ j # 1
    <3>1. i - 1 \in DOMAIN s /\ j - 1 \in DOMAIN s /\ s[i - 1] = s[j - 1] /\ i \in Nat /\ j \in Nat
      BY <1>1, <1>3, <2>2
    <3>2. i - 1 = j - 1
      BY <1>3, <3>1 DEF NoDup
    <3> QED
      BY <3>1, <3>2
  <2> QED
    BY <2>1, <2>2
<1> QED
  BY <1>1, <1>2, <1>3 DEF NoDup, r

\* What is behind an element.
LEMMA BehindFacts ==
    ASSUME NEW S, NEW s \in Seq(S), NEW i \in DOMAIN s
    PROVE  LET r == SubSeq(s, i + 1, Len(s)) IN
           /\ r \in Seq(S)
           /\ \A f : InList(f, r) => InList(f, s)
           /\ NoDup(s) => NoDup(r) /\ ~InList(s[i], r)
<1> DEFINE r == SubSeq(s, i + 1, Len(s))
           m == Len(s)
<1>1. /\ m \in Nat /\ DOMAIN s = 1 .. m /\ i \in 1 .. m
      /\ r \in Seq(S) /\ DOMAIN r = 1 .. m - i /\ \A k \in 1 .. m - i : r[k] = s[i + k]
  OBVIOUS
<1> HIDE DEF r, m
<1>2. \A k \in DOMAIN r : i + k \in DOMAIN s /\ r[k] = s[i + k] /\ i + k # i /\ k \in Nat /\ i \in Nat
  BY <1>1
<1>3. \A f : InList(f, r) => InList(f, s)
  BY <1>2 DEF InList
<1>4. ASSUME NoDup(s) PROVE NoDup(r) /\ ~InList(s[i], r)
  <2>1. ~InList(s[i], r)
    BY <1>2, <1>4 DEF InList, NoDup
  <2>2. ASSUME NEW a \in DOMAIN r, NEW b \in DOMAIN r, r[a] = r[b] PROVE a = b
    <3>1. i + a = i + b
      BY <1>2, <1>4, <2>2 DEF NoDup
    <3> QED
      BY <1>2, <3>1
  <2> QED
    BY <2>1, <2>2 DEF NoDup
<1> QED
  BY <1>1, <1>3, <1>4 DEF r

LEMMA TailFacts ==
    ASSUME NEW S, NEW s \in Seq(S), s # <<>>
    PROVE  /\ Head(s) \in S /\ InList(Head(s), s) /\ Tail(s) \in Seq(S)
           /\ \A f : f # Head(s) => (InList(f, Tail(s)) <=> InList(f, s))
           /\ NoDup(s) => NoDup(Tail(s)) /\ ~InList(Head(s), Tail(s))
<1> DEFINE r == Tail(s)
           m == Len(s)
<1>1. /\ m \in Nat \ {0} /\ DOMAIN s = 1 .. m /\ Head(s) = s[1] /\ s[1] \in S
      /\ r \in Seq(S) /\ DOMAIN r = 1 .. m - 1 /\ \A k \in 1 .. m - 1 : r[k] = s[k + 1]
  OBVIOUS
<1> HIDE DEF r, m
<1>2. 1 \in DOMAIN s /\ \A k \in DOMAIN r : k + 1 \in DOMAIN s /\ r[k] = s[k + 1] /\ k + 1 # 1 /\ k \in Nat
  BY <1>1
<1>3. \A k \in DOMAIN s : k = 1 \/ (k - 1 \in DOMAIN r /\ r[k - 1] = s[k])
  <2> SUFFICES ASSUME NEW k \in DOMAIN s, k # 1 PROVE k - 1 \in DOMAIN r /\ r[k - 1] = s[k]
    OBVIOUS
  <2>1. k - 1 \in 1 .. m - 1 /\ (k - 1) + 1 = k
    BY <1>1
  <2> QED
    BY <1>1, <2>1
<1>4. \A f : f # Head(s) => (InList(f, r) <=> InList(f, s))
  BY <1>1, <1>2, <1>3 DEF InList
<1>5. ASSUME NoDup(s) PROVE NoDup(r) /\ ~InList(Head(s), r)
  <2>1. ~InList(Head(s), r)
    BY <1>1, <1>2, <1>5 DEF InList, NoDup
  <2>2. ASSUME NEW a \in DOMAIN r, NEW b \in DOMAIN r, r[a] = r[b] PROVE a = b
    <3>1. a + 1 = b + 1
      BY <1>2, <1>5, <2>2 DEF NoDup
    <3> QED
      BY <1>2, <3>1
  <2> QED
    BY <2>1, <2>2 DEF NoDup
<1> QED
  BY <1>1, <1>2, <1>4, <1>5 DEF r, InList
-----------------------------------------------------------------------------
(* The table entry. *)

LEMMA NameFacts ==
    /\ Server \notin Opener /\ Server # None /\ Server \in File /\ None \notin File
    /\ \A f \in Opener : f \in File /\ f # Server /\ f # None
    /\ \A f \in File : f = Server \/ f \in Opener
    /\ None \notin Req /\ None \notin Addr
    /\ IsFiniteSet(File) /\ IsFiniteSet(Opener)
<1>1. IsFiniteSet(Opener) /\ IsFiniteSet(Opener \cup {Server})
  BY OpenerAssumption, FS_AddElement
<1> QED
  BY <1>1, FileAssumption DEF File

LEMMA CountFacts ==
    /\ IsFiniteSet(Holders) /\ Cardinality(Holders) \in Nat
    /\ IsFiniteSet(Gone) /\ Cardinality(Gone) \in Nat
    /\ Cardinality(Holders) = 0 <=> Holders = {}
    /\ Cardinality(Gone) <= Cardinality(Opener)
    /\ Cardinality(Holders) + Cardinality(Gone) <= Cardinality(File)
    /\ Cardinality(File) \in Nat /\ Cardinality(Opener) \in Nat
<1>1. /\ Holders \in SUBSET File /\ Gone \in SUBSET Opener /\ Gone \in SUBSET File
      /\ Holders \cap Gone = {} /\ Holders \cup Gone \in SUBSET File
  BY NameFacts DEF Holders, Gone, Attached
<1>2. /\ IsFiniteSet(Holders) /\ IsFiniteSet(Gone) /\ IsFiniteSet(Holders \cup Gone)
      /\ Cardinality(Gone) <= Cardinality(Opener)
      /\ Cardinality(Holders \cup Gone) <= Cardinality(File)
  BY <1>1, NameFacts, FS_Subset
<1>3. /\ Cardinality(Holders) \in Nat /\ Cardinality(Gone) \in Nat
      /\ Cardinality(File) \in Nat /\ Cardinality(Opener) \in Nat
      /\ Cardinality(Holders \cup Gone) \in Nat
  BY <1>2, NameFacts, FS_CardinalityType
<1>4. Cardinality(Holders \cup Gone) =
         Cardinality(Holders) + Cardinality(Gone) - Cardinality(Holders \cap Gone)
  BY <1>2, FS_Union
<1>5. Cardinality({}) = 0 /\ (Cardinality(Holders) = 0 <=> Holders = {})
  BY <1>2, FS_EmptySet
<1>6. Cardinality(Holders \cap Gone) = 0
  BY <1>1, <1>5
<1>7. Cardinality(Holders) + Cardinality(Gone) <= Cardinality(File)
  BY <1>2, <1>3, <1>4, <1>6
<1> QED
  BY <1>2, <1>3, <1>5, <1>7

LEMMA CountFactsNext ==
    /\ (IsFiniteSet(Holders) /\ Cardinality(Holders) \in Nat)'
    /\ (IsFiniteSet(Gone) /\ Cardinality(Gone) \in Nat)'
    /\ (Cardinality(Holders) = 0 <=> Holders = {})'
    /\ (Cardinality(Gone) <= Cardinality(Opener))'
    /\ (Cardinality(Holders) + Cardinality(Gone) <= Cardinality(File))'
    /\ (Cardinality(File) \in Nat /\ Cardinality(Opener) \in Nat)'
  BY CountFacts, PTL

\* One file more that has the context, or that has been let go of, and one less.
LEMMA MoreFacts ==
    ASSUME NEW S, NEW T, NEW f, IsFiniteSet(S), T = S \cup {f}
    PROVE  Cardinality(T) = IF f \in S THEN Cardinality(S) ELSE Cardinality(S) + 1
  BY FS_AddElement

LEMMA LessFacts ==
    ASSUME NEW S, NEW T, NEW f, IsFiniteSet(S), T = S \ {f}
    PROVE  Cardinality(T) = IF f \in S THEN Cardinality(S) - 1 ELSE Cardinality(S)
  BY FS_RemoveElement

FileStep(f) ==
    \/ \E a \in {"attributes", "read", "write"} : OpenEnter(f, a)
    \/ TakeReference(f) \/ CheckOpen(f) \/ UndoOpen(f)
    \/ Cleanup(f) \/ EnterClose(f) \/ CloseFileTableEntry(f)

\* A handle moves on; the count follows it.
LEMMA TableCount ==
    ASSUME TypeOK, CountInv, ServerInv,
           CreateFileTableEntry \/ \E f \in File : FileStep(f) \/ CancelAll(f)
    PROVE  CountInv' /\ RefCount' \in Nat /\ leaked' \in Nat
<1> DEFINE H == Cardinality(Holders)
           G == Cardinality(Gone)
           State == {"none", "find", "check", "undo", "undoing", "open", "cancel", "close",
                     "closing", "gone"}
<1>1. /\ RefCount \in Nat /\ leaked \in Nat /\ handle \in [File -> State]
      /\ refNumber \in [File -> Nat]
  BY CountFacts DEF TypeOK
<1>2. /\ RefCount = H + leaked /\ leaked <= G /\ (exists <=> RefCount > 0)
      /\ handle[Server] \in {"none", "open", "cancel", "close", "closing", "gone"}
      /\ refNumber[Server] = 0
  BY DEF CountInv
<1>3. IsFiniteSet(Holders) /\ IsFiniteSet(Gone) /\ H \in Nat /\ G \in Nat
  BY CountFacts
\* What the steps have in common.
<1>4. ASSUME NEW f \in File, NEW to \in State,
             handle' = [handle EXCEPT ![f] = to],
             f = Server => to \notin {"find", "check", "undo", "undoing"}
      PROVE  /\ handle'[Server] \in {"none", "open", "cancel", "close", "closing", "gone"}
             /\ Holders' = IF to \in {"none", "find", "gone"} THEN Holders \ {f}
                           ELSE Holders \cup {f}
             /\ Gone' = IF to = "gone" /\ f \in Opener THEN Gone \cup {f} ELSE Gone \ {f}
             /\ f \in Holders <=> handle[f] \notin {"none", "find", "gone"}
             /\ f \in Gone <=> handle[f] = "gone" /\ f \in Opener
  <2>1. /\ handle'[f] = to /\ \A g \in File : g # f => handle'[g] = handle[g]
        /\ \A g \in File : handle[g] \in State
    BY <1>1, <1>4
  <2>2. Holders' = IF to \in {"none", "find", "gone"} THEN Holders \ {f} ELSE Holders \cup {f}
    BY <2>1 DEF Holders, Attached
  <2>3. Gone' = IF to = "gone" /\ f \in Opener THEN Gone \cup {f} ELSE Gone \ {f}
    BY <2>1, NameFacts DEF Gone
  <2>4. f \in Holders <=> handle[f] \notin {"none", "find", "gone"}
    BY <2>1 DEF Holders, Attached
  <2>5. f \in Gone <=> handle[f] = "gone" /\ f \in Opener
    BY DEF Gone
  <2>6. handle'[Server] \in {"none", "open", "cancel", "close", "closing", "gone"}
    BY <1>2, <1>4, <2>1, NameFacts
  <2> QED
    BY <2>2, <2>3, <2>4, <2>5, <2>6
<1>5. ASSUME NEW f \in File, NEW from \in State, NEW to \in State, handle[f] = from,
             handle' = [handle EXCEPT ![f] = to], from # "gone",
             f = Server => to \notin {"find", "check", "undo", "undoing"}
      PROVE  /\ handle'[Server] \in {"none", "open", "cancel", "close", "closing", "gone"}
             /\ Cardinality(Holders') =
                   IF from \in {"none", "find"} /\ to \notin {"none", "find", "gone"} THEN H + 1
                   ELSE IF from \notin {"none", "find"} /\ to \in {"none", "find", "gone"} THEN H - 1
                   ELSE H
             /\ Cardinality(Gone') = IF to = "gone" /\ f \in Opener THEN G + 1 ELSE G
  <2>1. /\ handle'[Server] \in {"none", "open", "cancel", "close", "closing", "gone"}
        /\ Holders' = IF to \in {"none", "find", "gone"} THEN Holders \ {f} ELSE Holders \cup {f}
        /\ Gone' = IF to = "gone" /\ f \in Opener THEN Gone \cup {f} ELSE Gone \ {f}
        /\ f \in Holders <=> from \notin {"none", "find", "gone"}
        /\ f \notin Gone
    BY <1>4, <1>5
  <2>2. Cardinality(Holders') =
           IF to \in {"none", "find", "gone"} THEN IF f \in Holders THEN H - 1 ELSE H
           ELSE IF f \in Holders THEN H ELSE H + 1
    BY <1>3, <2>1, MoreFacts, LessFacts
  <2>3. Cardinality(Gone') = IF to = "gone" /\ f \in Opener THEN G + 1 ELSE G
    BY <1>3, <2>1, MoreFacts, LessFacts
  <2> QED
    BY <1>5, <2>1, <2>2, <2>3
<1> HIDE DEF H, G
<1>6. CASE CreateFileTableEntry
  <2>1. /\ handle[Server] = "none" /\ ~exists /\ exists' = TRUE /\ RefCount' = 1 /\ leaked' = leaked
        /\ handle' = [handle EXCEPT ![Server] = "open"] /\ refNumber' = refNumber
    BY <1>6 DEF CreateFileTableEntry
  <2>2. /\ handle'[Server] \in {"none", "open", "cancel", "close", "closing", "gone"}
        /\ Cardinality(Holders') = H + 1 /\ Cardinality(Gone') = G
    BY <1>5, <2>1, NameFacts
  <2>3. RefCount = 0 /\ H = 0 /\ leaked = 0
    BY <1>1, <1>2, <1>3, <2>1
  <2> QED
    BY <1>1, <1>2, <1>3, <2>1, <2>2, <2>3 DEF CountInv
<1>7. ASSUME NEW f \in File, FileStep(f) \/ CancelAll(f)
      PROVE  CountInv' /\ RefCount' \in Nat /\ leaked' \in Nat
  <2>1. ASSUME NEW to \in State, handle' = [handle EXCEPT ![f] = to],
               handle[f] \notin {"gone", "none", "find"}, to \notin {"gone", "none", "find"},
               f = Server => to \notin {"find", "check", "undo", "undoing"},
               UNCHANGED <<RefCount, leaked, exists>>,
               \A g \in File : refNumber'[g] = refNumber[g] \/ refNumber'[g] = 0
        PROVE  CountInv' /\ RefCount' \in Nat /\ leaked' \in Nat
    <3>1. /\ handle'[Server] \in {"none", "open", "cancel", "close", "closing", "gone"}
          /\ Cardinality(Holders') = H /\ Cardinality(Gone') = G
      BY <1>1, <1>5, <2>1, ZenonT(60)
    <3> QED
      BY <1>1, <1>2, <2>1, <3>1, NameFacts DEF CountInv
  <2>2. ASSUME NEW a, OpenEnter(f, a) PROVE CountInv' /\ RefCount' \in Nat /\ leaked' \in Nat
    <3>1. /\ handle[f] = "none" /\ handle' = [handle EXCEPT ![f] = "find"] /\ f # Server
          /\ UNCHANGED <<RefCount, leaked, exists, refNumber>>
      BY <2>2, NameFacts DEF OpenEnter, LockTable
    <3>2. /\ handle'[Server] \in {"none", "open", "cancel", "close", "closing", "gone"}
          /\ Cardinality(Holders') = H /\ Cardinality(Gone') = G
      BY <1>5, <3>1
    <3> QED
      BY <1>1, <1>2, <3>1, <3>2 DEF CountInv
  <2>3. CASE TakeReference(f)
    <3>1. handle[f] = "find" /\ f # Server /\ UNCHANGED <<leaked, exists>>
      BY <1>2, <2>3 DEF TakeReference
    <3>2. CASE exists
      <4>1. /\ handle' = [handle EXCEPT ![f] = "check"] /\ RefCount' = RefCount + 1
            /\ refNumber'[Server] = refNumber[Server]
        BY <1>1, <2>3, <3>1, <3>2, NameFacts DEF TakeReference
      <4>2. /\ handle'[Server] \in {"none", "open", "cancel", "close", "closing", "gone"}
            /\ Cardinality(Holders') = H + 1 /\ Cardinality(Gone') = G
        BY <1>5, <3>1, <4>1
      <4> QED
        BY <1>1, <1>2, <1>3, <3>1, <3>2, <4>1, <4>2 DEF CountInv
    <3>3. CASE ~exists
      <4>1. handle' = [handle EXCEPT ![f] = "gone"] /\ UNCHANGED <<RefCount, refNumber>>
        BY <2>3, <3>3 DEF TakeReference
      <4>2. /\ handle'[Server] \in {"none", "open", "cancel", "close", "closing", "gone"}
            /\ Cardinality(Holders') = H /\ Cardinality(Gone') \in {G, G + 1}
        BY <1>5, <3>1, <4>1
      <4> QED
        BY <1>1, <1>2, <1>3, <3>1, <3>3, <4>1, <4>2 DEF CountInv
    <3> QED
      BY <3>2, <3>3
  <2>4. CASE CheckOpen(f)
    <3>1. handle[f] = "check" /\ f # Server
      BY <1>2, <2>4 DEF CheckOpen
    <3>2. /\ \/ handle' = [handle EXCEPT ![f] = "open"]
             \/ handle' = [handle EXCEPT ![f] = "undo"]
          /\ UNCHANGED <<RefCount, leaked, exists>>
          /\ \A g \in File : refNumber'[g] = refNumber[g] \/ refNumber'[g] = 0
      BY <1>1, <2>4 DEF CheckOpen
    <3> QED
      BY <2>1, <3>1, <3>2
  <2>5. CASE UndoOpen(f)
    <3>1. handle[f] = "undo" /\ f # Server /\ f \in Opener
          /\ UNCHANGED <<RefCount, exists, refNumber>>
      BY <1>2, <2>5, NameFacts DEF UndoOpen, LockTable
    <3>2. CASE handle' = [handle EXCEPT ![f] = "undoing"] /\ leaked' = leaked
      BY <2>1, <3>1, <3>2
    <3>3. CASE handle' = [handle EXCEPT ![f] = "gone"] /\ leaked' = leaked + 1
      <4>1. /\ handle'[Server] \in {"none", "open", "cancel", "close", "closing", "gone"}
            /\ Cardinality(Holders') = H - 1 /\ Cardinality(Gone') = G + 1
        BY <1>5, <3>1, <3>3
      <4> QED
        BY <1>1, <1>2, <1>3, <3>1, <3>3, <4>1 DEF CountInv
    <3> QED
      BY <2>5, <3>2, <3>3 DEF UndoOpen, LockTable
  <2>6. CASE Cleanup(f)
    <3>1. /\ handle[f] = "open"
          /\ \/ handle' = [handle EXCEPT ![f] = "cancel"]
             \/ handle' = [handle EXCEPT ![f] = "close"]
          /\ UNCHANGED <<RefCount, leaked, exists, refNumber>>
      BY <2>6 DEF Cleanup
    <3> QED
      BY <2>1, <3>1
  <2>7. CASE EnterClose(f)
    <3>1. /\ handle[f] = "close" /\ handle' = [handle EXCEPT ![f] = "closing"]
          /\ UNCHANGED <<RefCount, leaked, exists, refNumber>>
      BY <2>7 DEF EnterClose, LockTable
    <3> QED
      BY <2>1, <3>1
  <2>8. CASE CancelAll(f)
    <3>1. /\ handle[f] = "cancel" /\ handle' = [handle EXCEPT ![f] = "close"]
          /\ UNCHANGED <<RefCount, leaked, exists, refNumber>>
      BY <2>8 DEF CancelAll
    <3> QED
      BY <2>1, <3>1
  <2>9. CASE CloseFileTableEntry(f)
    <3>1. /\ handle[f] \in {"closing", "undoing"} /\ handle' = [handle EXCEPT ![f] = "gone"]
          /\ RefCount' = RefCount - 1 /\ exists' = (RefCount # 1)
          /\ UNCHANGED <<leaked, refNumber>>
      BY <2>9 DEF CloseFileTableEntry
    <3>2. /\ handle'[Server] \in {"none", "open", "cancel", "close", "closing", "gone"}
          /\ Cardinality(Holders') = H - 1 /\ Cardinality(Gone') \in {G, G + 1}
      BY <1>5, <3>1
    <3>3. H \in Nat \ {0}
      <4>1. Cardinality(Holders') \in Nat
        BY CountFactsNext
      <4> QED
        BY <1>3, <3>2, <4>1
    <3>4. RefCount' = (H - 1) + leaked' /\ RefCount' \in Nat
      BY <1>1, <1>2, <3>1, <3>3
    <3>5. exists' <=> RefCount' > 0
      <4>1. RefCount # 1 <=> RefCount' > 0
        BY <1>1, <1>2, <3>1, <3>3, <3>4
      <4> QED
        BY <3>1, <4>1, Zenon
    <3>6. leaked' <= Cardinality(Gone') /\ leaked' \in Nat
      BY <1>1, <1>2, <1>3, <3>1, <3>2
    <3>7. refNumber'[Server] = 0
      BY <1>2, <3>1
    <3> QED
      BY <3>2, <3>4, <3>5, <3>6, <3>7 DEF CountInv
  <2> QED
    BY <1>7, <2>2, <2>3, <2>4, <2>5, <2>6, <2>7, <2>8, <2>9 DEF FileStep
<1> QED
  BY <1>6, <1>7

LEMMA TableBounds ==
    CountInv /\ RefCount \in Nat /\ leaked \in Nat =>
       RefCount \in 0 .. Cardinality(File) /\ leaked \in 0 .. Cardinality(Opener)
  BY CountFacts DEF CountInv
LEMMA TableBoundsNext ==
    CountInv' /\ RefCount' \in Nat /\ leaked' \in Nat =>
       RefCount' \in 0 .. Cardinality(File) /\ leaked' \in 0 .. Cardinality(Opener)
<1>1. (RefCount \in Nat)' <=> RefCount' \in Nat
  OBVIOUS
<1>2. (CountInv /\ RefCount \in Nat /\ leaked \in Nat =>
         RefCount \in 0 .. Cardinality(File) /\ leaked \in 0 .. Cardinality(Opener))'
  BY TableBounds, PTL
<1> QED
  BY <1>2

LEMMA FileType ==
    ASSUME TypeOK, CountInv, ServerInv, CreateFileTableEntry \/ \E f \in File : FileStep(f)
    PROVE  TypeOK'
<1> USE DEF table, info, reqs, irps, cancel
<1>0. CountInv' /\ RefCount' \in 0 .. Cardinality(File) /\ leaked' \in 0 .. Cardinality(Opener)
  BY TableCount, TableBoundsNext
<1>1. Server \in File /\ None \notin File
  BY NameFacts
<1>2. CASE CreateFileTableEntry
  BY <1>0, <1>1, <1>2 DEF CreateFileTableEntry, TypeOK
<1>3. ASSUME NEW f \in File, FileStep(f) PROVE TypeOK'
  <2>1. ASSUME NEW a \in {"attributes", "read", "write"}, OpenEnter(f, a) PROVE TypeOK'
    BY <1>0, <2>1 DEF OpenEnter, LockTable, TypeOK
  <2>2. CASE TakeReference(f)
    <3>1. refNumber' \in [File -> 0 .. Cardinality(File)]
      <4>1. CASE exists
        <5>1. RefCount' = RefCount + 1 /\ refNumber' = [refNumber EXCEPT ![f] = RefCount + 1]
          BY <2>2, <4>1 DEF TakeReference
        <5>2. refNumber' = [refNumber EXCEPT ![f] = RefCount']
          BY <5>1
        <5> QED
          BY <1>0, <5>2 DEF TypeOK
      <4>2. CASE ~exists
        BY <2>2, <4>2 DEF TakeReference, TypeOK
      <4> QED
        BY <4>1, <4>2
    <3> QED
      BY <1>0, <2>2, <3>1, ZenonT(60) DEF TakeReference, TypeOK
  <2>3. CASE CheckOpen(f)
    <3>1. 0 \in 0 .. Cardinality(File)
      BY CountFacts
    <3> QED
      BY <1>0, <2>3, <3>1 DEF CheckOpen, TypeOK
  <2>4. CASE UndoOpen(f)
    BY <1>0, <2>4, ZenonT(60) DEF UndoOpen, LockTable, TypeOK
  <2>5. CASE Cleanup(f)
    BY <1>0, <2>5, ZenonT(60) DEF Cleanup, TypeOK
  <2>6. CASE EnterClose(f)
    BY <1>0, <2>6 DEF EnterClose, LockTable, TypeOK
  <2>7. CASE CloseFileTableEntry(f)
    BY <1>0, <2>7 DEF CloseFileTableEntry, TypeOK
  <2> QED
    BY <1>3, <2>1, <2>2, <2>3, <2>4, <2>5, <2>6, <2>7 DEF FileStep
<1> QED
  BY <1>2, <1>3

\* Nobody becomes the client beside another one while the server has the context.
LEMMA FileServer ==
    ASSUME TypeOK, CountInv, ServerInv,
           CreateFileTableEntry \/ \E f \in File : FileStep(f) \/ CancelAll(f)
    PROVE  /\ handle'[Server] = "none" => RefCount' = 0 /\ server' = None
           /\ handle'[Server] = "none" => handle[Server] = "none"
           /\ server' = Server => /\ handle'[Server] = "open"
                                  /\ server = Server \/ handle[Server] = "none"
           /\ \A f \in File : handle'[f] = "cancel" => server' = None
           /\ Attached(Server)' => \A f, g \in File : Client(f)' /\ Client(g)' => f = g
<1>1. /\ handle[Server] \in {"none", "open", "cancel", "close", "closing", "gone"}
      /\ RefCount = Cardinality(Holders) + leaked /\ (exists <=> RefCount > 0)
      /\ refNumber[Server] = 0
  BY DEF CountInv
<1>2. /\ handle[Server] = "none" => RefCount = 0 /\ server = None
      /\ server = Server => handle[Server] = "open"
      /\ \A f \in File : handle[f] = "cancel" => server = None
      /\ Attached(Server) => \A f, g \in File : Client(f) /\ Client(g) => f = g
  BY DEF ServerInv
<1>3. /\ IsFiniteSet(Holders) /\ (Cardinality(Holders) = 0 <=> Holders = {})
      /\ Cardinality(Holders) \in Nat /\ leaked \in Nat /\ RefCount \in Nat
  BY CountFacts DEF TypeOK
<1>4. /\ handle \in [File -> {"none", "find", "check", "undo", "undoing", "open", "cancel",
                              "close", "closing", "gone"}]
      /\ access \in [File -> {"none", "attributes", "read", "write"}]
      /\ refNumber \in [File -> 0 .. Cardinality(File)] /\ server \in {Server, None}
      /\ Server \in File /\ Server # None
  BY NameFacts DEF TypeOK
<1>5. CASE CreateFileTableEntry
  <2>1. /\ handle[Server] = "none" /\ handle' = [handle EXCEPT ![Server] = "open"]
        /\ server' = Server /\ RefCount' = 1
        /\ access' = [access EXCEPT ![Server] = "write"] /\ refNumber' = refNumber
    BY <1>5 DEF CreateFileTableEntry
  <2>2. Holders = {}
    BY <1>1, <1>2, <1>3, <2>1
  <2>3. \A f \in File : ~Attached(f)
    BY <2>2 DEF Holders
  <2>4. \A f \in File : f # Server => ~Client(f)' /\ handle'[f] # "cancel"
    BY <1>4, <2>1, <2>3 DEF Client, Attached
  <2>5. handle'[Server] = "open"
    BY <1>4, <2>1
  <2> QED
    BY <2>1, <2>4, <2>5
<1>6. ASSUME NEW f \in File, FileStep(f) \/ CancelAll(f)
      PROVE  /\ handle'[Server] = "none" => RefCount' = 0 /\ server' = None
             /\ handle'[Server] = "none" => handle[Server] = "none"
             /\ server' = Server => handle'[Server] = "open" /\ server = Server
             /\ \A e \in File : handle'[e] = "cancel" => server' = None
             /\ Attached(Server)' => \A e, g \in File : Client(e)' /\ Client(g)' => e = g
  \* A file object that is, or becomes, no client.
  <2>1. ASSUME NEW to, handle' = [handle EXCEPT ![f] = to], handle[f] \notin {"none", "gone"},
               handle[f] = "find" => f # Server, handle[f] = "undo" => f # Server,
               server' = server \/ server' = None,
               to # "none", to = "cancel" => server' = None,
               f = Server => server' = None \/ server # Server
        PROVE  /\ handle'[Server] = "none" => handle[Server] = "none"
               /\ server' = Server => handle'[Server] = "open" /\ server = Server
               /\ \A e \in File : handle'[e] = "cancel" => server' = None
    BY <1>2, <1>4, <2>1
  <2>2. ASSUME \A e \in File : Client(e)' => Client(e), Attached(Server)' => Attached(Server)
        PROVE  Attached(Server)' => \A e, g \in File : Client(e)' /\ Client(g)' => e = g
    BY <1>2, <2>2
  <2>3. ASSUME NEW to, handle' = [handle EXCEPT ![f] = to],
               \A e \in File : e # f => access'[e] = access[e] /\ refNumber'[e] = refNumber[e],
               to \in {"find", "undo", "undoing", "cancel", "close", "closing", "gone"},
               f = Server => handle[f] \notin {"none", "find", "gone"}
        PROVE  Attached(Server)' => \A e, g \in File : Client(e)' /\ Client(g)' => e = g
    <3>1. \A e \in File : Client(e)' => Client(e)
      BY <1>4, <2>3 DEF Client
    <3>2. Attached(Server)' => Attached(Server)
      BY <1>4, <2>3 DEF Attached
    <3> QED
      BY <2>2, <3>1, <3>2
  <2>4. ASSUME NEW a, OpenEnter(f, a)
        PROVE  /\ handle'[Server] = "none" => RefCount' = 0 /\ server' = None
               /\ handle'[Server] = "none" => handle[Server] = "none"
               /\ server' = Server => handle'[Server] = "open" /\ server = Server
               /\ \A e \in File : handle'[e] = "cancel" => server' = None
               /\ Attached(Server)' => \A e, g \in File : Client(e)' /\ Client(g)' => e = g
    <3>1. /\ f # Server /\ handle[f] = "none" /\ handle' = [handle EXCEPT ![f] = "find"]
          /\ access' = [access EXCEPT ![f] = a] /\ UNCHANGED <<RefCount, server, refNumber>>
      BY <2>4, NameFacts DEF OpenEnter, LockTable
    <3>2. Attached(Server)' => \A e, g \in File : Client(e)' /\ Client(g)' => e = g
      BY <1>4, <2>3, <3>1
    <3> QED
      BY <1>2, <1>4, <3>1, <3>2
  <2>5. CASE TakeReference(f)
    <3>1. /\ f # Server /\ handle[f] = "find"
          /\ exists => UNCHANGED <<access, server>>
      BY <1>1, <2>5 DEF TakeReference
    <3>2. CASE exists
      <4>1. /\ handle[Server] # "none" /\ handle' = [handle EXCEPT ![f] = "check"]
            /\ refNumber' = [refNumber EXCEPT ![f] = RefCount + 1]
            /\ UNCHANGED <<access, server>>
            /\ f # Server /\ handle[f] = "find"
        BY <1>1, <1>2, <2>5, <3>2 DEF TakeReference
      <4>2. /\ handle'[Server] = handle[Server]
            /\ \A e \in File : handle'[e] = "cancel" => server' = None
        BY <1>2, <1>4, <4>1
      <4>3. ASSUME Attached(Server), NEW g \in File, Client(g) PROVE RefCount # 1
        <5>1. Server \in Holders /\ g \in Holders /\ g # Server
          BY <1>4, <4>3 DEF Holders, Client, Attached
        <5>2. Cardinality(Holders) # 1
          BY <1>3, <5>1, FS_Singleton
        <5>3. Cardinality(Holders) # 0
          BY <1>3, <5>1
        <5> QED
          BY <1>1, <1>3, <5>2, <5>3
      <4>4. \A e \in File : e # f => (Client(e)' <=> Client(e))
        BY <1>4, <4>1 DEF Client
      <4>5. Client(f)' => RefCount = 1
        BY <1>3, <1>4, <4>1 DEF Client
      <4>6. Attached(Server)' <=> Attached(Server)
        BY <4>2 DEF Attached
      <4> QED
        BY <1>2, <4>1, <4>2, <4>3, <4>4, <4>5, <4>6
    <3>3. CASE ~exists
      <4>1. /\ handle' = [handle EXCEPT ![f] = "gone"] /\ f # Server /\ handle[f] = "find"
            /\ access' = [access EXCEPT ![f] = "none"] /\ UNCHANGED <<RefCount, server, refNumber>>
        BY <1>1, <2>5, <3>3 DEF TakeReference
      <4>2. Attached(Server)' => \A e, g \in File : Client(e)' /\ Client(g)' => e = g
        BY <1>4, <2>3, <4>1
      <4> QED
        BY <1>2, <1>4, <4>1, <4>2
    <3> QED
      BY <3>2, <3>3
  <2>6. CASE CheckOpen(f)
    <3>1. /\ f # Server /\ handle[f] = "check" /\ UNCHANGED <<RefCount, server>>
          /\ handle' = [handle EXCEPT ![f] = IF MayOpen(f) THEN "open" ELSE "undo"]
          /\ access' = [access EXCEPT ![f] = IF MayOpen(f) THEN access[f] ELSE "none"]
          /\ refNumber' = [refNumber EXCEPT ![f] = 0]
      BY <1>1, <2>6 DEF CheckOpen
    <3>2. Client(f)' => Client(f)
      BY <1>4, <3>1 DEF Client, MayOpen
    <3>3. \A e \in File : e # f => (Client(e)' <=> Client(e))
      BY <1>4, <3>1 DEF Client
    <3>4. handle'[Server] = handle[Server] /\ \A e \in File : handle'[e] = "cancel" => e # f
      BY <1>4, <3>1
    <3>5. Attached(Server)' => Attached(Server)
      BY <3>4 DEF Attached
    <3>6. Attached(Server)' => \A e, g \in File : Client(e)' /\ Client(g)' => e = g
      BY <2>2, <3>2, <3>3, <3>5
    <3> QED
      BY <1>2, <1>4, <3>1, <3>4, <3>6
  <2>7. CASE UndoOpen(f)
    <3>1. /\ f # Server /\ handle[f] = "undo" /\ UNCHANGED <<RefCount, server, access, refNumber>>
          /\ \/ handle' = [handle EXCEPT ![f] = "undoing"]
             \/ handle' = [handle EXCEPT ![f] = "gone"]
      BY <1>1, <2>7 DEF UndoOpen, LockTable
    <3>2. Attached(Server)' => \A e, g \in File : Client(e)' /\ Client(g)' => e = g
      BY <1>4, <2>3, <3>1
    <3> QED
      BY <1>2, <1>4, <3>1, <3>2
  <2>8. CASE Cleanup(f)
    <3>1. /\ handle[f] = "open" /\ UNCHANGED <<RefCount, access, refNumber>>
          /\ \/ handle' = [handle EXCEPT ![f] = "cancel"] /\ server' = None
             \/ handle' = [handle EXCEPT ![f] = "close"] /\ server' = server /\ f # server
      BY <2>8 DEF Cleanup
    <3>2. Attached(Server)' => \A e, g \in File : Client(e)' /\ Client(g)' => e = g
      BY <1>4, <2>3, <3>1
    <3> QED
      BY <1>2, <1>4, <3>1, <3>2
  <2>9. CASE EnterClose(f)
    <3>1. /\ handle[f] = "close" /\ UNCHANGED <<RefCount, server, access, refNumber>>
          /\ handle' = [handle EXCEPT ![f] = "closing"]
      BY <2>9 DEF EnterClose, LockTable
    <3>2. Attached(Server)' => \A e, g \in File : Client(e)' /\ Client(g)' => e = g
      BY <1>4, <2>3, <3>1
    <3> QED
      BY <1>2, <1>4, <3>1, <3>2
  <2>10. CASE CancelAll(f)
    <3>1. /\ handle[f] = "cancel" /\ UNCHANGED <<RefCount, server, access, refNumber>>
          /\ handle' = [handle EXCEPT ![f] = "close"]
      BY <2>10 DEF CancelAll
    <3>2. Attached(Server)' => \A e, g \in File : Client(e)' /\ Client(g)' => e = g
      BY <1>4, <2>3, <3>1
    <3> QED
      BY <1>2, <1>4, <3>1, <3>2
  <2>11. CASE CloseFileTableEntry(f)
    <3>1. /\ handle[f] \in {"closing", "undoing"} /\ UNCHANGED refNumber
          /\ handle' = [handle EXCEPT ![f] = "gone"] /\ access' = [access EXCEPT ![f] = "none"]
          /\ server' = (IF f = server THEN None ELSE server) /\ RefCount' = RefCount - 1
      BY <2>11 DEF CloseFileTableEntry
    <3>2. Attached(Server)' => \A e, g \in File : Client(e)' /\ Client(g)' => e = g
      BY <1>4, <2>3, <3>1
    <3>3. handle'[Server] # "none"
      <4>1. f \in Holders
        BY <3>1 DEF Holders, Attached
      <4>2. RefCount # 0
        BY <1>1, <1>3, <4>1
      <4> QED
        BY <1>2, <1>4, <3>1, <4>2
    <3> QED
      BY <1>2, <1>4, <3>1, <3>2, <3>3
  <2> QED
    BY <1>6, <2>4, <2>5, <2>6, <2>7, <2>8, <2>9, <2>10, <2>11 DEF FileStep
<1> QED
  BY <1>5, <1>6
-----------------------------------------------------------------------------
(* Types. *)

OtherStep ==
    \/ \E f \in File : CancelAll(f)
    \/ Kill \/ \E i \in IRP : IoCancelIrp(i) \/ ServerIrpCancelRoutine(i)
    \/ \E r \in Req : DispatchClientRequest(r) \/ \E f \in Opener : Issue(r, f)
    \/ \E w \in Worker : Forward(w) \/ InKernel(w) \/ InServer(w)

Xpc == {"out", "ready", "serve", "grow", "stop", "reserve", "lookup", "answer", "ask", "queued",
        "taken", "insert", "putback", "deliver", "complete"}
Rpc == {"none", "lock", "received", "send", "sent", "answer", "done"}
Message == [tag : Addr \cup {None}, code : Code, about : Req \cup {None}]

ReqType == /\ rpc \in [Req -> Rpc] /\ origin \in [Req -> File \cup {None}]
           /\ entry \in [Req -> Addr \cup {None}] /\ result \in [Req -> Req \cup {"none", "failed"}]
ListType == /\ received \in Seq(Req) /\ sent \in Seq(Req)
            /\ requests \in Seq(Worker) /\ memory \in Seq(Worker)
IrpType == xpc \in [Worker -> Xpc] /\ mpc \in [Worker -> {"none", "listed", "held"}]
BufType == /\ target \in [Worker -> Req \cup {None}] /\ buffer \in [Worker -> Message]
           /\ large \in [Worker -> BOOLEAN]
StopType == /\ cancelled \in SUBSET IRP /\ armed \in SUBSET IRP /\ firing \in SUBSET IRP
            /\ killed \in BOOLEAN /\ undefined \in BOOLEAN
TableType ==
    /\ tableLock \in File \cup {None} /\ exists \in BOOLEAN
    /\ RefCount \in 0 .. Cardinality(File)
    /\ server \in {Server, None} /\ client \in File \cup {None}
    /\ known \in BOOLEAN /\ flags \in SUBSET {"ro", "keep_open"}
    /\ handle \in [File -> {"none", "find", "check", "undo", "undoing", "open", "cancel",
                            "close", "closing", "gone"}]
    /\ access \in [File -> {"none", "attributes", "read", "write"}]
    /\ refNumber \in [File -> 0 .. Cardinality(File)]
    /\ leaked \in 0 .. Cardinality(Opener)

LEMMA Types == TypeOK <=> TableType /\ ReqType /\ ListType /\ IrpType /\ BufType /\ StopType
  BY DEF TypeOK, TableType, ReqType, ListType, IrpType, BufType, StopType, Xpc, Rpc, Message
LEMMA TypesNext ==
    TypeOK' <=> TableType' /\ ReqType' /\ ListType' /\ IrpType' /\ BufType' /\ StopType'
  BY Types, PTL

LEMMA FillType ==
    ASSUME ReqType, IrpType, BufType, NEW w \in Worker, NEW r \in Req, Fill(w, r)
    PROVE  xpc' \in [Worker -> Xpc] /\ buffer' \in [Worker -> Message]
<1>1. entry[r] \in Addr \cup {None} /\ "request" \in Code
  BY DEF ReqType, Code
<1>2. xpc' \in [Worker -> Xpc]
  BY DEF Fill, IrpType, Xpc
<1>3. CASE buffer' = [buffer EXCEPT ![w].tag = entry[r]]
  BY <1>1, <1>2, <1>3 DEF BufType, Message
<1>4. CASE buffer' = [buffer EXCEPT ![w] = [tag |-> entry[r], code |-> "request", about |-> r]]
  BY <1>1, <1>2, <1>4 DEF BufType, Message
<1> QED
  BY <1>3, <1>4 DEF Fill

LEMMA OtherType ==
    ASSUME TypeOK, PlaceInv, TagInv, OtherStep
    PROVE  TypeOK'
<1> USE DEF table, info, reqs, irps, cancel
<1>0. /\ \A w \in Worker : X(w) \in IRP /\ M(w) \in IRP
      /\ \A i \in IRP : i[1] \in Worker
  BY DEF IRP, X, M
<1>1. \A w \in Worker : /\ Holding(w) => target[w] \in Req
                        /\ xpc[w] = "answer" /\ buffer[w].code = "ok" => buffer[w].about = target[w]
  BY DEF PlaceInv, TagInv
<1>2. TableType /\ ReqType /\ ListType /\ IrpType /\ BufType /\ StopType
  BY Types
<1>3. ASSUME NEW f \in File, CancelAll(f) PROVE TypeOK'
  <2>1. TableType' /\ StopType'
    BY <1>2, <1>3 DEF CancelAll, TableType, StopType
  <2>2. ListType'
    <3>1. <<>> \in Seq(Req) /\ <<>> \in Seq(Worker)
      OBVIOUS
    <3> QED
      BY <1>3, <3>1 DEF CancelAll, ListType
  <2>3. BufType'
    <3>1. "close" \in Code
      BY DEF Code
    <3>2. \A w \in Worker : buffer[w] \in Message
      BY <1>2 DEF BufType
    <3>3. \A w \in Worker : [buffer[w] EXCEPT !.tag = None, !.code = "close"] \in Message
      BY <3>1, <3>2 DEF Message
    <3>4. buffer' \in [Worker -> Message]
      BY <1>3, <3>2, <3>3 DEF CancelAll
    <3> QED
      BY <1>2, <1>3, <3>4 DEF CancelAll, BufType
  <2>4. ReqType' /\ IrpType'
    BY <1>2, <1>3 DEF CancelAll, ReqType, IrpType, Rpc, Xpc
  <2> QED
    BY <2>1, <2>2, <2>3, <2>4, TypesNext
<1>4. CASE Kill
  BY <1>4 DEF Kill, TypeOK
<1>5. ASSUME NEW i \in IRP, IoCancelIrp(i) PROVE TypeOK'
  BY <1>5 DEF IoCancelIrp, TypeOK
<1>6. ASSUME NEW i \in IRP, ServerIrpCancelRoutine(i) PROVE TypeOK'
  <2>1. Without(requests, i[1]) \in Seq(Worker) /\ Without(memory, i[1]) \in Seq(Worker)
    BY <1>2, WithoutFacts DEF ListType
  <2>2. ListType'
    BY <1>2, <1>6, <2>1 DEF ServerIrpCancelRoutine, ListType
  <2>3. IrpType'
    BY <1>2, <1>6 DEF ServerIrpCancelRoutine, IrpType, Xpc
  <2>4. undefined' \in BOOLEAN
    BY <1>6 DEF ServerIrpCancelRoutine, Pending
  <2>5. TableType' /\ ReqType' /\ BufType' /\ StopType'
    BY <1>2, <1>6, <2>4 DEF ServerIrpCancelRoutine, TableType, ReqType, BufType, StopType
  <2> QED
    BY <2>2, <2>3, <2>5, TypesNext
<1>7. ASSUME NEW r \in Req, NEW f \in Opener, Issue(r, f) PROVE TypeOK'
  <2>1. f \in File
    BY NameFacts
  <2>2. ReqType'
    <3>1. CASE rpc' = [rpc EXCEPT ![r] = "done"]
      BY <1>2, <1>7, <2>1, <3>1 DEF Issue, ReqType, Rpc
    <3>2. CASE ~(rpc' = [rpc EXCEPT ![r] = "done"])
      <4>1. /\ rpc' = [rpc EXCEPT ![r] = "lock"] /\ origin' = [origin EXCEPT ![r] = f]
            /\ result' = result
        BY <1>7, <3>2 DEF Issue
      <4>2. PICK a \in Addr : entry' = [entry EXCEPT ![r] = a]
        BY <1>7, <3>2 DEF Issue
      <4> QED
        BY <1>2, <2>1, <4>1, <4>2 DEF ReqType, Rpc
    <3> QED
      BY <3>1, <3>2
  <2>3. TableType' /\ ListType' /\ IrpType' /\ BufType' /\ StopType'
    BY <1>2, <1>7 DEF Issue, TableType, ListType, IrpType, BufType, StopType
  <2> QED
    BY <2>2, <2>3, TypesNext
<1>8. ASSUME NEW r \in Req, DispatchClientRequest(r) PROVE TypeOK'
  <2>1. Append(received, r) \in Seq(Req) /\ <<>> \in Seq(Worker)
    BY <1>2, AppendFacts DEF ListType
  <2>2. \A i \in DOMAIN requests : /\ requests[i] \in Worker
                                   /\ SubSeq(requests, i + 1, Len(requests)) \in Seq(Worker)
    BY <1>2, BehindFacts DEF ListType
  <2>3. /\ TableType' /\ UNCHANGED <<origin, sent, mpc, memory, buffer, large, cancelled, firing,
                                     killed, undefined>>
    BY <1>2, <1>8 DEF DispatchClientRequest, TableType
  <2>4. CASE Completing(r, "failed") /\ UNCHANGED <<received, xpc, requests, target, armed>>
    BY <1>2, <2>3, <2>4, TypesNext DEF Completing, ReqType, ListType, IrpType, BufType, StopType, Rpc
  <2>5. CASE /\ requests' = <<>> /\ received' = Append(received, r)
             /\ rpc' = [rpc EXCEPT ![r] = "received"]
             /\ UNCHANGED <<entry, result, xpc, target, armed>>
    BY <1>2, <2>1, <2>3, <2>5, TypesNext DEF ReqType, ListType, IrpType, BufType, StopType, Rpc
  <2>6. ASSUME NEW i \in DOMAIN requests,
               requests' = SubSeq(requests, i + 1, Len(requests)),
               xpc' = [xpc EXCEPT ![requests[i]] = "taken"],
               target' = [target EXCEPT ![requests[i]] = r],
               armed' = armed \ {X(requests[i])},
               rpc' = [rpc EXCEPT ![r] = "send"], UNCHANGED <<entry, result, received>>
        PROVE  TypeOK'
    <3>1. requests[i] \in Worker /\ requests' \in Seq(Worker)
      BY <2>2, <2>6
    <3> QED
      BY <1>2, <2>3, <2>6, <3>1, TypesNext
      DEF ReqType, ListType, IrpType, BufType, StopType, Rpc, Xpc
  <2> QED
    BY <1>8, <2>4, <2>5, <2>6 DEF DispatchClientRequest
<1>9. ASSUME NEW w \in Worker, Forward(w) PROVE TypeOK'
  <2>1. CASE SendFromClient(w)
    <3>1. target[w] \in Req
      BY <1>1, <2>1 DEF SendFromClient, Holding
    <3>2. Without(memory, w) \in Seq(Worker) /\ "request" \in Code
      BY <1>2, WithoutFacts DEF ListType, Code
    <3>3. TableType' /\ UNCHANGED <<origin, received, sent, requests, target, large, cancelled,
                                    firing, killed, undefined>>
      BY <1>2, <2>1 DEF SendFromClient, TableType
    <3>4. CASE Reservable(w)
      <4>1. UNCHANGED <<rpc, result, entry>> /\ memory' = Without(memory, w)
            /\ mpc' = [mpc EXCEPT ![w] = "held"] /\ armed' = armed \ {M(w)}
        BY <2>1, <3>4 DEF SendFromClient, Reserve
      <4>2. xpc' \in [Worker -> Xpc] /\ buffer' \in [Worker -> Message]
        BY <1>2, <2>1, <3>1, <3>4, FillType DEF SendFromClient
      <4> QED
        BY <1>2, <3>2, <3>3, <4>1, <4>2, TypesNext
        DEF ReqType, ListType, IrpType, BufType, StopType
    <3>5. CASE ~Reservable(w)
      BY <1>2, <2>1, <3>1, <3>3, <3>5, TypesNext
      DEF SendFromClient, Completing, ReqType, ListType, IrpType, BufType, StopType, Rpc, Xpc
    <3> QED
      BY <3>4, <3>5
  <2>2. CASE InsertSent(w)
    <3>1. target[w] \in Req
      BY <1>1, <2>2 DEF InsertSent, Holding
    <3>2. Append(sent, target[w]) \in Seq(Req)
      BY <3>1, AppendFacts DEF TypeOK
    <3> QED
      BY <2>2, <3>1, <3>2 DEF InsertSent, TypeOK
  <2>3. CASE PutBack(w)
    <3>1. target[w] \in Req
      BY <1>1, <2>3 DEF PutBack, Holding
    <3>2. <<target[w]>> \o received \in Seq(Req)
      BY <3>1, FrontFacts DEF TypeOK
    <3> QED
      BY <2>3, <3>1, <3>2 DEF PutBack, TypeOK
  <2>4. CASE Deliver(w)
    <3>1. Append(memory, w) \in Seq(Worker)
      BY AppendFacts DEF TypeOK
    <3> QED
      BY <1>0, <2>4, <3>1 DEF Deliver, QueueMemoryIrp, TypeOK
  <2>5. CASE CompleteExchange(w)
    BY <2>5 DEF CompleteExchange, TypeOK
  <2> QED
    BY <1>9, <2>1, <2>2, <2>3, <2>4, <2>5 DEF Forward
<1>10. ASSUME NEW w \in Worker, InKernel(w) PROVE TypeOK'
  <2>1. CASE ReserveOwn(w)
    <3>1. Without(memory, w) \in Seq(Worker)
      BY <1>2, WithoutFacts DEF ListType
    <3>2. /\ known' \in BOOLEAN /\ flags' \in SUBSET {"ro", "keep_open"}
          /\ UNCHANGED <<reqs, requests, target, buffer, large, table, server, killed, cancelled,
                         firing, undefined>>
      BY <1>2, <2>1 DEF ReserveOwn, TableType
    <3>3. /\ TableType' /\ ReqType' /\ BufType'
      BY <1>2, <3>2 DEF TableType, ReqType, BufType
    <3>4. ListType' /\ IrpType' /\ StopType'
      BY <1>2, <2>1, <3>1, <3>2 DEF ReserveOwn, Reserve, ListType, IrpType, StopType, Xpc
    <3> QED
      BY <3>3, <3>4, TypesNext
  <2>2. CASE GetSentClientRequest(w)
    <3>1. /\ UNCHANGED <<origin, entry, result, received, mpc, requests, memory, buffer, large,
                         table, server, info, cancel>>
      BY <2>2 DEF GetSentClientRequest
    <3>2. CASE \E i \in DOMAIN sent : entry[sent[i]] = buffer[w].tag
      <4>1. PICK r \in Req : /\ sent' = Without(sent, r) /\ rpc' = [rpc EXCEPT ![r] = "answer"]
                             /\ target' = [target EXCEPT ![w] = r]
                             /\ xpc' = [xpc EXCEPT ![w] = "answer"]
        <5> DEFINE r == CHOOSE r \in Range(sent) : entry[r] = buffer[w].tag
        <5>1. \A i \in DOMAIN sent : sent[i] \in Range(sent) /\ sent[i] \in Req
          BY <1>2 DEF ListType, Range
        <5>2. \E q \in Range(sent) : entry[q] = buffer[w].tag
          BY <3>2, <5>1
        <5>3. r \in Range(sent)
          BY <5>2
        <5>4. r \in Req
          BY <5>1, <5>3 DEF Range
        <5> QED
          BY <2>2, <3>2, <5>4 DEF GetSentClientRequest
      <4>2. sent' \in Seq(Req)
        BY <1>2, <4>1, WithoutFacts DEF ListType
      <4> QED
        BY <1>2, <3>1, <4>1, <4>2, TypesNext
        DEF TableType, ReqType, ListType, IrpType, BufType, StopType, Xpc, Rpc
    <3>3. CASE ~\E i \in DOMAIN sent : entry[sent[i]] = buffer[w].tag
      <4>1. xpc' = [xpc EXCEPT ![w] = "stop"] /\ UNCHANGED <<sent, rpc, target>>
        BY <2>2, <3>3 DEF GetSentClientRequest
      <4> QED
        BY <1>2, <3>1, <4>1, TypesNext
        DEF TableType, ReqType, ListType, IrpType, BufType, StopType, Xpc
    <3> QED
      BY <3>2, <3>3
  <2>3. CASE AnswerClient(w)
    <3>1. target[w] \in Req /\ xpc[w] = "answer"
      BY <1>1, <2>3 DEF AnswerClient, Holding
    <3>2. (IF buffer[w].code = "ok" THEN buffer[w].about ELSE "failed") \in Req \cup {"none", "failed"}
      BY <1>1, <3>1
    <3>3. ReqType'
      BY <1>2, <2>3, <3>1, <3>2 DEF AnswerClient, Completing, ReqType, Rpc
    <3>4. IrpType'
      BY <1>2, <2>3 DEF AnswerClient, IrpType, Xpc
    <3>5. TableType' /\ ListType' /\ BufType' /\ StopType'
      BY <1>2, <2>3 DEF AnswerClient, TableType, ListType, BufType, StopType
    <3> QED
      BY <3>3, <3>4, <3>5, TypesNext
  <2>4. CASE Ask(w)
    <3>1. /\ Append(memory, w) \in Seq(Worker) /\ Append(requests, w) \in Seq(Worker)
      BY <1>2, AppendFacts DEF ListType
    <3>2. /\ TableType'
          /\ UNCHANGED <<origin, entry, result, sent, large, killed, cancelled, firing, undefined>>
      BY <1>2, <2>4 DEF Ask, TableType
    <3>3. CASE received = <<>>
      <4>1. /\ memory' = Append(memory, w) /\ mpc' = [mpc EXCEPT ![w] = "listed"]
            /\ requests' = Append(requests, w) /\ xpc' = [xpc EXCEPT ![w] = "queued"]
            /\ armed' = armed \cup {X(w), M(w)} /\ UNCHANGED <<received, rpc, target, buffer>>
        BY <2>4, <3>3 DEF Ask, QueueMemoryIrp
      <4> QED
        BY <1>0, <1>2, <3>1, <3>2, <4>1, TypesNext
        DEF ReqType, ListType, IrpType, BufType, StopType, Xpc
    <3>4. CASE received # <<>>
      <4>1. Head(received) \in Req /\ Tail(received) \in Seq(Req) /\ "request" \in Code
        BY <1>2, <3>4, TailFacts DEF ListType, Code
      <4>2. /\ received' = Tail(received) /\ rpc' = [rpc EXCEPT ![Head(received)] = "send"]
            /\ target' = [target EXCEPT ![w] = Head(received)]
            /\ Fill(w, Head(received)) /\ UNCHANGED <<memory, mpc, requests, armed>>
        BY <2>4, <3>4 DEF Ask
      <4>3. xpc' \in [Worker -> Xpc] /\ buffer' \in [Worker -> Message]
        BY <1>2, <4>1, <4>2, FillType
      <4> QED
        BY <1>2, <3>2, <4>1, <4>2, <4>3, TypesNext
        DEF ReqType, ListType, IrpType, BufType, StopType, Rpc
    <3> QED
      BY <3>3, <3>4
  <2>5. CASE QueueMemoryLate(w)
    <3>1. Append(memory, w) \in Seq(Worker)
      BY AppendFacts DEF TypeOK
    <3> QED
      BY <1>0, <2>5, <3>1 DEF QueueMemoryLate, QueueMemoryIrp, TypeOK
  <2> QED
    BY <1>10, <2>1, <2>2, <2>3, <2>4, <2>5 DEF InKernel
<1>11. ASSUME NEW w \in Worker, InServer(w) PROVE TypeOK'
  <2>1. ASSUME NEW first \in BOOLEAN, LockMemory(w, first) PROVE TypeOK'
    <3>1. Append(memory, w) \in Seq(Worker) /\ {"info", "null"} \subseteq Code
      BY AppendFacts DEF TypeOK, Code
    <3> QED
      BY <1>0, <2>1, <3>1 DEF LockMemory, AllocDrvBuffer, NoMessage, QueueMemoryIrp, TypeOK
  <2>2. CASE Exchange(w)
    BY <2>2 DEF Exchange, TypeOK
  <2>3. CASE Refused(w)
    BY <2>3 DEF Refused, TypeOK
  <2>4. CASE Serve(w)
    <3>1. xpc' \in [Worker -> Xpc]
      BY <1>2, <2>4 DEF Serve, IrpType, Xpc
    <3>2. ASSUME NEW c \in {"ok", "error", "bad"}, buffer' = [buffer EXCEPT ![w].code = c]
          PROVE  buffer' \in [Worker -> Message]
      BY <1>2, <3>2 DEF BufType, Message, Code
    <3>3. buffer' \in [Worker -> Message]
      BY <1>2, <2>4, <3>2 DEF Serve, BufType
    <3> QED
      BY <1>2, <2>4, <3>1, <3>3, TypesNext
      DEF Serve, TableType, ReqType, ListType, IrpType, BufType, StopType
  <2> QED
    BY <1>11, <2>1, <2>2, <2>3, <2>4 DEF InServer
<1> QED
  BY <1>3, <1>4, <1>5, <1>6, <1>7, <1>8, <1>9, <1>10, <1>11 DEF OtherStep
-----------------------------------------------------------------------------
(* The steps of the invariant. *)

\* The table changes in its own steps only, and a thread leaves the place it starts from only
\* when the server has the file.
LEMMA ServerKept ==
    ASSUME TypeOK, CountInv, ServerInv, PlaceInv, CancelInv,
           OtherStep, ~\E f \in File : CancelAll(f)
    PROVE  CountInv' /\ ServerInv' /\ server' = server
<1> USE DEF table, info, reqs, irps, cancel
<1>1. UNCHANGED <<table, server>>
  <2>1. ASSUME Kill \/ \E i \in IRP : IoCancelIrp(i) \/ ServerIrpCancelRoutine(i)
        PROVE  UNCHANGED <<table, server>>
    BY <2>1 DEF Kill, IoCancelIrp, ServerIrpCancelRoutine
  <2>2. ASSUME NEW r \in Req, DispatchClientRequest(r) \/ \E f \in Opener : Issue(r, f)
        PROVE  UNCHANGED <<table, server>>
    BY <2>2 DEF DispatchClientRequest, Issue
  <2>3. ASSUME NEW w \in Worker, Forward(w) \/ InKernel(w) \/ InServer(w)
        PROVE  UNCHANGED <<table, server>>
    BY <2>3 DEF Forward, InKernel, InServer, SendFromClient, InsertSent, PutBack, Deliver,
                CompleteExchange, ReserveOwn, GetSentClientRequest, AnswerClient, Ask,
                QueueMemoryLate, LockMemory, Refused, Exchange, Serve
  <2> QED
    BY <2>1, <2>2, <2>3 DEF OtherStep
<1>2. CountInv'
  <2>1. Holders' = Holders /\ Gone' = Gone
    BY <1>1 DEF Holders, Gone, Attached
  <2> QED
    BY <1>1, <2>1 DEF CountInv
<1>3. /\ \A f \in File : Client(f)' <=> Client(f)
      /\ Attached(Server)' <=> Attached(Server)
  BY <1>1 DEF Client, Attached
<1>4. ASSUME handle[Server] = "none", NEW v \in Worker PROVE xpc'[v] = "out"
  <2>1. \A w \in Worker : xpc[w] = "out" /\ X(w) \notin firing /\ ~InList(w, requests)
    BY <1>4 DEF ServerInv, CancelInv, PlaceInv
  <2>2. xpc \in [Worker -> Xpc]
    BY Types DEF IrpType
  <2>3. CASE Kill
    BY <2>1, <2>3 DEF Kill
  <2>4. ASSUME NEW i \in IRP, IoCancelIrp(i) PROVE xpc'[v] = "out"
    BY <2>1, <2>4 DEF IoCancelIrp
  <2>5. ASSUME NEW i \in IRP, ServerIrpCancelRoutine(i) PROVE xpc'[v] = "out"
    <3>1. i[2] # "exchange"
      BY <2>1, <2>5 DEF ServerIrpCancelRoutine, IRP, X
    <3> QED
      BY <2>1, <2>5, <3>1 DEF ServerIrpCancelRoutine
  <2>6. ASSUME NEW r \in Req, DispatchClientRequest(r) PROVE xpc'[v] = "out"
    <3>1. xpc' = xpc \/ \E i \in DOMAIN requests : requests[i] \in Worker
      BY <2>6, Types DEF DispatchClientRequest, ListType
    <3> QED
      BY <2>1, <3>1 DEF InList
  <2>7. ASSUME NEW r \in Req, NEW f \in Opener, Issue(r, f) PROVE xpc'[v] = "out"
    BY <2>1, <2>7 DEF Issue
  <2>8. ASSUME NEW w \in Worker, Forward(w) PROVE xpc'[v] = "out"
    BY <2>1, <2>8 DEF Forward, SendFromClient, InsertSent, PutBack, Deliver, CompleteExchange
  <2>9. ASSUME NEW w \in Worker, InKernel(w) PROVE xpc'[v] = "out"
    BY <2>1, <2>9 DEF InKernel, ReserveOwn, GetSentClientRequest, AnswerClient, Ask, QueueMemoryLate
  <2>10. ASSUME NEW w \in Worker, InServer(w) PROVE xpc'[v] = "out"
    BY <1>4, <2>1, <2>10 DEF InServer, LockMemory, Refused, Exchange, Serve
  <2> QED
    BY <2>3, <2>4, <2>5, <2>6, <2>7, <2>8, <2>9, <2>10 DEF OtherStep
<1> QED
  BY <1>1, <1>2, <1>3, <1>4 DEF ServerInv

\* The steps of the table touch neither the lists nor the IRPs.
LEMMA FileKept ==
    ASSUME IInv, CreateFileTableEntry \/ \E f \in File : FileStep(f)
    PROVE  IInv'
<1> USE DEF table, info, reqs, irps, cancel
<1>1. TypeOK' /\ CountInv'
  BY FileType, TableCount DEF IInv
<1>2. UNCHANGED <<info, reqs, irps, cancel>>
  <2>1. CASE CreateFileTableEntry
    BY <2>1 DEF CreateFileTableEntry
  <2>2. ASSUME NEW f \in File, FileStep(f) PROVE UNCHANGED <<info, reqs, irps, cancel>>
    BY <2>2 DEF FileStep, OpenEnter, LockTable, TakeReference, CheckOpen, UndoOpen, Cleanup,
                EnterClose, CloseFileTableEntry
  <2> QED
    BY <2>1, <2>2
<1>3. /\ handle'[Server] = "none" => RefCount' = 0 /\ server' = None
      /\ handle'[Server] = "none" => handle[Server] = "none"
      /\ server' = Server => /\ handle'[Server] = "open"
                             /\ server = Server \/ handle[Server] = "none"
      /\ \A f \in File : handle'[f] = "cancel" => server' = None
      /\ Attached(Server)' => \A f, g \in File : Client(f)' /\ Client(g)' => f = g
  BY FileServer DEF IInv
<1>4. ServerInv'
  BY <1>2, <1>3 DEF IInv, ServerInv
<1>5. \A w \in Worker : /\ Holding(w)' <=> Holding(w)
                        /\ Carrying(w)' <=> Carrying(w)
                        /\ Tagged(w)' <=> Tagged(w)
  BY <1>2 DEF Holding, Carrying, Tagged
<1>6. server' = Server => server = Server \/ \A w \in Worker : xpc[w] = "out" /\ ~Tagged(w)
  BY <1>3 DEF IInv, ServerInv, Tagged, Carrying
<1>7. PlaceInv' /\ CancelInv' /\ EntryInv' /\ ResultInv'
  BY <1>2, <1>5 DEF IInv, PlaceInv, CancelInv, EntryInv, ResultInv, NoDup, InList
<1>8. TagInv'
  BY <1>2, <1>5, <1>6 DEF IInv, TagInv
<1>9. MemoryInv'
  BY <1>2, <1>6 DEF IInv, MemoryInv, InList
<1> QED
  BY <1>1, <1>4, <1>7, <1>8, <1>9 DEF IInv

\* An IRP whose cancel routine is taken stays where it is until the routine completes it.
LEMMA CancelKept ==
    ASSUME IInv, OtherStep
    PROVE  CancelInv'
<1> USE DEF table, info, reqs, irps, cancel
<1>1. /\ firing \subseteq cancelled /\ (firing # {} => killed)
      /\ \A w \in Worker : /\ X(w) \in armed => xpc[w] = "queued"
                           /\ X(w) \in firing => xpc[w] \in {"queued", "serve"} /\ X(w) \notin armed
      /\ \A w \in Worker : InList(w, requests) => xpc[w] = "queued"
  BY DEF IInv, CancelInv, PlaceInv
<1>2. xpc \in [Worker -> Xpc] /\ requests \in Seq(Worker)
  BY Types DEF IInv, IrpType, ListType
<1>3. \A v, w \in Worker : X(v) # M(w) /\ (X(v) = X(w) => v = w)
  BY DEF X, M
<1>4. ASSUME NEW f \in File, CancelAll(f) PROVE CancelInv'
  BY <1>1, <1>2, <1>4 DEF CancelAll, CancelInv
<1>5. CASE Kill
  BY <1>1, <1>5 DEF Kill, CancelInv
<1>6. ASSUME NEW i \in IRP, IoCancelIrp(i) PROVE CancelInv'
  BY <1>1, <1>6 DEF IoCancelIrp, CancelInv
<1>7. ASSUME NEW i \in IRP, ServerIrpCancelRoutine(i) PROVE CancelInv'
  <2>1. i = X(i[1]) \/ i[2] # "exchange"
    BY DEF IRP, X
  <2>2. CASE i[2] = "exchange"
    BY <1>1, <1>2, <1>3, <1>7, <2>1, <2>2 DEF ServerIrpCancelRoutine, CancelInv, IRP
  <2>3. CASE i[2] # "exchange"
    BY <1>1, <1>2, <1>7, <2>3 DEF ServerIrpCancelRoutine, CancelInv
  <2> QED
    BY <2>2, <2>3
<1>8. ASSUME NEW r \in Req, DispatchClientRequest(r) PROVE CancelInv'
  <2>1. UNCHANGED <<killed, cancelled, firing>>
    BY <1>8 DEF DispatchClientRequest
  <2>2. CASE UNCHANGED <<xpc, armed>>
    BY <1>1, <2>1, <2>2 DEF CancelInv
  <2>3. ASSUME NEW i \in DOMAIN requests, FirstWaiting(i),
               xpc' = [xpc EXCEPT ![requests[i]] = "taken"], armed' = armed \ {X(requests[i])}
        PROVE  CancelInv'
    <3>1. requests[i] \in Worker /\ X(requests[i]) \notin cancelled
      BY <1>2, <2>3 DEF FirstWaiting
    <3> QED
      BY <1>1, <1>2, <1>3, <2>1, <2>3, <3>1 DEF CancelInv
  <2> QED
    BY <1>8, <2>2, <2>3 DEF DispatchClientRequest
<1>9. ASSUME NEW r \in Req, NEW f \in Opener, Issue(r, f) PROVE CancelInv'
  BY <1>1, <1>9 DEF Issue, CancelInv
<1>10. ASSUME NEW w \in Worker, NEW to, xpc' = [xpc EXCEPT ![w] = to] \/ xpc' = xpc,
              xpc[w] \notin {"queued", "serve"} \/ (xpc[w] = "serve" /\ ~killed) \/ xpc' = xpc,
              \/ armed' \subseteq armed \cup {M(w)}
              \/ armed' = armed \cup {X(w), M(w)} /\ xpc' = [xpc EXCEPT ![w] = "queued"]
                 /\ xpc[w] \notin {"queued", "serve"},
              UNCHANGED <<killed, cancelled, firing>>
       PROVE  CancelInv'
  BY <1>1, <1>2, <1>3, <1>10 DEF CancelInv
<1>11. ASSUME NEW w \in Worker, Forward(w) PROVE CancelInv'
  <2>1. UNCHANGED <<killed, cancelled, firing>> /\ xpc[w] \notin {"queued", "serve"}
    BY <1>11 DEF Forward, SendFromClient, InsertSent, PutBack, Deliver, CompleteExchange
  <2>2. armed' \subseteq armed \cup {M(w)}
    BY <1>11 DEF Forward, SendFromClient, InsertSent, PutBack, Deliver, CompleteExchange
  <2>3. \E to : xpc' = [xpc EXCEPT ![w] = to]
    BY <1>11 DEF Forward, SendFromClient, InsertSent, PutBack, Deliver, CompleteExchange, Fill
  <2> QED
    BY <1>10, <2>1, <2>2, <2>3
<1>12. ASSUME NEW w \in Worker, InKernel(w) PROVE CancelInv'
  <2>1. UNCHANGED <<killed, cancelled, firing>> /\ xpc[w] \notin {"queued", "serve"}
    BY <1>12 DEF InKernel, ReserveOwn, GetSentClientRequest, AnswerClient, Ask, QueueMemoryLate
  <2>2. \/ armed' \subseteq armed \cup {M(w)}
        \/ armed' = armed \cup {X(w), M(w)} /\ xpc' = [xpc EXCEPT ![w] = "queued"]
    BY <1>12 DEF InKernel, ReserveOwn, GetSentClientRequest, AnswerClient, Ask, QueueMemoryLate
  <2>3. xpc' = xpc \/ \E to : xpc' = [xpc EXCEPT ![w] = to]
    BY <1>12 DEF InKernel, ReserveOwn, GetSentClientRequest, AnswerClient, Ask, QueueMemoryLate, Fill
  <2> QED
    BY <1>10, <2>1, <2>2, <2>3
<1>13. ASSUME NEW w \in Worker, InServer(w) PROVE CancelInv'
  <2>1. /\ UNCHANGED <<killed, cancelled, firing>> /\ armed' \subseteq armed \cup {M(w)}
        /\ xpc[w] \notin {"queued", "serve"} \/ (xpc[w] = "serve" /\ ~killed)
    BY <1>13 DEF InServer, LockMemory, Refused, Exchange, Serve
  <2>2. \E to : xpc' = [xpc EXCEPT ![w] = to]
    BY <1>13 DEF InServer, LockMemory, Refused, Exchange, Serve
  <2> QED
    BY <1>10, <2>1, <2>2
<1> QED
  BY <1>4, <1>5, <1>6, <1>7, <1>8, <1>9, <1>11, <1>12, <1>13 DEF OtherStep

\* A server's memory is taken out of its list by the thread that works with it only.
LEMMA MemoryKept ==
    ASSUME IInv, OtherStep
    PROVE  MemoryInv'
<1> USE DEF table, info, reqs, irps, cancel
<1>1. \A w \in Worker : xpc[w] \in {"ready", "reserve", "complete", "serve"} /\ server = Server
                        /\ M(w) \notin cancelled => InList(w, memory)
  BY DEF IInv, MemoryInv
<1>2. /\ xpc \in [Worker -> Xpc] /\ memory \in Seq(Worker) /\ requests \in Seq(Worker)
  BY Types DEF IInv, IrpType, ListType
<1>3. ~(\E f \in File : CancelAll(f)) => server' = server
  BY ServerKept DEF IInv
<1>4. ASSUME NEW f \in File, CancelAll(f) PROVE MemoryInv'
  <2>1. server' = None /\ None # Server
    BY <1>4, NameFacts DEF CancelAll, IInv, ServerInv
  <2> QED
    BY <2>1 DEF MemoryInv
<1>5. ASSUME \A v \in Worker : M(v) \notin cancelled' =>
                /\ M(v) \notin cancelled
                /\ xpc'[v] \in {"ready", "reserve", "complete", "serve"} =>
                      \/ xpc[v] \in {"ready", "reserve", "complete", "serve"}
                         /\ (InList(v, memory) => InList(v, memory'))
                      \/ InList(v, memory'),
             server' = server
      PROVE  MemoryInv'
  BY <1>1, <1>5 DEF MemoryInv, M
<1>6. CASE Kill \/ \E i \in IRP : IoCancelIrp(i)
  BY <1>3, <1>5, <1>6 DEF Kill, IoCancelIrp
<1>7. ASSUME NEW i \in IRP, ServerIrpCancelRoutine(i) PROVE MemoryInv'
  <2>1. server' = server /\ cancelled' = cancelled /\ firing \subseteq cancelled
    BY <1>7 DEF ServerIrpCancelRoutine, IInv, CancelInv
  <2>2. i[1] \in Worker /\ (i[2] # "exchange" => i = M(i[1]))
    BY DEF IRP, M
  <2>3. CASE i[2] = "exchange"
    BY <1>2, <1>5, <1>7, <2>1, <2>2, <2>3 DEF ServerIrpCancelRoutine
  <2>4. CASE i[2] # "exchange"
    <3>1. /\ M(i[1]) \in cancelled /\ xpc' = xpc
          /\ \A v : v # i[1] => (InList(v, memory) => InList(v, memory'))
      BY <1>2, <1>7, <2>1, <2>2, <2>4, WithoutFacts DEF ServerIrpCancelRoutine
    <3> QED
      BY <1>5, <2>1, <3>1 DEF M
  <2> QED
    BY <2>3, <2>4
<1>8. ASSUME NEW r \in Req, DispatchClientRequest(r) PROVE MemoryInv'
  <2>1. UNCHANGED <<server, cancelled, memory>>
    BY <1>8 DEF DispatchClientRequest
  <2>2. xpc' = xpc \/ \E w \in Worker : xpc' = [xpc EXCEPT ![w] = "taken"]
    BY <1>2, <1>8 DEF DispatchClientRequest
  <2> QED
    BY <1>2, <1>5, <2>1, <2>2
<1>9. ASSUME NEW r \in Req, NEW f \in Opener, Issue(r, f) PROVE MemoryInv'
  BY <1>5, <1>9 DEF Issue
<1>10. ASSUME NEW w \in Worker, SendFromClient(w) \/ ReserveOwn(w) PROVE MemoryInv'
  <2>1. \A v : v # w => (InList(v, memory) => InList(v, memory'))
    BY <1>2, <1>10, WithoutFacts DEF SendFromClient, ReserveOwn, Reserve
  <2>2. /\ xpc'[w] \notin {"ready", "reserve", "complete", "serve"}
        /\ \A v \in Worker : v # w => xpc'[v] = xpc[v]
    BY <1>2, <1>10 DEF SendFromClient, ReserveOwn, Fill
  <2>3. UNCHANGED <<server, cancelled>>
    BY <1>10 DEF SendFromClient, ReserveOwn
  <2> QED
    BY <1>5, <2>1, <2>2, <2>3
<1>11. ASSUME NEW w \in Worker, \/ InsertSent(w) \/ PutBack(w) \/ CompleteExchange(w)
                                \/ GetSentClientRequest(w) \/ AnswerClient(w) \/ Exchange(w)
                                \/ Refused(w) \/ Serve(w)
       PROVE  MemoryInv'
  <2>1. UNCHANGED <<server, cancelled, memory>>
    BY <1>11 DEF InsertSent, PutBack, CompleteExchange, GetSentClientRequest, AnswerClient, Exchange,
                 Refused, Serve
  <2>2. /\ \A v \in Worker : v # w => xpc'[v] = xpc[v]
        /\ xpc'[w] \in {"ready", "reserve", "complete", "serve"} =>
              xpc[w] \in {"ready", "reserve", "complete", "serve"}
    BY <1>2, <1>11 DEF InsertSent, PutBack, CompleteExchange, GetSentClientRequest, AnswerClient,
                       Exchange, Refused, Serve
  <2> QED
    BY <1>5, <2>1, <2>2
<1>12. ASSUME NEW w \in Worker, \/ Deliver(w) \/ Ask(w) \/ QueueMemoryLate(w)
                                \/ \E first \in BOOLEAN : LockMemory(w, first)
       PROVE  MemoryInv'
  <2>1. UNCHANGED <<server, cancelled>>
    BY <1>12 DEF Deliver, Ask, QueueMemoryLate, LockMemory
  <2>2. memory' = Append(memory, w) \/ (Ask(w) /\ memory' = memory)
    BY <1>12 DEF Deliver, Ask, QueueMemoryLate, LockMemory, QueueMemoryIrp
  <2>3. \A v \in Worker : v # w => xpc'[v] = xpc[v]
    BY <1>2, <1>12 DEF Deliver, Ask, QueueMemoryLate, LockMemory, Fill
  <2>4. Ask(w) => xpc'[w] \notin {"ready", "reserve", "complete", "serve"}
    BY <1>2 DEF Ask, Fill
  <2>5. CASE memory' = Append(memory, w)
    <3>1. \A v : InList(v, memory') <=> InList(v, memory) \/ v = w
      BY <1>2, <2>5, AppendFacts
    <3> QED
      BY <1>5, <2>1, <2>3, <3>1
  <2>6. CASE Ask(w) /\ memory' = memory
    BY <1>5, <2>1, <2>3, <2>4, <2>6
  <2> QED
    BY <2>2, <2>5, <2>6
<1> QED
  BY <1>4, <1>6, <1>7, <1>8, <1>9, <1>10, <1>11, <1>12 DEF OtherStep, Forward, InKernel, InServer

\* What the threads know of the requests they hold, and what is in the lists.
LEMMA PlaceFacts ==
    ASSUME IInv
    PROVE  /\ \A w \in Worker : Holding(w) =>
                 target[w] \in Req /\ rpc[target[w]] = (IF xpc[w] = "answer" THEN "answer" ELSE "send")
           /\ \A v, w \in Worker : Holding(v) /\ Holding(w) /\ target[v] = target[w] => v = w
           /\ \A r \in Req : /\ InList(r, received) <=> rpc[r] = "received"
                             /\ InList(r, sent) <=> rpc[r] = "sent"
           /\ received # <<>> => Head(received) \in Req /\ rpc[Head(received)] = "received"
           /\ ReqType /\ ListType /\ IrpType /\ BufType
<1>1. ReqType /\ ListType /\ IrpType /\ BufType
  BY Types DEF IInv
<1>2. \A r \in Req : /\ InList(r, received) <=> rpc[r] = "received"
                     /\ InList(r, sent) <=> rpc[r] = "sent"
  BY DEF IInv, PlaceInv
<1>3. received # <<>> => Head(received) \in Req /\ InList(Head(received), received)
  BY <1>1, TailFacts DEF ListType
<1> QED
  BY <1>1, <1>2, <1>3 DEF IInv, PlaceInv

\* The request that a thread finds by its buffer's tag.
LEMMA FoundFacts ==
    ASSUME IInv, NEW w \in Worker, GetSentClientRequest(w),
           \E i \in DOMAIN sent : entry[sent[i]] = buffer[w].tag
    PROVE  \E r \in Req : /\ entry[r] = buffer[w].tag /\ rpc[r] = "sent" /\ entry[r] # None
                          /\ sent' = Without(sent, r) /\ rpc' = [rpc EXCEPT ![r] = "answer"]
                          /\ target' = [target EXCEPT ![w] = r]
                          /\ xpc' = [xpc EXCEPT ![w] = "answer"]
<1> DEFINE r == CHOOSE r \in Range(sent) : entry[r] = buffer[w].tag
<1>1. \A i \in DOMAIN sent : sent[i] \in Range(sent) /\ sent[i] \in Req
  BY PlaceFacts DEF ListType, Range
<1>2. \E q \in Range(sent) : entry[q] = buffer[w].tag
  BY <1>1
<1>3. r \in Range(sent) /\ entry[r] = buffer[w].tag
  BY <1>2
<1>4. /\ sent' = Without(sent, r) /\ rpc' = [rpc EXCEPT ![r] = "answer"]
      /\ target' = [target EXCEPT ![w] = r] /\ xpc' = [xpc EXCEPT ![w] = "answer"]
  BY DEF GetSentClientRequest
<1> HIDE DEF r
<1>5. r \in Req /\ InList(r, sent)
  BY <1>1, <1>3 DEF Range, InList
<1>6. rpc[r] = "sent" /\ entry[r] # None
  BY <1>5, PlaceFacts DEF IInv, EntryInv
<1> QED
  BY <1>3, <1>4, <1>5, <1>6

\* A list entry is made with the request and freed with it.
LEMMA EntryKept ==
    ASSUME IInv, OtherStep
    PROVE  EntryInv'
<1> USE DEF table, info, reqs, irps, cancel
<1> DEFINE Live == {"lock", "received", "send", "sent", "answer"}
<1>1. /\ \A r \in Req : entry[r] # None <=> rpc[r] \in Live
      /\ \A r, q \in Req : entry[r] # None /\ entry[r] = entry[q] => r = q
  BY DEF IInv, EntryInv
<1>2. /\ rpc \in [Req -> Rpc] /\ entry \in [Req -> Addr \cup {None}] /\ None \notin Addr
  BY Types, NameFacts DEF IInv, ReqType
<1>3. ASSUME \A r \in Req : entry'[r] = entry[r] /\ (rpc'[r] \in Live <=> rpc[r] \in Live)
      PROVE  EntryInv'
  BY <1>1, <1>3 DEF EntryInv
<1>4. ASSUME NEW r \in Req, rpc[r] \in Live, rpc' = [rpc EXCEPT ![r] = "done"],
             entry' = [entry EXCEPT ![r] = None]
      PROVE  EntryInv'
  BY <1>1, <1>2, <1>4 DEF EntryInv
<1>5. ASSUME NEW r \in Req, rpc[r] \in Live, NEW to \in Live, rpc' = [rpc EXCEPT ![r] = to],
             entry' = entry
      PROVE  EntryInv'
  BY <1>2, <1>3, <1>5
<1>6. CASE UNCHANGED <<rpc, entry>>
  BY <1>3, <1>6
<1>7. ASSUME NEW f \in File, CancelAll(f) PROVE EntryInv'
  BY <1>1, <1>2, <1>7 DEF CancelAll, EntryInv
<1>8. CASE Kill \/ \E i \in IRP : IoCancelIrp(i) \/ ServerIrpCancelRoutine(i)
  BY <1>6, <1>8 DEF Kill, IoCancelIrp, ServerIrpCancelRoutine
<1>9. ASSUME NEW r \in Req, DispatchClientRequest(r) PROVE EntryInv'
  <2>1. CASE Completing(r, "failed")
    BY <1>4, <1>9, <2>1 DEF DispatchClientRequest, Completing
  <2>2. CASE entry' = entry /\ \E to \in {"received", "send"} : rpc' = [rpc EXCEPT ![r] = to]
    BY <1>5, <1>9, <2>2 DEF DispatchClientRequest
  <2> QED
    BY <1>9, <2>1, <2>2 DEF DispatchClientRequest
<1>10. ASSUME NEW r \in Req, NEW f \in Opener, Issue(r, f) PROVE EntryInv'
  <2>1. rpc[r] = "none" /\ entry[r] = None
    BY <1>1, <1>10 DEF Issue
  <2>2. CASE entry' = entry /\ rpc' = [rpc EXCEPT ![r] = "done"]
    BY <1>2, <1>3, <2>1, <2>2
  <2>3. ASSUME NEW a \in Addr \ Range(entry), entry' = [entry EXCEPT ![r] = a],
               rpc' = [rpc EXCEPT ![r] = "lock"]
        PROVE  EntryInv'
    <3>1. \A q \in Req : entry[q] # a
      BY <1>2, <2>3 DEF Range
    <3>2. a # None
      BY <1>2, <2>3
    <3> QED
      BY <1>1, <1>2, <2>3, <3>1, <3>2 DEF EntryInv
  <2> QED
    BY <1>10, <2>2, <2>3 DEF Issue
<1>11. ASSUME NEW w \in Worker, Forward(w) PROVE EntryInv'
  <2>1. CASE SendFromClient(w)
    <3>1. Holding(w) /\ xpc[w] # "answer"
      BY <2>1 DEF SendFromClient, Holding
    <3>2. target[w] \in Req /\ rpc[target[w]] = "send"
      BY <3>1, PlaceFacts
    <3>3. UNCHANGED <<rpc, entry>> \/ Completing(target[w], "failed")
      BY <2>1 DEF SendFromClient
    <3> QED
      BY <1>4, <1>6, <3>2, <3>3 DEF Completing
  <2>2. CASE InsertSent(w) \/ PutBack(w)
    <3>1. Holding(w) /\ xpc[w] # "answer"
      BY <2>2 DEF InsertSent, PutBack, Holding
    <3>2. target[w] \in Req /\ rpc[target[w]] = "send"
      BY <3>1, PlaceFacts
    <3> QED
      BY <1>5, <2>2, <3>2 DEF InsertSent, PutBack
  <2>3. CASE Deliver(w) \/ CompleteExchange(w)
    BY <1>6, <2>3 DEF Deliver, CompleteExchange
  <2> QED
    BY <1>11, <2>1, <2>2, <2>3 DEF Forward
<1>12. ASSUME NEW w \in Worker, InKernel(w) PROVE EntryInv'
  <2>1. CASE ReserveOwn(w) \/ QueueMemoryLate(w)
    BY <1>6, <2>1 DEF ReserveOwn, QueueMemoryLate
  <2>2. CASE GetSentClientRequest(w)
    <3>1. CASE \E i \in DOMAIN sent : entry[sent[i]] = buffer[w].tag
      <4>1. PICK r \in Req : rpc[r] = "sent" /\ rpc' = [rpc EXCEPT ![r] = "answer"]
        BY <2>2, <3>1, FoundFacts
      <4> QED
        BY <1>5, <2>2, <4>1 DEF GetSentClientRequest
    <3>2. CASE ~\E i \in DOMAIN sent : entry[sent[i]] = buffer[w].tag
      BY <1>6, <2>2, <3>2 DEF GetSentClientRequest
    <3> QED
      BY <3>1, <3>2
  <2>3. CASE AnswerClient(w)
    <3>1. Holding(w) /\ xpc[w] = "answer"
      BY <2>3 DEF AnswerClient, Holding
    <3>2. target[w] \in Req /\ rpc[target[w]] = "answer"
      BY <3>1, PlaceFacts
    <3> QED
      BY <1>4, <2>3, <3>2 DEF AnswerClient, Completing
  <2>4. CASE Ask(w)
    <3>1. CASE received = <<>>
      BY <1>6, <2>4, <3>1 DEF Ask
    <3>2. CASE received # <<>>
      <4>1. Head(received) \in Req /\ rpc[Head(received)] = "received"
        BY <3>2, PlaceFacts
      <4> QED
        BY <1>5, <2>4, <3>2, <4>1 DEF Ask
    <3> QED
      BY <3>1, <3>2
  <2> QED
    BY <1>12, <2>1, <2>2, <2>3, <2>4 DEF InKernel
<1>13. ASSUME NEW w \in Worker, InServer(w) PROVE EntryInv'
  BY <1>6, <1>13 DEF InServer, LockMemory, Refused, Exchange, Serve
<1> QED
  BY <1>7, <1>8, <1>9, <1>10, <1>11, <1>12, <1>13 DEF OtherStep

\* A request is completed with what was made for it.
LEMMA ResultKept ==
    ASSUME IInv, OtherStep
    PROVE  ResultInv'
<1> USE DEF table, info, reqs, irps, cancel
<1>1. /\ \A r \in Req : result[r] \in {"none", "failed", r}
      /\ result \in [Req -> Req \cup {"none", "failed"}]
  BY Types DEF IInv, ResultInv, ReqType
<1>2. CASE result' = result
  BY <1>1, <1>2 DEF ResultInv
<1>3. ASSUME NEW r \in Req, NEW about \in {"failed", r}, result' = [result EXCEPT ![r] = about]
      PROVE  ResultInv'
  BY <1>1, <1>3 DEF ResultInv
<1>4. ASSUME NEW f \in File, CancelAll(f) PROVE ResultInv'
  BY <1>1, <1>4 DEF CancelAll, ResultInv
<1>5. CASE Kill \/ \E i \in IRP : IoCancelIrp(i) \/ ServerIrpCancelRoutine(i)
  BY <1>2, <1>5 DEF Kill, IoCancelIrp, ServerIrpCancelRoutine
<1>6. ASSUME NEW r \in Req, DispatchClientRequest(r) \/ \E f \in Opener : Issue(r, f) PROVE ResultInv'
  BY <1>2, <1>3, <1>6 DEF DispatchClientRequest, Issue, Completing
<1>7. ASSUME NEW w \in Worker, Forward(w) PROVE ResultInv'
  <2>1. CASE result' = result
    BY <1>2, <2>1
  <2>2. CASE ~(result' = result)
    <3>1. Completing(target[w], "failed") /\ Holding(w)
      BY <1>7, <2>2 DEF Forward, SendFromClient, InsertSent, PutBack, Deliver, CompleteExchange,
                        Holding
    <3>2. target[w] \in Req
      BY <3>1, PlaceFacts
    <3> QED
      BY <1>3, <3>1, <3>2 DEF Completing
  <2> QED
    BY <2>1, <2>2
<1>8. ASSUME NEW w \in Worker, InKernel(w) PROVE ResultInv'
  <2>1. CASE AnswerClient(w)
    <3>1. target[w] \in Req /\ (buffer[w].code = "ok" => buffer[w].about = target[w])
      BY <2>1, PlaceFacts DEF AnswerClient, Holding, IInv, TagInv
    <3> QED
      BY <1>3, <2>1, <3>1 DEF AnswerClient, Completing
  <2>2. CASE ReserveOwn(w) \/ GetSentClientRequest(w) \/ Ask(w) \/ QueueMemoryLate(w)
    BY <1>2, <2>2 DEF ReserveOwn, GetSentClientRequest, Ask, QueueMemoryLate
  <2> QED
    BY <1>8, <2>1, <2>2 DEF InKernel
<1>9. ASSUME NEW w \in Worker, InServer(w) PROVE ResultInv'
  BY <1>2, <1>9 DEF InServer, LockMemory, Refused, Exchange, Serve
<1> QED
  BY <1>4, <1>5, <1>6, <1>7, <1>8, <1>9 DEF OtherStep

\* PlaceInv has two parts: who holds a request, and which list it is in.
HoldInv ==
    /\ \A r \in Req : rpc[r] \in {"send", "answer"} => \E w \in Worker : Holding(w) /\ target[w] = r
    /\ \A w \in Worker : Holding(w) =>
          /\ target[w] \in Req
          /\ rpc[target[w]] = IF xpc[w] = "answer" THEN "answer" ELSE "send"
    /\ \A v, w \in Worker : Holding(v) /\ Holding(w) /\ target[v] = target[w] => v = w
ListInv ==
    /\ NoDup(received) /\ NoDup(sent) /\ NoDup(requests)
    /\ \A r \in Req : (InList(r, received) <=> rpc[r] = "received") /\ (InList(r, sent) <=> rpc[r] = "sent")
    /\ \A w \in Worker : InList(w, requests) => xpc[w] = "queued"

LEMMA PlaceParts == PlaceInv <=> HoldInv /\ ListInv
  BY DEF PlaceInv, HoldInv, ListInv
LEMMA PlacePartsNext == PlaceInv' <=> HoldInv' /\ ListInv'
  BY PlaceParts, PTL

\* One thread and one request at a time.
Only(w, r) == /\ \A v \in Worker : v # w => xpc'[v] = xpc[v] /\ target'[v] = target[v]
              /\ \A q \in Req : q # r => rpc'[q] = rpc[q]

LEMMA HoldMove ==
    ASSUME HoldInv, NEW w \in Worker, NEW r \in Req, Only(w, r),
           \* it has nothing to do with the request
           \/ /\ ~Holding(w) /\ ~Holding(w)'
              /\ rpc[r] \notin {"send", "answer"} /\ rpc'[r] \notin {"send", "answer"}
           \* it takes the request
           \/ /\ ~Holding(w) /\ Holding(w)' /\ target'[w] = r
              /\ rpc[r] \notin {"send", "answer"}
              /\ rpc'[r] = IF xpc'[w] = "answer" THEN "answer" ELSE "send"
           \* it lets the request go
           \/ /\ Holding(w) /\ ~Holding(w)' /\ target[w] = r
              /\ rpc'[r] \notin {"send", "answer"}
    PROVE  HoldInv'
<1>1. \A v \in Worker : v # w => (Holding(v)' <=> Holding(v)) /\ target'[v] = target[v]
  BY DEF Only, Holding
<1>2. \A v \in Worker : Holding(v) => /\ target[v] \in Req
                                      /\ rpc[target[v]] = IF xpc[v] = "answer" THEN "answer" ELSE "send"
  BY DEF HoldInv
<1>3. \A v, u \in Worker : Holding(v) /\ Holding(u) /\ target[v] = target[u] => v = u
  BY DEF HoldInv
<1>4. ASSUME NEW q \in Req, rpc'[q] \in {"send", "answer"}
      PROVE  \E v \in Worker : Holding(v)' /\ target'[v] = q
  <2>1. CASE q = r
    BY <1>4, <2>1
  <2>2. CASE q # r
    <3>1. PICK v \in Worker : Holding(v) /\ target[v] = q
      BY <1>4, <2>2 DEF Only, HoldInv
    <3>2. v # w \/ ~Holding(w)
      BY <1>1, <1>2, <2>2, <3>1, <1>4 DEF Only
    <3> QED
      BY <1>1, <3>1, <3>2
  <2> QED
    BY <2>1, <2>2
<1>5. ASSUME NEW v \in Worker, Holding(v)'
      PROVE  target'[v] \in Req /\ rpc'[target'[v]] = IF xpc'[v] = "answer" THEN "answer" ELSE "send"
  <2>1. CASE v = w
    BY <1>5, <2>1
  <2>2. CASE v # w
    <3>1. Holding(v) /\ target'[v] = target[v] /\ xpc'[v] = xpc[v]
      BY <1>1, <1>5, <2>2 DEF Only
    <3>2. target[v] # r
      BY <1>2, <1>3, <2>2, <3>1
    <3> QED
      BY <1>2, <3>1, <3>2 DEF Only
  <2> QED
    BY <2>1, <2>2
<1>6. ASSUME NEW v \in Worker, NEW u \in Worker, Holding(v)', Holding(u)', target'[v] = target'[u]
      PROVE  v = u
  <2>1. \A x \in Worker : x # w /\ Holding(x) => target[x] # r
    BY <1>2, <1>3
  <2>2. CASE v # w /\ u # w
    BY <1>1, <1>3, <1>6, <2>2
  <2>3. CASE v = w \/ u = w
    BY <1>1, <1>6, <2>1, <2>3
  <2> QED
    BY <2>2, <2>3
<1> QED
  BY <1>4, <1>5, <1>6 DEF HoldInv

\* Nothing of it changes.
LEMMA HoldSame ==
    ASSUME HoldInv,
           \A v \in Worker : /\ Holding(v)' <=> Holding(v)
                             /\ Holding(v) => target'[v] = target[v]
                                              /\ (xpc'[v] = "answer" <=> xpc[v] = "answer"),
           \A q \in Req : rpc'[q] = rpc[q] \/ {rpc'[q], rpc[q]} \cap {"send", "answer"} = {}
    PROVE  HoldInv'
<1>1. ASSUME NEW q \in Req, rpc'[q] \in {"send", "answer"}
      PROVE  \E v \in Worker : Holding(v)' /\ target'[v] = q
  <2>1. rpc[q] \in {"send", "answer"}
    BY <1>1
  <2>2. PICK v \in Worker : Holding(v) /\ target[v] = q
    BY <2>1 DEF HoldInv
  <2> QED
    BY <2>2
<1>2. ASSUME NEW v \in Worker, Holding(v)'
      PROVE  target'[v] \in Req /\ rpc'[target'[v]] = IF xpc'[v] = "answer" THEN "answer" ELSE "send"
  <2>1. /\ Holding(v) /\ target'[v] = target[v] /\ (xpc'[v] = "answer" <=> xpc[v] = "answer")
        /\ target[v] \in Req /\ rpc[target[v]] = IF xpc[v] = "answer" THEN "answer" ELSE "send"
    BY <1>2 DEF HoldInv
  <2>2. rpc'[target[v]] = rpc[target[v]]
    BY <2>1
  <2> QED
    BY <2>1, <2>2
<1>3. ASSUME NEW v \in Worker, NEW u \in Worker, Holding(v)', Holding(u)', target'[v] = target'[u]
      PROVE  v = u
  BY <1>3 DEF HoldInv
<1> QED
  BY <1>1, <1>2, <1>3 DEF HoldInv

LEMMA HoldKept ==
    ASSUME IInv, OtherStep
    PROVE  HoldInv'
<1> USE DEF table, info, reqs, irps, cancel
<1>0. HoldInv /\ ListInv
  BY PlaceParts DEF IInv
<1>1. /\ rpc \in [Req -> Rpc] /\ xpc \in [Worker -> Xpc] /\ target \in [Worker -> Req \cup {None}]
      /\ requests \in Seq(Worker)
  BY PlaceFacts DEF ReqType, IrpType, BufType, ListType
<1>2. CASE UNCHANGED <<xpc, target, rpc>>
  BY <1>0, <1>2, HoldSame DEF Holding
<1>3. ASSUME NEW w \in Worker, NEW to, xpc' = [xpc EXCEPT ![w] = to],
             ~Holding(w), to \notin {"taken", "insert", "putback", "answer"},
             UNCHANGED <<target, rpc>>
      PROVE  HoldInv'
  BY <1>0, <1>1, <1>3, HoldSame DEF Holding
<1>4. ASSUME NEW f \in File, CancelAll(f) PROVE HoldInv'
  <2>1. \A w \in Worker : InList(w, requests) => xpc[w] = "queued"
    BY <1>0 DEF ListInv
  <2>2. \A v \in Worker : (Holding(v)' <=> Holding(v)) /\ (Holding(v) => xpc'[v] = xpc[v])
    BY <1>1, <1>4, <2>1 DEF CancelAll, Holding
  <2>3. \A q \in Req : rpc'[q] = rpc[q] \/ {rpc'[q], rpc[q]} \cap {"send", "answer"} = {}
    BY <1>1, <1>4 DEF CancelAll
  <2>4. target' = target
    BY <1>4 DEF CancelAll
  <2> QED
    BY <1>0, <2>2, <2>3, <2>4, HoldSame
<1>5. CASE Kill \/ \E i \in IRP : IoCancelIrp(i)
  BY <1>2, <1>5 DEF Kill, IoCancelIrp
<1>6. ASSUME NEW i \in IRP, ServerIrpCancelRoutine(i) PROVE HoldInv'
  <2>1. CASE i[2] = "exchange"
    <3>1. i = X(i[1]) /\ i[1] \in Worker
      BY <2>1 DEF IRP, X
    <3>2. ~Holding(i[1])
      BY <1>6, <3>1 DEF ServerIrpCancelRoutine, IInv, CancelInv, Holding
    <3> QED
      BY <1>3, <1>6, <2>1, <3>1, <3>2 DEF ServerIrpCancelRoutine
  <2>2. CASE i[2] # "exchange"
    BY <1>2, <1>6, <2>2 DEF ServerIrpCancelRoutine
  <2> QED
    BY <2>1, <2>2
<1>7. ASSUME NEW r \in Req, DispatchClientRequest(r) PROVE HoldInv'
  <2>1. rpc[r] = "lock"
    BY <1>7 DEF DispatchClientRequest
  <2>2. CASE UNCHANGED <<xpc, target>> /\ \E to \in {"done", "received"} : rpc' = [rpc EXCEPT ![r] = to]
    BY <1>0, <1>1, <2>1, <2>2, HoldSame DEF Holding
  <2>3. ASSUME NEW i \in DOMAIN requests,
               xpc' = [xpc EXCEPT ![requests[i]] = "taken"],
               target' = [target EXCEPT ![requests[i]] = r],
               rpc' = [rpc EXCEPT ![r] = "send"]
        PROVE  HoldInv'
    <3>1. PICK w \in Worker : w = requests[i] /\ InList(w, requests)
      BY <1>1 DEF InList
    <3>2. xpc[w] = "queued"
      BY <1>0, <3>1 DEF ListInv
    <3>3. xpc' = [xpc EXCEPT ![w] = "taken"] /\ target' = [target EXCEPT ![w] = r]
      BY <2>3, <3>1
    <3>4. Only(w, r) /\ ~Holding(w) /\ Holding(w)' /\ target'[w] = r /\ rpc'[r] = "send" /\ xpc'[w] = "taken"
      BY <1>1, <2>3, <3>1, <3>2, <3>3 DEF Only, Holding
    <3> QED
      BY <1>0, <2>1, <3>1, <3>4, HoldMove
  <2> QED
    BY <1>7, <2>2, <2>3 DEF DispatchClientRequest, Completing
<1>8. ASSUME NEW r \in Req, NEW f \in Opener, Issue(r, f) PROVE HoldInv'
  <2>1. UNCHANGED <<xpc, target>> /\ rpc[r] = "none"
        /\ \E to \in {"done", "lock"} : rpc' = [rpc EXCEPT ![r] = to]
    BY <1>8 DEF Issue
  <2> QED
    BY <1>0, <1>1, <2>1, HoldSame DEF Holding
<1>9. ASSUME NEW w \in Worker, Holding(w), ~Holding(w)', xpc' = [xpc EXCEPT ![w] = xpc'[w]],
             NEW to \in {"sent", "received", "done"},
             rpc' = [rpc EXCEPT ![target[w]] = to], target' = target
      PROVE  HoldInv'
  <2>1. target[w] \in Req
    BY <1>9, PlaceFacts
  <2>2. Only(w, target[w]) /\ rpc'[target[w]] = to
    BY <1>1, <1>9, <2>1 DEF Only
  <2> QED
    BY <1>0, <1>9, <2>1, <2>2, HoldMove
<1>10. ASSUME NEW w \in Worker, NEW r \in Req, ~Holding(w),
              rpc[r] \in {"received", "sent"}, target' = [target EXCEPT ![w] = r],
              NEW to \in {"insert", "putback", "answer"}, xpc' = [xpc EXCEPT ![w] = to],
              rpc' = [rpc EXCEPT ![r] = IF to = "answer" THEN "answer" ELSE "send"]
       PROVE  HoldInv'
  <2>1. /\ Only(w, r) /\ rpc'[r] = (IF to = "answer" THEN "answer" ELSE "send") /\ xpc'[w] = to
        /\ Holding(w)' /\ target'[w] = r
    BY <1>1, <1>10 DEF Only, Holding
  <2> QED
    BY <1>0, <1>10, <2>1, HoldMove
<1>11. ASSUME NEW w \in Worker, Forward(w) PROVE HoldInv'
  <2>1. CASE SendFromClient(w)
    <3>1. CASE Reservable(w)
      <4>1. /\ xpc[w] = "taken" /\ UNCHANGED <<rpc, target>>
            /\ \E to \in {"insert", "putback"} : xpc' = [xpc EXCEPT ![w] = to]
        BY <2>1, <3>1 DEF SendFromClient, Fill
      <4> QED
        BY <1>0, <1>1, <4>1, HoldSame DEF Holding
    <3>2. CASE ~Reservable(w)
      <4>1. Holding(w) /\ ~Holding(w)' /\ target' = target /\ xpc' = [xpc EXCEPT ![w] = xpc'[w]]
            /\ rpc' = [rpc EXCEPT ![target[w]] = "done"]
        BY <1>1, <2>1, <3>2 DEF SendFromClient, Completing, Holding
      <4> QED
        BY <1>9, <4>1
    <3> QED
      BY <3>1, <3>2
  <2>2. CASE InsertSent(w) \/ PutBack(w)
    <3>1. /\ Holding(w) /\ ~Holding(w)' /\ xpc' = [xpc EXCEPT ![w] = xpc'[w]] /\ target' = target
          /\ \E to \in {"sent", "received"} : rpc' = [rpc EXCEPT ![target[w]] = to]
      BY <1>1, <2>2 DEF InsertSent, PutBack, Holding
    <3> QED
      BY <1>9, <3>1
  <2>3. CASE Deliver(w)
    <3>1. \A v \in Worker : /\ Holding(v)' <=> Holding(v)
                            /\ Holding(v) => target'[v] = target[v] /\ xpc'[v] = xpc[v]
      BY <1>1, <2>3 DEF Deliver, Holding
    <3> QED
      BY <1>0, <2>3, <3>1, HoldSame DEF Deliver
  <2>4. CASE CompleteExchange(w)
    BY <1>3, <2>4 DEF CompleteExchange, Holding
  <2> QED
    BY <1>11, <2>1, <2>2, <2>3, <2>4 DEF Forward
<1>12. ASSUME NEW w \in Worker, InKernel(w) PROVE HoldInv'
  <2>1. CASE ReserveOwn(w) \/ QueueMemoryLate(w)
    <3>1. /\ UNCHANGED <<target, rpc>> /\ ~Holding(w)
          /\ xpc' = xpc \/ \E to \in {"lookup", "ask", "stop"} : xpc' = [xpc EXCEPT ![w] = to]
      BY <2>1 DEF ReserveOwn, QueueMemoryLate, Holding
    <3> QED
      BY <1>2, <1>3, <3>1
  <2>2. CASE GetSentClientRequest(w)
    <3>1. ~Holding(w)
      BY <2>2 DEF GetSentClientRequest, Holding
    <3>2. CASE \E i \in DOMAIN sent : entry[sent[i]] = buffer[w].tag
      <4>1. PICK r \in Req : /\ rpc[r] = "sent" /\ rpc' = [rpc EXCEPT ![r] = "answer"]
                             /\ target' = [target EXCEPT ![w] = r]
                             /\ xpc' = [xpc EXCEPT ![w] = "answer"]
        BY <2>2, <3>2, FoundFacts
      <4> QED
        BY <1>10, <3>1, <4>1
    <3>3. CASE ~\E i \in DOMAIN sent : entry[sent[i]] = buffer[w].tag
      BY <1>3, <2>2, <3>1, <3>3 DEF GetSentClientRequest
    <3> QED
      BY <3>2, <3>3
  <2>3. CASE AnswerClient(w)
    <3>1. /\ Holding(w) /\ ~Holding(w)' /\ xpc' = [xpc EXCEPT ![w] = xpc'[w]] /\ target' = target
          /\ rpc' = [rpc EXCEPT ![target[w]] = "done"]
      BY <1>1, <2>3 DEF AnswerClient, Completing, Holding
    <3> QED
      BY <1>9, <3>1
  <2>4. CASE Ask(w)
    <3>1. ~Holding(w)
      BY <2>4 DEF Ask, Holding
    <3>2. CASE received = <<>>
      BY <1>3, <2>4, <3>1, <3>2 DEF Ask
    <3>3. CASE received # <<>>
      <4>1. Head(received) \in Req /\ rpc[Head(received)] = "received"
        BY <3>3, PlaceFacts
      <4>2. /\ rpc' = [rpc EXCEPT ![Head(received)] = "send"]
            /\ target' = [target EXCEPT ![w] = Head(received)]
            /\ \E to \in {"insert", "putback"} : xpc' = [xpc EXCEPT ![w] = to]
        BY <2>4, <3>3 DEF Ask, Fill
      <4> QED
        BY <1>10, <3>1, <4>1, <4>2
    <3> QED
      BY <3>2, <3>3
  <2> QED
    BY <1>12, <2>1, <2>2, <2>3, <2>4 DEF InKernel
<1>13. ASSUME NEW w \in Worker, InServer(w) PROVE HoldInv'
  <2>1. /\ UNCHANGED <<target, rpc>> /\ ~Holding(w)
        /\ \E to \in {"ready", "stop", "reserve"} : xpc' = [xpc EXCEPT ![w] = to]
    BY <1>13 DEF InServer, LockMemory, Refused, Exchange, Serve, Holding
  <2> QED
    BY <1>3, <2>1
<1> QED
  BY <1>4, <1>5, <1>6, <1>7, <1>8, <1>11, <1>12, <1>13 DEF OtherStep

LEMMA ListKept ==
    ASSUME IInv, OtherStep
    PROVE  ListInv'
<1> USE DEF table, info, reqs, irps, cancel
<1>0. ListInv
  BY PlaceParts DEF IInv
<1>1. /\ rpc \in [Req -> Rpc] /\ xpc \in [Worker -> Xpc]
      /\ received \in Seq(Req) /\ sent \in Seq(Req) /\ requests \in Seq(Worker)
  BY PlaceFacts DEF ReqType, IrpType, BufType, ListType
<1>2. /\ NoDup(received) /\ NoDup(sent) /\ NoDup(requests)
      /\ \A r \in Req : (InList(r, received) <=> rpc[r] = "received") /\ (InList(r, sent) <=> rpc[r] = "sent")
      /\ \A w \in Worker : InList(w, requests) => xpc[w] = "queued"
  BY <1>0 DEF ListInv
<1>3. NoDup(<<>>) /\ \A e : ~InList(e, <<>>)
  BY DEF NoDup, InList
\* One thread moves that is not in the list of requests, and one request at most.
<1>4. ASSUME NEW w \in Worker, NEW to, xpc' = [xpc EXCEPT ![w] = to], xpc[w] # "queued",
             requests' = requests,
             NEW r \in Req, \A q \in Req : q # r => rpc'[q] = rpc[q],
             NoDup(received'), NoDup(sent'),
             \A q \in Req : q # r => /\ InList(q, received') <=> InList(q, received)
                                     /\ InList(q, sent') <=> InList(q, sent),
             InList(r, received') <=> rpc'[r] = "received", InList(r, sent') <=> rpc'[r] = "sent"
      PROVE  ListInv'
  BY <1>1, <1>2, <1>4 DEF ListInv
<1>5. ASSUME NEW w \in Worker, NEW to, xpc' = [xpc EXCEPT ![w] = to] \/ xpc' = xpc,
             xpc[w] # "queued", UNCHANGED <<requests, rpc, received, sent>>
      PROVE  ListInv'
  BY <1>1, <1>2, <1>5 DEF ListInv
<1>6. ASSUME NEW f \in File, CancelAll(f) PROVE ListInv'
  BY <1>1, <1>2, <1>3, <1>6 DEF CancelAll, ListInv
<1>7. CASE Kill \/ \E i \in IRP : IoCancelIrp(i)
  BY <1>2, <1>7 DEF Kill, IoCancelIrp, ListInv
<1>8. ASSUME NEW i \in IRP, ServerIrpCancelRoutine(i) PROVE ListInv'
  <2>1. UNCHANGED <<rpc, received, sent>> /\ i[1] \in Worker
    BY <1>8 DEF ServerIrpCancelRoutine, IRP
  <2>2. CASE i[2] = "exchange"
    <3>1. requests' = Without(requests, i[1]) /\ xpc' = [xpc EXCEPT ![i[1]] = "stop"]
      BY <1>8, <2>2 DEF ServerIrpCancelRoutine
    <3>2. /\ NoDup(requests') /\ ~InList(i[1], requests')
          /\ \A v : v # i[1] => (InList(v, requests') <=> InList(v, requests))
      BY <1>1, <1>2, <3>1, WithoutFacts
    <3> QED
      BY <1>1, <1>2, <2>1, <3>1, <3>2 DEF ListInv
  <2>3. CASE i[2] # "exchange"
    BY <1>2, <1>8, <2>1, <2>3 DEF ServerIrpCancelRoutine, ListInv
  <2> QED
    BY <2>2, <2>3
<1>9. ASSUME NEW r \in Req, DispatchClientRequest(r) PROVE ListInv'
  <2>1. rpc[r] = "lock" /\ sent' = sent /\ ~InList(r, received) /\ ~InList(r, sent)
    BY <1>2, <1>9 DEF DispatchClientRequest
  <2>2. CASE UNCHANGED <<received, xpc, requests>> /\ rpc' = [rpc EXCEPT ![r] = "done"]
    BY <1>1, <1>2, <2>1, <2>2 DEF ListInv
  <2>3. CASE /\ requests' = <<>> /\ received' = Append(received, r) /\ xpc' = xpc
             /\ rpc' = [rpc EXCEPT ![r] = "received"]
    <3>1. /\ NoDup(received') /\ \A q : InList(q, received') <=> InList(q, received) \/ q = r
      BY <1>1, <1>2, <2>1, <2>3, AppendFacts
    <3> QED
      BY <1>1, <1>2, <1>3, <2>1, <2>3, <3>1 DEF ListInv
  <2>4. ASSUME NEW i \in DOMAIN requests, requests' = SubSeq(requests, i + 1, Len(requests)),
               xpc' = [xpc EXCEPT ![requests[i]] = "taken"], rpc' = [rpc EXCEPT ![r] = "send"],
               received' = received
        PROVE  ListInv'
    <3>1. /\ NoDup(requests') /\ ~InList(requests[i], requests')
          /\ \A v : InList(v, requests') => InList(v, requests)
      BY <1>1, <1>2, <2>4, BehindFacts
    <3> QED
      BY <1>1, <1>2, <2>1, <2>4, <3>1 DEF ListInv
  <2> QED
    BY <1>9, <2>2, <2>3, <2>4 DEF DispatchClientRequest, Completing
<1>10. ASSUME NEW r \in Req, NEW f \in Opener, Issue(r, f) PROVE ListInv'
  <2>1. /\ UNCHANGED <<received, sent, requests, xpc>> /\ rpc[r] = "none"
        /\ \E to \in {"done", "lock"} : rpc' = [rpc EXCEPT ![r] = to]
    BY <1>10 DEF Issue
  <2> QED
    BY <1>1, <1>2, <2>1 DEF ListInv
<1>11. ASSUME NEW w \in Worker, Forward(w) PROVE ListInv'
  <2>1. CASE SendFromClient(w)
    <3>1. Holding(w) /\ xpc[w] = "taken" /\ UNCHANGED <<received, sent, requests>>
      BY <2>1 DEF SendFromClient, Holding
    <3>2. target[w] \in Req /\ rpc[target[w]] = "send"
      BY <3>1, PlaceFacts
    <3>3. \E to : xpc' = [xpc EXCEPT ![w] = to]
      BY <2>1 DEF SendFromClient, Fill
    <3>4. rpc' = rpc \/ rpc' = [rpc EXCEPT ![target[w]] = "done"]
      BY <2>1 DEF SendFromClient, Completing
    <3> QED
      BY <1>1, <1>2, <1>4, <3>1, <3>2, <3>3, <3>4
  <2>2. CASE InsertSent(w)
    <3>1. /\ Holding(w) /\ xpc[w] = "insert" /\ UNCHANGED <<received, requests>>
          /\ xpc' = [xpc EXCEPT ![w] = "deliver"]
          /\ sent' = Append(sent, target[w]) /\ rpc' = [rpc EXCEPT ![target[w]] = "sent"]
      BY <2>2 DEF InsertSent, Holding
    <3>2. target[w] \in Req /\ rpc[target[w]] = "send"
      BY <3>1, PlaceFacts
    <3>3. NoDup(sent') /\ \A q : InList(q, sent') <=> InList(q, sent) \/ q = target[w]
      BY <1>1, <1>2, <3>1, <3>2, AppendFacts
    <3> QED
      BY <1>1, <1>2, <1>4, <3>1, <3>2, <3>3
  <2>3. CASE PutBack(w)
    <3>1. /\ Holding(w) /\ xpc[w] = "putback" /\ UNCHANGED <<sent, requests>>
          /\ xpc' = [xpc EXCEPT ![w] = "grow"]
          /\ received' = <<target[w]>> \o received /\ rpc' = [rpc EXCEPT ![target[w]] = "received"]
      BY <2>3 DEF PutBack, Holding
    <3>2. target[w] \in Req /\ rpc[target[w]] = "send"
      BY <3>1, PlaceFacts
    <3>3. NoDup(received') /\ \A q : InList(q, received') <=> InList(q, received) \/ q = target[w]
      BY <1>1, <1>2, <3>1, <3>2, FrontFacts
    <3> QED
      BY <1>1, <1>2, <1>4, <3>1, <3>2, <3>3
  <2>4. CASE Deliver(w) \/ CompleteExchange(w)
    <3>1. /\ xpc[w] # "queued" /\ UNCHANGED <<requests, rpc, received, sent>>
          /\ \E to : xpc' = [xpc EXCEPT ![w] = to]
      BY <2>4 DEF Deliver, CompleteExchange
    <3> QED
      BY <1>5, <3>1
  <2> QED
    BY <1>11, <2>1, <2>2, <2>3, <2>4 DEF Forward
<1>12. ASSUME NEW w \in Worker, InKernel(w) PROVE ListInv'
  <2>1. CASE ReserveOwn(w) \/ QueueMemoryLate(w)
    <3>1. /\ xpc[w] # "queued" /\ UNCHANGED <<requests, rpc, received, sent>>
          /\ xpc' = xpc \/ \E to : xpc' = [xpc EXCEPT ![w] = to]
      BY <2>1 DEF ReserveOwn, QueueMemoryLate
    <3> QED
      BY <1>5, <3>1
  <2>2. CASE GetSentClientRequest(w)
    <3>1. xpc[w] = "lookup" /\ UNCHANGED <<requests, received>>
      BY <2>2 DEF GetSentClientRequest
    <3>2. CASE \E i \in DOMAIN sent : entry[sent[i]] = buffer[w].tag
      <4>1. PICK r \in Req : /\ rpc[r] = "sent" /\ rpc' = [rpc EXCEPT ![r] = "answer"]
                             /\ sent' = Without(sent, r)
                             /\ xpc' = [xpc EXCEPT ![w] = "answer"]
        BY <2>2, <3>2, FoundFacts
      <4>2. /\ NoDup(sent') /\ ~InList(r, sent')
            /\ \A q : q # r => (InList(q, sent') <=> InList(q, sent))
        BY <1>1, <1>2, <4>1, WithoutFacts
      <4> QED
        BY <1>1, <1>2, <1>4, <3>1, <4>1, <4>2
    <3>3. CASE ~\E i \in DOMAIN sent : entry[sent[i]] = buffer[w].tag
      BY <1>5, <2>2, <3>1, <3>3 DEF GetSentClientRequest
    <3> QED
      BY <3>2, <3>3
  <2>3. CASE AnswerClient(w)
    <3>1. /\ Holding(w) /\ xpc[w] = "answer" /\ UNCHANGED <<received, sent, requests>>
          /\ rpc' = [rpc EXCEPT ![target[w]] = "done"] /\ \E to : xpc' = [xpc EXCEPT ![w] = to]
      BY <2>3 DEF AnswerClient, Completing, Holding
    <3>2. target[w] \in Req /\ rpc[target[w]] = "answer"
      BY <3>1, PlaceFacts
    <3> QED
      BY <1>1, <1>2, <1>4, <3>1, <3>2
  <2>4. CASE Ask(w)
    <3>1. xpc[w] = "ask" /\ sent' = sent
      BY <2>4 DEF Ask
    <3>2. CASE received = <<>>
      <4>1. /\ requests' = Append(requests, w) /\ xpc' = [xpc EXCEPT ![w] = "queued"]
            /\ UNCHANGED <<received, rpc>>
        BY <2>4, <3>2 DEF Ask
      <4>2. ~InList(w, requests)
        BY <1>2, <3>1
      <4>3. NoDup(requests') /\ \A v : InList(v, requests') <=> InList(v, requests) \/ v = w
        BY <1>1, <1>2, <4>1, <4>2, AppendFacts
      <4> QED
        BY <1>1, <1>2, <3>1, <4>1, <4>3 DEF ListInv
    <3>3. CASE received # <<>>
      <4>1. Head(received) \in Req /\ rpc[Head(received)] = "received"
        BY <3>3, PlaceFacts
      <4>2. /\ rpc' = [rpc EXCEPT ![Head(received)] = "send"] /\ received' = Tail(received)
            /\ requests' = requests /\ \E to : xpc' = [xpc EXCEPT ![w] = to]
        BY <2>4, <3>3 DEF Ask, Fill
      <4>3. /\ NoDup(received') /\ ~InList(Head(received), received')
            /\ \A q : q # Head(received) => (InList(q, received') <=> InList(q, received))
        BY <1>1, <1>2, <3>3, <4>2, TailFacts
      <4> QED
        BY <1>1, <1>2, <1>4, <3>1, <4>1, <4>2, <4>3
    <3> QED
      BY <3>2, <3>3
  <2> QED
    BY <1>12, <2>1, <2>2, <2>3, <2>4 DEF InKernel
<1>13. ASSUME NEW w \in Worker, InServer(w) PROVE ListInv'
  <2>1. /\ xpc[w] # "queued" /\ UNCHANGED <<requests, rpc, received, sent>>
        /\ \E to : xpc' = [xpc EXCEPT ![w] = to]
    BY <1>13 DEF InServer, LockMemory, Refused, Exchange, Serve
  <2> QED
    BY <1>5, <2>1
<1> QED
  BY <1>6, <1>7, <1>8, <1>9, <1>10, <1>11, <1>12, <1>13 DEF OtherStep

\* TagInv for one thread, and between two.
Quiet(w) == xpc[w] \in {"ready", "reserve", "lookup", "answer", "ask", "queued", "taken"}
ThreadTag(w) ==
    /\ Quiet(w) => buffer[w].code # "request"
    /\ Tagged(w) => /\ buffer[w].about \in Req
                    /\ \A r \in Req : entry[r] = buffer[w].tag => r = buffer[w].about
    /\ Tagged(w) /\ server = Server =>
          /\ entry[buffer[w].about] = buffer[w].tag
          /\ IF xpc[w] = "insert" THEN target[w] = buffer[w].about
             ELSE rpc[buffer[w].about] = "sent"
    /\ xpc[w] = "answer" /\ buffer[w].code = "ok" => buffer[w].about = target[w]
TagsDiffer ==
    server = Server => \A v, w \in Worker :
        Tagged(v) /\ Tagged(w) /\ buffer[v].about = buffer[w].about => v = w

LEMMA TagParts == TagInv <=> TagsDiffer /\ \A w \in Worker : ThreadTag(w)
  BY DEF TagInv, ThreadTag, TagsDiffer, Quiet
LEMMA TagPartsNext == TagInv' <=> TagsDiffer' /\ (\A w \in Worker : ThreadTag(w))'
  BY TagParts, PTL

\* A request that is not under way to the server, or that a thread has in hand, is in no
\* other buffer.
LEMMA TagElsewhere ==
    ASSUME IInv, server = Server, NEW v \in Worker, Tagged(v), NEW r \in Req,
           \/ rpc[r] \notin {"sent", "send"}
           \/ \E w \in Worker : w # v /\ Holding(w) /\ target[w] = r
    PROVE  buffer[v].about # r
<1> SUFFICES ASSUME buffer[v].about = r PROVE FALSE
  OBVIOUS
<1>1. IF xpc[v] = "insert" THEN target[v] = r ELSE rpc[r] = "sent"
  BY TagParts DEF IInv, ThreadTag
<1>2. xpc[v] = "insert" => Holding(v) /\ rpc[r] = "send"
  BY <1>1, PlaceFacts DEF Holding
<1>3. rpc[r] \in {"sent", "send"}
  BY <1>1, <1>2
<1>4. PICK w \in Worker : w # v /\ Holding(w) /\ target[w] = r
  BY <1>3
<1>5. rpc[r] \in {"send", "answer"}
  BY <1>4, PlaceFacts
<1> QED
  BY <1>1, <1>2, <1>4, <1>5, PlaceFacts

\* One thread and one request that no other buffer is about.
LEMMA TagMove ==
    ASSUME IInv, NEW w \in Worker, NEW r \in Req, Only(w, r), server' = server,
           \A v \in Worker : v # w => buffer'[v] = buffer[v],
           \A q \in Req : q # r => entry'[q] = entry[q],
           entry'[r] = entry[r] \/ entry'[r] = None,
           \/ rpc'[r] = rpc[r] /\ entry'[r] = entry[r]
           \/ server = Server => \A v \in Worker : v # w /\ Tagged(v) => buffer[v].about # r,
           ThreadTag(w)',
           Tagged(w)' /\ server = Server =>
              \A v \in Worker : v # w /\ Tagged(v) => buffer[v].about # buffer'[w].about
    PROVE  TagInv'
<1>1. \A v \in Worker : v # w => /\ xpc'[v] = xpc[v] /\ target'[v] = target[v]
                                 /\ buffer'[v] = buffer[v] /\ (Tagged(v)' <=> Tagged(v))
  BY DEF Only, Tagged, Carrying
<1>2. TagsDiffer /\ \A v \in Worker : ThreadTag(v)
  BY TagParts DEF IInv
<1>3. \A q \in Req : entry'[q] = entry[q] \/ entry'[q] = None
  OBVIOUS
<1>4. ASSUME NEW v \in Worker, v # w PROVE ThreadTag(v)'
  <2>1. /\ xpc'[v] = xpc[v] /\ target'[v] = target[v] /\ buffer'[v] = buffer[v]
        /\ (Tagged(v)' <=> Tagged(v)) /\ ThreadTag(v)
    BY <1>1, <1>2, <1>4
  <2>2. Tagged(v) => buffer[v].tag # None
    BY DEF Tagged
  <2>3. Tagged(v) => \A q \in Req : entry'[q] = buffer[v].tag => q = buffer[v].about
    BY <1>3, <2>1, <2>2 DEF ThreadTag
  <2>4. Tagged(v) /\ server = Server =>
           /\ entry'[buffer[v].about] = buffer[v].tag
           /\ IF xpc[v] = "insert" THEN target[v] = buffer[v].about ELSE rpc'[buffer[v].about] = "sent"
    BY <1>4, <2>1 DEF ThreadTag, Only
  <2> QED
    BY <2>1, <2>3, <2>4 DEF ThreadTag, Quiet
<1>5. TagsDiffer'
  BY <1>1, <1>2 DEF TagsDiffer
<1> QED
  BY <1>4, <1>5, TagPartsNext

\* One thread that ends up with a buffer that is about nothing.
LEMMA TagDrop ==
    ASSUME IInv, NEW w \in Worker, server' = server, entry' = entry, rpc' = rpc,
           \A v \in Worker : v # w => /\ xpc'[v] = xpc[v] /\ target'[v] = target[v]
                                      /\ buffer'[v] = buffer[v],
           ~Tagged(w)', Quiet(w)' => buffer'[w].code # "request", xpc'[w] # "answer"
    PROVE  TagInv'
<1>1. \A v \in Worker : v # w => (Tagged(v)' <=> Tagged(v)) /\ (Quiet(v)' <=> Quiet(v))
  BY DEF Tagged, Carrying, Quiet
<1>2. TagsDiffer /\ \A v \in Worker : ThreadTag(v)
  BY TagParts DEF IInv
<1>3. \A v \in Worker : v # w => ThreadTag(v)'
  BY <1>1, <1>2 DEF ThreadTag
<1>4. ThreadTag(w)'
  BY DEF ThreadTag
<1>5. TagsDiffer'
  BY <1>1, <1>2 DEF TagsDiffer
<1> QED
  BY <1>3, <1>4, <1>5, TagPartsNext

\* One thread that moves on with the same buffer.
LEMMA TagPass ==
    ASSUME IInv, NEW w \in Worker, server' = server, entry' = entry, rpc' = rpc,
           \A v \in Worker : v # w => /\ xpc'[v] = xpc[v] /\ target'[v] = target[v]
                                      /\ buffer'[v] = buffer[v],
           buffer'[w].tag = buffer[w].tag /\ buffer'[w].about = buffer[w].about,
           Tagged(w)' => Tagged(w), Quiet(w)' => buffer'[w].code # "request",
           xpc'[w] # "answer", xpc'[w] = "insert" <=> xpc[w] = "insert", 
           xpc[w] = "insert" => target'[w] = target[w]
    PROVE  TagInv'
<1>1. \A v \in Worker : v # w => (Tagged(v)' <=> Tagged(v)) /\ (Quiet(v)' <=> Quiet(v))
  BY DEF Tagged, Carrying, Quiet
<1>2. TagsDiffer /\ \A v \in Worker : ThreadTag(v)
  BY TagParts DEF IInv
<1>3. \A v \in Worker : v # w => ThreadTag(v)'
  BY <1>1, <1>2 DEF ThreadTag
<1>4. ThreadTag(w)'
  BY <1>2 DEF ThreadTag
<1>5. TagsDiffer'
  BY <1>1, <1>2 DEF TagsDiffer
<1> QED
  BY <1>3, <1>4, <1>5, TagPartsNext

\* A buffer is filled for a request that no other buffer is about.
LEMMA TagFill ==
    ASSUME IInv, NEW w \in Worker, NEW r \in Req, Fill(w, r), Only(w, r),
           UNCHANGED <<server, entry>>, entry[r] # None, target'[w] = r,
           server = Server => \A v \in Worker : v # w /\ Tagged(v) => buffer[v].about # r
    PROVE  TagInv'
<1>1. xpc \in [Worker -> Xpc] /\ buffer \in [Worker -> Message]
  BY PlaceFacts DEF IrpType, BufType
<1>2. \A v \in Worker : v # w => buffer'[v] = buffer[v]
  BY <1>1 DEF Fill
<1>3. \A q \in Req : entry[q] = entry[r] => q = r
  BY DEF IInv, EntryInv
<1>4. CASE xpc' = [xpc EXCEPT ![w] = "putback"]
  <2>1. xpc'[w] = "putback"
    BY <1>1, <1>4
  <2>2. ThreadTag(w)' /\ ~Tagged(w)'
    BY <2>1 DEF ThreadTag, Tagged, Carrying, Quiet
  <2> QED
    BY <1>2, <2>2, TagMove
<1>5. CASE /\ buffer' = [buffer EXCEPT ![w] = [tag |-> entry[r], code |-> "request", about |-> r]]
           /\ xpc' = [xpc EXCEPT ![w] = "insert"]
  <2>1. /\ xpc'[w] = "insert" /\ buffer'[w].tag = entry[r] /\ buffer'[w].about = r
    BY <1>1, <1>5
  <2>2. ThreadTag(w)'
    BY <1>3, <2>1 DEF ThreadTag, Quiet
  <2> QED
    BY <1>2, <2>1, <2>2, TagMove
<1> QED
  BY <1>4, <1>5 DEF Fill

LEMMA TagCancel ==
    ASSUME IInv, NEW f \in File, CancelAll(f)
    PROVE  TagInv'
<1> USE DEF table, info, reqs, irps, cancel
<1>1. server' = None /\ Server # None /\ target' = target
  BY NameFacts DEF CancelAll, IInv, ServerInv
<1>2. /\ rpc \in [Req -> Rpc] /\ xpc \in [Worker -> Xpc] /\ buffer \in [Worker -> Message]
      /\ entry \in [Req -> Addr \cup {None}]
  BY PlaceFacts DEF ReqType, IrpType, BufType
<1>3. \A q \in Req : entry'[q] = entry[q] \/ entry'[q] = None
  BY <1>2 DEF CancelAll
<1>4. ASSUME NEW v \in Worker PROVE ThreadTag(v)'
  <2>1. ThreadTag(v) /\ (InList(v, requests) => xpc[v] = "queued")
    BY TagParts DEF IInv, PlaceInv
  <2>2. /\ xpc'[v] = (IF InList(v, requests) THEN "serve" ELSE xpc[v])
        /\ \/ buffer'[v] = buffer[v]
           \/ buffer'[v] = [buffer[v] EXCEPT !.tag = None, !.code = "close"]
    BY <1>2 DEF CancelAll
  <2>3. \/ buffer'[v] = buffer[v]
        \/ buffer'[v].tag = None /\ buffer'[v].code = "close" /\ buffer'[v].about = buffer[v].about
    BY <1>2, <2>2 DEF Message
  <2>4. Quiet(v)' => Quiet(v) /\ xpc'[v] = xpc[v]
    BY <2>2 DEF Quiet
  <2>5. CASE InList(v, requests)
    <3>1. xpc'[v] = "serve" /\ buffer'[v].code # "request"
      BY <2>1, <2>2, <2>3, <2>5 DEF ThreadTag, Quiet
    <3> QED
      BY <3>1 DEF ThreadTag, Tagged, Carrying, Quiet
  <2>6. CASE ~InList(v, requests)
    <3>1. xpc'[v] = xpc[v]
      BY <2>2, <2>6
    <3>2. Tagged(v)' => Tagged(v) /\ buffer'[v] = buffer[v]
      BY <2>3, <3>1 DEF Tagged, Carrying
    <3>3. Tagged(v) => buffer[v].tag # None
      BY DEF Tagged
    <3> QED
      BY <1>1, <1>3, <2>1, <2>3, <2>4, <3>1, <3>2, <3>3 DEF ThreadTag
  <2> QED
    BY <2>5, <2>6
<1> QED
  BY <1>1, <1>4, TagPartsNext DEF TagsDiffer

LEMMA TagClient ==
    ASSUME IInv, NEW r \in Req, DispatchClientRequest(r) \/ \E f \in Opener : Issue(r, f)
    PROVE  TagInv'
<1> USE DEF table, info, reqs, irps, cancel
<1>1. /\ rpc \in [Req -> Rpc] /\ xpc \in [Worker -> Xpc] /\ buffer \in [Worker -> Message]
      /\ entry \in [Req -> Addr \cup {None}] /\ target \in [Worker -> Req \cup {None}]
      /\ requests \in Seq(Worker) /\ Server # None
  BY PlaceFacts, NameFacts DEF ReqType, IrpType, BufType, ListType
<1>2. TagsDiffer /\ \A v \in Worker : ThreadTag(v)
  BY TagParts DEF IInv
<1>3. UNCHANGED <<server, buffer>>
  BY DEF DispatchClientRequest, Issue
<1>4. rpc[r] \in {"none", "lock"} /\ \A q \in Req : q # r => rpc'[q] = rpc[q] /\ entry'[q] = entry[q]
  BY <1>1 DEF DispatchClientRequest, Issue, Completing
<1>5. server = Server => \A v \in Worker : Tagged(v) => buffer[v].about # r
  BY <1>4, TagElsewhere
\* No buffer has the address that the request has now.
<1>6. \A v \in Worker : Tagged(v) => entry'[r] # buffer[v].tag \/ entry'[r] = entry[r]
  <2>1. CASE entry'[r] = entry[r] \/ entry'[r] = None
    BY <2>1 DEF Tagged
  <2>2. CASE ~(entry'[r] = entry[r] \/ entry'[r] = None)
    <3>1. server = Server /\ \E a \in Addr \ Range(entry) : entry' = [entry EXCEPT ![r] = a]
      <4>1. ~DispatchClientRequest(r)
        BY <1>1, <2>2 DEF DispatchClientRequest, Completing
      <4>2. PICK f \in Opener : Issue(r, f)
        BY <4>1
      <4>3. entry' # entry
        BY <2>2
      <4> QED
        BY <4>2, <4>3, Types DEF Issue, IInv, TableType
    <3>2. \A q \in Req : entry[q] # entry'[r]
      BY <1>1, <3>1 DEF Range
    <3>3. ASSUME NEW v \in Worker, Tagged(v) PROVE entry[buffer[v].about] = buffer[v].tag /\ buffer[v].about \in Req
      BY <1>2, <3>1, <3>3 DEF ThreadTag
    <3> QED
      BY <3>2, <3>3
  <2> QED
    BY <2>1, <2>2
<1>7. \A v \in Worker : Tagged(v) => \A q \in Req : entry'[q] = buffer[v].tag => q = buffer[v].about
  <2> SUFFICES ASSUME NEW v \in Worker, Tagged(v), NEW q \in Req, entry'[q] = buffer[v].tag
               PROVE  q = buffer[v].about
    OBVIOUS
  <2>1. entry[q] = buffer[v].tag
    BY <1>4, <1>6
  <2> QED
    BY <1>2, <2>1 DEF ThreadTag
<1>8. \A v \in Worker : Tagged(v) /\ server = Server =>
         entry'[buffer[v].about] = buffer[v].tag
         /\ IF xpc[v] = "insert" THEN target[v] = buffer[v].about ELSE rpc'[buffer[v].about] = "sent"
  BY <1>2, <1>4, <1>5 DEF ThreadTag
\* The threads, but the one that gets the request, stay where they are.
<1>9. \A v \in Worker :
         \/ xpc'[v] = xpc[v] /\ target'[v] = target[v]
         \/ Quiet(v) /\ ~Tagged(v) /\ xpc'[v] = "taken"
  <2>1. CASE UNCHANGED <<xpc, target>>
    BY <2>1
  <2>2. ASSUME NEW i \in DOMAIN requests, xpc' = [xpc EXCEPT ![requests[i]] = "taken"],
               target' = [target EXCEPT ![requests[i]] = r], NEW v \in Worker
        PROVE  \/ xpc'[v] = xpc[v] /\ target'[v] = target[v]
               \/ Quiet(v) /\ ~Tagged(v) /\ xpc'[v] = "taken"
    <3>1. requests[i] \in Worker /\ xpc[requests[i]] = "queued"
      BY <1>1 DEF IInv, PlaceInv, InList
    <3>2. CASE v = requests[i]
      BY <1>1, <2>2, <3>1, <3>2 DEF Quiet, Tagged, Carrying
    <3>3. CASE v # requests[i]
      BY <1>1, <2>2, <3>1, <3>3
    <3> QED
      BY <3>2, <3>3
  <2> QED
    BY <2>1, <2>2 DEF DispatchClientRequest, Issue
<1>10. ASSUME NEW v \in Worker PROVE ThreadTag(v)' /\ (Tagged(v)' <=> Tagged(v))
  <2>1. CASE xpc'[v] = xpc[v] /\ target'[v] = target[v]
    <3>1. Tagged(v)' <=> Tagged(v)
      BY <1>3, <2>1 DEF Tagged, Carrying
    <3> QED
      BY <1>2, <1>3, <1>7, <1>8, <2>1, <3>1 DEF ThreadTag, Quiet
  <2>2. CASE Quiet(v) /\ ~Tagged(v) /\ xpc'[v] = "taken"
    <3>1. ~Tagged(v)'
      BY <2>2 DEF Tagged, Carrying
    <3> QED
      BY <1>2, <1>3, <2>2, <3>1 DEF ThreadTag
  <2> QED
    BY <1>9, <2>1, <2>2
<1>11. TagsDiffer'
  BY <1>2, <1>3, <1>10 DEF TagsDiffer
<1> QED
  BY <1>10, <1>11, TagPartsNext

LEMMA TagForward ==
    ASSUME IInv, NEW w \in Worker, Forward(w)
    PROVE  TagInv'
<1> USE DEF table, info, reqs, irps, cancel
<1>1. /\ rpc \in [Req -> Rpc] /\ xpc \in [Worker -> Xpc] /\ buffer \in [Worker -> Message]
      /\ entry \in [Req -> Addr \cup {None}] /\ target \in [Worker -> Req \cup {None}]
  BY PlaceFacts DEF ReqType, IrpType, BufType
<1>2. ThreadTag(w)
  BY TagParts DEF IInv
\* The request in its hands is in no other buffer.
<1>3. Holding(w) => /\ target[w] \in Req
                    /\ entry[target[w]] # None
                    /\ server = Server => \A v \in Worker : v # w /\ Tagged(v) =>
                                             buffer[v].about # target[w]
  <2>1. Holding(w) => target[w] \in Req /\ rpc[target[w]] \in {"answer", "send"}
    BY PlaceFacts
  <2> QED
    BY <2>1, TagElsewhere DEF IInv, EntryInv
<1>4. CASE SendFromClient(w)
  <2>1. Holding(w) /\ xpc[w] = "taken" /\ UNCHANGED <<server, target>>
    BY <1>4 DEF SendFromClient, Holding
  <2>2. CASE Reservable(w)
    <3>1. Fill(w, target[w]) /\ UNCHANGED <<rpc, entry>>
      BY <1>4, <2>2 DEF SendFromClient
    <3>2. Only(w, target[w])
      BY <1>1, <2>1, <3>1 DEF Only, Fill
    <3> QED
      BY <1>3, <2>1, <3>1, <3>2, TagFill
  <2>3. CASE ~Reservable(w)
    <3>1. /\ xpc' = [xpc EXCEPT ![w] = "stop"] /\ buffer' = buffer
          /\ rpc' = [rpc EXCEPT ![target[w]] = "done"]
          /\ entry' = [entry EXCEPT ![target[w]] = None]
      BY <1>4, <2>3 DEF SendFromClient, Completing
    <3>2. Only(w, target[w]) /\ xpc'[w] = "stop"
      BY <1>1, <2>1, <3>1 DEF Only
    <3>3. ThreadTag(w)' /\ ~Tagged(w)'
      BY <3>2 DEF ThreadTag, Tagged, Carrying, Quiet
    <3> QED
      BY <1>1, <1>3, <2>1, <3>1, <3>2, <3>3, TagMove
  <2> QED
    BY <2>2, <2>3
<1>5. CASE InsertSent(w)
  <2>1. /\ Holding(w) /\ xpc[w] = "insert" /\ UNCHANGED <<server, target, buffer, entry>>
        /\ xpc' = [xpc EXCEPT ![w] = "deliver"] /\ rpc' = [rpc EXCEPT ![target[w]] = "sent"]
    BY <1>5 DEF InsertSent, Holding
  <2>2. /\ Only(w, target[w]) /\ xpc'[w] = "deliver" /\ rpc'[target[w]] = "sent"
    BY <1>1, <1>3, <2>1 DEF Only
  <2>3. Tagged(w)' <=> Tagged(w)
    BY <2>1, <2>2 DEF Tagged, Carrying
  <2>4. Tagged(w) /\ server = Server => target[w] = buffer[w].about
    BY <1>2, <2>1 DEF ThreadTag
  <2>5. ThreadTag(w)'
    BY <1>2, <2>1, <2>2, <2>3, <2>4 DEF ThreadTag, Quiet
  <2> QED
    BY <1>3, <2>1, <2>2, <2>3, <2>4, <2>5, TagMove
<1>6. CASE PutBack(w)
  <2>1. /\ Holding(w) /\ UNCHANGED <<server, target, buffer, entry>>
        /\ xpc' = [xpc EXCEPT ![w] = "grow"] /\ rpc' = [rpc EXCEPT ![target[w]] = "received"]
    BY <1>6 DEF PutBack, Holding
  <2>2. Only(w, target[w]) /\ xpc'[w] = "grow"
    BY <1>1, <1>3, <2>1 DEF Only
  <2>3. ThreadTag(w)' /\ ~Tagged(w)'
    BY <2>2 DEF ThreadTag, Tagged, Carrying, Quiet
  <2> QED
    BY <1>3, <2>1, <2>2, <2>3, TagMove
<1>7. CASE Deliver(w)
  <2>1. /\ xpc[w] = "deliver" /\ UNCHANGED <<server, buffer, entry, rpc>>
        /\ xpc' = [xpc EXCEPT ![w] = "complete"] /\ target' = [target EXCEPT ![w] = None]
    BY <1>7 DEF Deliver
  <2>2. xpc'[w] = "complete" /\ \A v \in Worker : v # w => xpc'[v] = xpc[v] /\ target'[v] = target[v]
    BY <1>1, <2>1
  <2>3. (Tagged(w)' => Tagged(w)) /\ ~Quiet(w)'
    BY <2>1, <2>2 DEF Tagged, Carrying, Quiet
  <2> QED
    BY <2>1, <2>2, <2>3, TagPass
<1>8. CASE CompleteExchange(w)
  <2>1. /\ xpc[w] = "complete" /\ UNCHANGED <<server, buffer, entry, rpc, target>>
        /\ xpc' = [xpc EXCEPT ![w] = "serve"]
    BY <1>8 DEF CompleteExchange
  <2>2. xpc'[w] = "serve" /\ \A v \in Worker : v # w => xpc'[v] = xpc[v]
    BY <1>1, <2>1
  <2>3. (Tagged(w)' => Tagged(w)) /\ ~Quiet(w)'
    BY <2>1, <2>2 DEF Tagged, Carrying, Quiet
  <2> QED
    BY <2>1, <2>2, <2>3, TagPass
<1> QED
  BY <1>4, <1>5, <1>6, <1>7, <1>8 DEF Forward

LEMMA TagKernel ==
    ASSUME IInv, NEW w \in Worker, InKernel(w)
    PROVE  TagInv'
<1> USE DEF table, info, reqs, irps, cancel
<1>1. /\ rpc \in [Req -> Rpc] /\ xpc \in [Worker -> Xpc] /\ buffer \in [Worker -> Message]
      /\ entry \in [Req -> Addr \cup {None}] /\ target \in [Worker -> Req \cup {None}]
  BY PlaceFacts DEF ReqType, IrpType, BufType
<1>2. TagsDiffer /\ ThreadTag(w)
  BY TagParts DEF IInv
<1>3. CASE ReserveOwn(w)
  <2>1. /\ xpc[w] = "reserve" /\ UNCHANGED <<server, buffer, entry, rpc, target>>
        /\ \/ xpc' = [xpc EXCEPT ![w] = "lookup"]
           \/ xpc' = [xpc EXCEPT ![w] = "ask"]
           \/ xpc' = [xpc EXCEPT ![w] = "stop"]
    BY <1>3 DEF ReserveOwn
  <2>2. /\ xpc'[w] \in {"lookup", "ask", "stop"}
        /\ \A v \in Worker : v # w => xpc'[v] = xpc[v]
    BY <1>1, <2>1
  <2>3. Tagged(w)' => Tagged(w)
    BY <2>1, <2>2 DEF Tagged, Carrying
  <2>4. buffer[w].code # "request"
    BY <1>2, <2>1 DEF ThreadTag, Quiet
  <2> QED
    BY <2>1, <2>2, <2>3, <2>4, TagPass
<1>4. CASE GetSentClientRequest(w)
  <2>1. xpc[w] = "lookup" /\ UNCHANGED <<server, buffer, entry>>
    BY <1>4 DEF GetSentClientRequest
  <2>2. buffer[w].code # "request"
    BY <1>2, <2>1 DEF ThreadTag, Quiet
  <2>3. CASE \E i \in DOMAIN sent : entry[sent[i]] = buffer[w].tag
    <3>1. PICK r \in Req : /\ entry[r] = buffer[w].tag /\ rpc[r] = "sent" /\ entry[r] # None
                           /\ rpc' = [rpc EXCEPT ![r] = "answer"]
                           /\ target' = [target EXCEPT ![w] = r]
                           /\ xpc' = [xpc EXCEPT ![w] = "answer"]
      BY <1>4, <2>3, FoundFacts
    <3>2. Tagged(w)
      BY <2>1, <3>1 DEF Tagged, Carrying
    <3>3. r = buffer[w].about
      BY <1>2, <3>1, <3>2 DEF ThreadTag
    <3>4. server = Server => \A v \in Worker : v # w /\ Tagged(v) => buffer[v].about # r
      BY <1>2, <3>2, <3>3 DEF TagsDiffer
    <3>5. Only(w, r) /\ xpc'[w] = "answer" /\ target'[w] = r
      BY <1>1, <3>1 DEF Only
    <3>6. ~Tagged(w)'
      BY <3>5 DEF Tagged, Carrying
    <3>7. ThreadTag(w)'
      BY <2>1, <2>2, <3>3, <3>5, <3>6 DEF ThreadTag, Quiet
    <3> QED
      BY <2>1, <3>4, <3>5, <3>6, <3>7, TagMove
  <2>4. CASE ~\E i \in DOMAIN sent : entry[sent[i]] = buffer[w].tag
    <3>1. xpc' = [xpc EXCEPT ![w] = "stop"] /\ UNCHANGED <<rpc, target>>
      BY <1>4, <2>4 DEF GetSentClientRequest
    <3>2. xpc'[w] = "stop" /\ \A v \in Worker : v # w => xpc'[v] = xpc[v]
      BY <1>1, <3>1
    <3>3. ~Tagged(w)' /\ ~Quiet(w)'
      BY <3>2 DEF Tagged, Carrying, Quiet
    <3> QED
      BY <2>1, <3>1, <3>2, <3>3, TagDrop
  <2> QED
    BY <2>3, <2>4
<1>5. CASE AnswerClient(w)
  <2>1. /\ xpc[w] = "answer" /\ Holding(w) /\ UNCHANGED <<server, buffer, target>>
        /\ rpc' = [rpc EXCEPT ![target[w]] = "done"]
        /\ entry' = [entry EXCEPT ![target[w]] = None]
        /\ \/ xpc' = [xpc EXCEPT ![w] = "ask"]
           \/ xpc' = [xpc EXCEPT ![w] = "stop"]
    BY <1>5 DEF AnswerClient, Completing, Holding
  <2>2. target[w] \in Req /\ rpc[target[w]] = "answer"
    BY <2>1, PlaceFacts
  <2>3. Only(w, target[w]) /\ xpc'[w] \in {"ask", "stop"}
    BY <1>1, <2>1 DEF Only
  <2>4. server = Server => \A v \in Worker : Tagged(v) => buffer[v].about # target[w]
    BY <2>2, TagElsewhere
  <2>5. buffer[w].code # "request"
    BY <1>2, <2>1 DEF ThreadTag, Quiet
  <2>6. ~Tagged(w)'
    BY <2>3 DEF Tagged, Carrying
  <2>7. ThreadTag(w)'
    BY <2>1, <2>3, <2>5, <2>6 DEF ThreadTag
  <2> QED
    BY <1>1, <2>1, <2>2, <2>3, <2>4, <2>6, <2>7, TagMove
<1>6. CASE Ask(w)
  <2>1. xpc[w] = "ask" /\ UNCHANGED <<server, entry>>
    BY <1>6 DEF Ask
  <2>2. buffer[w].code # "request"
    BY <1>2, <2>1 DEF ThreadTag, Quiet
  <2>3. CASE received = <<>>
    <3>1. xpc' = [xpc EXCEPT ![w] = "queued"] /\ UNCHANGED <<rpc, target, buffer>>
      BY <1>6, <2>3 DEF Ask
    <3>2. xpc'[w] = "queued" /\ \A v \in Worker : v # w => xpc'[v] = xpc[v]
      BY <1>1, <3>1
    <3>3. ~Tagged(w)'
      BY <3>2 DEF Tagged, Carrying
    <3> QED
      BY <2>1, <2>2, <3>1, <3>2, <3>3, TagDrop
  <2>4. CASE received # <<>>
    <3>1. PICK r \in Req : r = Head(received) /\ rpc[r] = "received"
      BY <2>4, PlaceFacts
    <3>2. /\ rpc' = [rpc EXCEPT ![r] = "send"] /\ target' = [target EXCEPT ![w] = r] /\ Fill(w, r)
      BY <1>6, <2>4, <3>1 DEF Ask
    <3>3. Only(w, r) /\ target'[w] = r
      BY <1>1, <3>2 DEF Only, Fill
    <3>4. entry[r] # None
      BY <3>1 DEF IInv, EntryInv
    <3>5. server = Server => \A v \in Worker : Tagged(v) => buffer[v].about # r
      BY <3>1, TagElsewhere
    <3> QED
      BY <2>1, <3>2, <3>3, <3>4, <3>5, TagFill
  <2> QED
    BY <2>3, <2>4
<1>7. CASE QueueMemoryLate(w)
  <2>1. UNCHANGED <<server, buffer, entry, rpc, target, xpc>> /\ xpc[w] = "stop"
    BY <1>7 DEF QueueMemoryLate
  <2>2. ~Tagged(w)' /\ ~Quiet(w)'
    BY <2>1 DEF Tagged, Carrying, Quiet
  <2> QED
    BY <2>1, <2>2, TagDrop
<1> QED
  BY <1>3, <1>4, <1>5, <1>6, <1>7 DEF InKernel

LEMMA TagServer ==
    ASSUME IInv, NEW w \in Worker, InServer(w)
    PROVE  TagInv'
<1> USE DEF table, info, reqs, irps, cancel
<1>1. xpc \in [Worker -> Xpc] /\ buffer \in [Worker -> Message]
  BY PlaceFacts DEF IrpType, BufType
<1>2. ThreadTag(w)
  BY TagParts DEF IInv
<1>3. /\ UNCHANGED <<server, entry, rpc, target>>
      /\ \A v \in Worker : v # w => xpc'[v] = xpc[v]
  BY <1>1 DEF InServer, LockMemory, Exchange, Refused, Serve
<1>4. ASSUME NEW first \in BOOLEAN, LockMemory(w, first) PROVE TagInv'
  <2>1. /\ xpc' = [xpc EXCEPT ![w] = "ready"]
        /\ buffer' = [buffer EXCEPT ![w] = [NoMessage EXCEPT !.code = IF first THEN "info" ELSE "null"]]
    BY <1>4 DEF LockMemory, AllocDrvBuffer
  <2>2. /\ xpc'[w] = "ready" /\ \A v \in Worker : v # w => buffer'[v] = buffer[v]
        /\ buffer'[w].tag = None /\ buffer'[w].code \in {"info", "null"}
    BY <1>1, <2>1 DEF NoMessage
  <2>3. ~Tagged(w)'
    BY <2>2 DEF Tagged
  <2> QED
    BY <1>3, <2>2, <2>3, TagDrop
<1>5. CASE Exchange(w)
  <2>1. xpc[w] = "ready" /\ xpc' = [xpc EXCEPT ![w] = "reserve"] /\ buffer' = buffer
    BY <1>5 DEF Exchange
  <2>2. xpc'[w] = "reserve" /\ buffer[w].code # "request"
    BY <1>1, <1>2, <2>1 DEF ThreadTag, Quiet
  <2>3. Tagged(w)' => Tagged(w)
    BY <2>1, <2>2 DEF Tagged, Carrying
  <2> QED
    BY <1>3, <2>1, <2>2, <2>3, TagPass
<1>6. CASE Refused(w) \/ (Serve(w) /\ buffer[w].code # "request")
  <2>1. xpc'[w] = "stop" /\ buffer' = buffer
    BY <1>1, <1>6 DEF Refused, Serve
  <2>2. ~Tagged(w)' /\ ~Quiet(w)'
    BY <2>1 DEF Tagged, Carrying, Quiet
  <2> QED
    BY <1>3, <2>1, <2>2, TagDrop
<1>7. CASE Serve(w) /\ buffer[w].code = "request"
  <2>1. PICK c \in {"ok", "error", "bad"} : buffer' = [buffer EXCEPT ![w].code = c]
    BY <1>7 DEF Serve
  <2>2. xpc[w] = "serve" /\ xpc'[w] = "ready"
    BY <1>1, <1>7 DEF Serve
  <2>3. /\ \A v \in Worker : v # w => buffer'[v] = buffer[v]
        /\ buffer'[w].tag = buffer[w].tag /\ buffer'[w].about = buffer[w].about
        /\ buffer'[w].code # "request"
    BY <1>1, <2>1 DEF Message
  <2>4. Tagged(w)' => Tagged(w)
    BY <1>7, <2>2, <2>3 DEF Tagged, Carrying
  <2> QED
    BY <1>3, <2>2, <2>3, <2>4, TagPass
<1> QED
  BY <1>4, <1>5, <1>6, <1>7 DEF InServer

LEMMA TagKept ==
    ASSUME IInv, OtherStep
    PROVE  TagInv'
<1> USE DEF table, info, reqs, irps, cancel
<1>1. CASE Kill \/ \E i \in IRP : IoCancelIrp(i)
  <2>1. UNCHANGED <<server, buffer, entry, rpc, target, xpc>>
    BY <1>1 DEF Kill, IoCancelIrp
  <2> QED
    BY <2>1 DEF IInv, TagInv, Tagged, Carrying
<1>2. ASSUME NEW i \in IRP, ServerIrpCancelRoutine(i) PROVE TagInv'
  <2>1. i[1] \in Worker /\ UNCHANGED <<server, buffer, entry, rpc, target>>
    BY <1>2 DEF ServerIrpCancelRoutine, IRP
  <2>2. CASE i[2] = "exchange"
    <3>1. /\ xpc'[i[1]] = "stop" /\ \A v \in Worker : v # i[1] => xpc'[v] = xpc[v]
      BY <1>2, <2>1, <2>2, PlaceFacts DEF ServerIrpCancelRoutine, IrpType
    <3>2. PICK w \in Worker : w = i[1]
      BY <2>1
    <3>3. ~Tagged(w)' /\ ~Quiet(w)'
      BY <3>1, <3>2 DEF Tagged, Carrying, Quiet
    <3> QED
      BY <2>1, <3>1, <3>2, <3>3, TagDrop
  <2>3. CASE i[2] # "exchange"
    <3>1. xpc' = xpc
      BY <1>2, <2>3 DEF ServerIrpCancelRoutine
    <3> QED
      BY <2>1, <3>1 DEF IInv, TagInv, Tagged, Carrying
  <2> QED
    BY <2>2, <2>3
<1> QED
  BY <1>1, <1>2, TagCancel, TagClient, TagForward, TagKernel, TagServer DEF OtherStep

LEMMA CancelAllKept ==
    ASSUME IInv, NEW f \in File, CancelAll(f)
    PROVE  CountInv' /\ ServerInv'
<1>1. CountInv'
  BY TableCount DEF IInv
<1>2. /\ handle'[Server] = "none" => RefCount' = 0 /\ server' = None
      /\ handle'[Server] = "none" => handle[Server] = "none"
      /\ server' = Server => handle'[Server] = "open"
      /\ \A g \in File : handle'[g] = "cancel" => server' = None
      /\ Attached(Server)' => \A e, g \in File : Client(e)' /\ Client(g)' => e = g
  BY FileServer DEF IInv
<1>3. ASSUME handle[Server] = "none", NEW w \in Worker PROVE xpc'[w] = "out"
  <2>1. xpc[w] = "out" /\ ~InList(w, requests)
    BY <1>3 DEF IInv, ServerInv, PlaceInv
  <2> QED
    BY <2>1 DEF CancelAll
<1> QED
  BY <1>1, <1>2, <1>3 DEF ServerInv

LEMMA InitInv == Init => IInv
<1> SUFFICES ASSUME Init PROVE IInv
  OBVIOUS
<1>1. TypeOK
  <2>1. <<>> \in Seq(Req) /\ <<>> \in Seq(Worker)
    OBVIOUS
  <2>2. 0 \in 0 .. Cardinality(File) /\ 0 \in 0 .. Cardinality(Opener)
    BY CountFacts
  <2>3. BufType /\ ListType
    BY <2>1 DEF Init, BufType, ListType, Message, NoMessage, Code
  <2>4. TableType /\ ReqType /\ IrpType /\ StopType
    BY <2>2 DEF Init, TableType, ReqType, IrpType, StopType, Rpc, Xpc
  <2> QED
    BY <2>3, <2>4, Types
<1>2. CountInv
  <2>1. Holders = {} /\ Gone = {}
    BY NameFacts DEF Init, Holders, Gone, Attached
  <2>2. Cardinality(Holders) = 0 /\ Cardinality(Gone) = 0
    BY <2>1, FS_EmptySet
  <2> QED
    BY <2>2, NameFacts DEF Init, CountInv
<1>3. ServerInv
  BY NameFacts DEF Init, ServerInv, Attached
<1>4. \A e : ~InList(e, <<>>)
  BY DEF InList
<1>5. PlaceInv /\ CancelInv /\ EntryInv /\ ResultInv
  BY <1>4 DEF Init, PlaceInv, CancelInv, EntryInv, ResultInv, NoDup, Holding
<1>6. \A w \in Worker : ~Tagged(w)
  BY DEF Init, Tagged, Carrying
<1>7. TagInv /\ MemoryInv
  BY <1>6 DEF Init, TagInv, MemoryInv
<1> QED
  BY <1>1, <1>2, <1>3, <1>5, <1>7 DEF IInv

LEMMA StepInv == IInv /\ [Next]_vars => IInv'
<1> SUFFICES ASSUME IInv, [Next]_vars PROVE IInv'
  OBVIOUS
<1>1. CASE CreateFileTableEntry \/ \E f \in File : FileStep(f)
  BY <1>1, FileKept
<1>2. CASE OtherStep
  <2>1. TypeOK'
    BY <1>2, OtherType DEF IInv
  <2>2. CountInv' /\ ServerInv'
    BY <1>2, CancelAllKept, ServerKept DEF IInv
  <2>3. PlaceInv'
    BY <1>2, HoldKept, ListKept, PlacePartsNext
  <2>4. CancelInv' /\ EntryInv' /\ TagInv' /\ ResultInv' /\ MemoryInv'
    BY <1>2, CancelKept, EntryKept, TagKept, ResultKept, MemoryKept
  <2> QED
    BY <2>1, <2>2, <2>3, <2>4 DEF IInv
<1>3. CASE UNCHANGED vars
  <2>1. UNCHANGED <<table, server, info, reqs, irps, cancel>>
    BY <1>3 DEF vars
  <2>2. /\ UNCHANGED <<tableLock, exists, RefCount, client, handle, access, refNumber, leaked>>
        /\ UNCHANGED <<server, known, flags>>
        /\ UNCHANGED <<rpc, origin, entry, result, received, sent>>
        /\ UNCHANGED <<xpc, mpc, requests, memory, target, buffer, large>>
        /\ UNCHANGED <<killed, cancelled, armed, firing, undefined>>
    BY <2>1 DEF table, info, reqs, irps, cancel
  <2>3. TypeOK'
    BY <2>2 DEF IInv, TypeOK
  <2>4. CountInv' /\ ServerInv'
    BY <2>2 DEF IInv, CountInv, ServerInv, Holders, Gone, Client, Attached
  <2>5. PlaceInv' /\ CancelInv' /\ EntryInv' /\ ResultInv' /\ MemoryInv'
    BY <2>2 DEF IInv, PlaceInv, CancelInv, EntryInv, ResultInv, MemoryInv, NoDup, InList, Holding
  <2>6. TagInv'
    BY <2>2 DEF IInv, TagInv, Tagged, Carrying
  <2> QED
    BY <2>3, <2>4, <2>5, <2>6 DEF IInv
<1> QED
  BY <1>1, <1>2, <1>3 DEF Next, TableStep, CancelStep, ClientStep, FileStep, OtherStep

-----------------------------------------------------------------------------
(* The theorems. *)

\* The invariant of the driver's lists, table entry and IRPs (deviodrv/irpfwd.cpp,
\* deviodrv/filetable.cpp) holds in every state, whatever the threads, requests and openers.
THEOREM Inductive == Spec => []IInv
  BY InitInv, StepInv, PTL DEF Spec

\* The reference count of the table entry is that of the file objects that have the context and
\* of the failed opens that kept theirs (filetable.cpp), and one client is connected at most.
THEOREM CountTrue == Spec => []TableTruthful
<1>1. IInv => TableTruthful
  <2> SUFFICES ASSUME IInv PROVE TableTruthful
    OBVIOUS
  <2>1. \A f \in File : Connected(f) => Client(f)
    BY DEF Connected, Client
  <2>2. server = Server => Attached(Server)
    BY DEF IInv, ServerInv, Attached
  <2> QED
    BY <2>1, <2>2 DEF TableTruthful, IInv, CountInv, ServerInv, Holders
<1> QED
  BY <1>1, Inductive, PTL

\* A connected server's exchange finds its memory in ServerMemoryIrpList: it has been put back
\* there before the exchange that let the server go on was completed (irpfwd.cpp,
\* DevIoDrvCompleteIrpQueueItem).
THEOREM MemoryThere == Spec => []BufferReady
<1>1. IInv => BufferReady
  BY DEF IInv, MemoryInv, BufferReady, Reservable
<1> QED
  BY <1>1, Inductive, PTL

LEMMA TimesFacts ==
    ASSUME NEW S, NEW s \in Seq(S), NoDup(s), NEW e
    PROVE  Times(s, e) = IF InList(e, s) THEN 1 ELSE 0
<1>1. CASE InList(e, s)
  <2>1. PICK i \in DOMAIN s : s[i] = e
    BY <1>1 DEF InList
  <2>2. {k \in DOMAIN s : s[k] = e} = {i}
    BY <2>1 DEF NoDup
  <2> QED
    BY <1>1, <2>2, FS_Singleton DEF Times
<1>2. CASE ~InList(e, s)
  <2>1. {k \in DOMAIN s : s[k] = e} = {}
    BY <1>2 DEF InList
  <2> QED
    BY <1>2, <2>1, FS_EmptySet DEF Times
<1> QED
  BY <1>1, <1>2

\* A client's IRP is in one list or in one thread's hands from its dispatch to its completion,
\* and is completed with an answer that was made for it (irpfwd.cpp), although the addresses of
\* freed list entries, which are the tags, are used again.
THEOREM EveryOneItsAnswer == Spec => []OwnAnswer
<1>1. IInv => OwnAnswer
  <2> SUFFICES ASSUME IInv, NEW r \in Req
               PROVE  /\ Times(received, r) + Times(sent, r) + Cardinality(Handling(r)) =
                            IF rpc[r] \in {"none", "lock", "done"} THEN 0 ELSE 1
                      /\ result[r] \in {"none", "failed", r}
    BY DEF OwnAnswer
  <2>1. ReqType /\ ListType /\ NoDup(received) /\ NoDup(sent)
    BY PlaceFacts DEF IInv, PlaceInv
  <2>2. /\ Times(received, r) = IF rpc[r] = "received" THEN 1 ELSE 0
        /\ Times(sent, r) = IF rpc[r] = "sent" THEN 1 ELSE 0
    BY <2>1, TimesFacts, PlaceFacts DEF ListType
  <2>3. Handling(r) = {w \in Worker : target[w] = r /\ Holding(w)}
    BY DEF Handling, Holding
  <2>4. Cardinality(Handling(r)) = IF rpc[r] \in {"send", "answer"} THEN 1 ELSE 0
    <3>1. CASE rpc[r] \in {"send", "answer"}
      <4>1. PICK w \in Worker : Holding(w) /\ target[w] = r
        BY <3>1 DEF IInv, PlaceInv
      <4>2. Handling(r) = {w}
        BY <2>3, <4>1, PlaceFacts
      <4> QED
        BY <3>1, <4>2, FS_Singleton
    <3>2. CASE rpc[r] \notin {"send", "answer"}
      <4>1. Handling(r) = {}
        BY <2>3, <3>2, PlaceFacts
      <4> QED
        BY <3>2, <4>1, FS_EmptySet
    <3> QED
      BY <3>1, <3>2
  <2>5. rpc[r] \in Rpc
    BY <2>1 DEF ReqType
  <2>6. result[r] \in {"none", "failed", r}
    BY DEF IInv, ResultInv
  <2> QED
    BY <2>2, <2>4, <2>5, <2>6 DEF Rpc
<1> QED
  BY <1>1, Inductive, PTL
=============================================================================
