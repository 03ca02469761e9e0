-------------------------- MODULE DeviceList_proofs --------------------------
(***************************************************************************)
(* Proofs about DeviceList, for any number of disks, callers and device    *)
(* numbers: what a creator, a caller that removes or lists disks, and the  *)
(* unloading driver are told, while the list changes under their walks.    *)
(***************************************************************************)
EXTENDS DeviceList, FiniteSetTheorems, TLAPS

-----------------------------------------------------------------------------
(* The inductive invariant. *)

\* Where a disk's device object is in the list, and where its number is settled.
Made    == {"symlink", "init", "report", "running", "delete"}
Settled == {"create", "symlink", "init", "report", "running", "delete"}
Opening == {"create", "symlink", "init", "report", "running"}

\* No object is twice in the list, and what is there is known from the disks' threads.
ListInv ==
    /\ \A i, j \in DOMAIN list : list[i] = list[j] => i = j
    /\ \A d \in Disk : Listed(d) <=> thread[d] \in Made

\* How far a creation is says what its creator knows, what is open, and what its number can be.
DiskInv ==
    \A d \in Disk :
        /\ thread[d] \in Creating \cup {"unused"} <=> reply[d] = "none"
        /\ thread[d] \in {"running", "delete"} => reply[d] = "ok"
        /\ d \in opened <=> thread[d] \in Opening
        /\ reply[d] = "ok" /\ thread[d] # "running" => d \in terminate_thread
        /\ want[d] \in {AutoNumber, number[d]}
        /\ thread[d] \in {"auto", "scan"} => want[d] = AutoNumber
        /\ thread[d] \in Settled => number[d] < MaxDevices

\* Disks that are in the list at once have different numbers.
NumberInv == \A d, e \in Disk : Listed(d) /\ Listed(e) /\ number[d] = number[e] => d = e

\* A walk is at an object that is in the list, or that has been.
WalkInv == \A w \in Walker, d \in Disk : cursor[w] = d => thread[d] \in Made \cup {"ended"}

\* What a removal has found: its number is the one asked for, or was not settled then.
RemoveInv ==
    \A c \in Caller :
        /\ pc[c] \in {"set", "removed"} =>
              \/ hit[c] = Ctl
              \/ /\ hit[c] \in Disk
                 /\ ask[c] # 0 => number[hit[c]] = ask[c]
                                  /\ thread[hit[c]] \in {"report", "running", "delete", "ended"}
        /\ pc[c] = "removed" /\ ~undefined =>
              /\ hit[c] \in terminate_thread
              /\ thread[hit[c]] \in {"report", "running", "delete", "ended"}

\* A disk of the list query lies ahead of it and has not been listed, or has been, once.
Entries(c, d) == {i \in DOMAIN listed[c] : listed[c][i] = number[d]}
Ahead(o, d)   == \E i, j \in DOMAIN list : i <= j /\ list[i] = o /\ list[j] = d
Entered(c, d) ==
    /\ Entries(c, d) # {}
    /\ number[d] # 0 => \A i, j \in Entries(c, d) : i = j

Queried(c) ==
    /\ pc[c] \notin {"list", "queried"} => listed[c] = <<>> /\ there[c] = {}
    /\ \A d \in there[c] : Listed(d) /\ Ready(d)
    /\ pc[c] = "list" /\ (cursor[c] = None \/ Listed(cursor[c])) =>
          \A d \in there[c] :
             IF cursor[c] # None /\ Ahead(cursor[c], d)
             THEN number[d] # 0 => Entries(c, d) = {}
             ELSE Entered(c, d)
    /\ pc[c] = "queried" => \A d \in there[c] : Entered(c, d)

QueryInv == \A c \in Caller : Queried(c)

\* The unloading driver is the last one; what is before its walk has gone.
UnloadInv ==
    /\ cursor[Ctl] = Ctl => Listed(Ctl)
    /\ unload = "no" => Listed(Ctl)
    /\ unload # "no" => /\ \A c \in Caller : pc[c] = "idle"
                        /\ \A d \in Disk : thread[d] \notin Creating
    /\ unload = "visit" => /\ cursor[Ctl] = None => list = <<>>
                           /\ Listed(cursor[Ctl]) => list[1] = cursor[Ctl]
    /\ unload = "wait" =>
          /\ waiting \in Disk
          /\ Listed(waiting) => /\ list[1] = waiting
                                /\ cursor[Ctl] = None => Len(list) = 1
                                /\ Listed(cursor[Ctl]) => list[2] = cursor[Ctl]
          /\ ~Listed(waiting) => /\ cursor[Ctl] = None => list = <<>>
                                 /\ Listed(cursor[Ctl]) => list[1] = cursor[Ctl]
    /\ unload = "done" => list = <<>>

IInv == TypeOK /\ ListInv /\ DiskInv /\ NumberInv /\ WalkInv /\ RemoveInv /\ QueryInv /\ UnloadInv

-----------------------------------------------------------------------------
(* The list. *)

LEMMA NameFacts ==
    /\ None \notin Disk /\ Ctl \notin Disk /\ Ctl # None /\ Ctl \notin Caller
    /\ \A d \in Disk : d # Ctl /\ d # None /\ d \in Object /\ d \in Walker /\ d \notin Caller
    /\ \A c \in Caller : c # Ctl /\ c \in Walker /\ c \notin Disk
    /\ Ctl \in Object /\ Ctl \in Walker /\ None \notin Object
  BY NoneAssumption DEF Object, Walker

LEMMA ListFacts ==
    ASSUME TypeOK
    PROVE  /\ list \in Seq(Object) /\ Len(list) \in Nat /\ DOMAIN list = 1 .. Len(list)
           /\ \A i \in DOMAIN list : list[i] \in Object /\ Listed(list[i])
           /\ list # <<>> => 1 \in DOMAIN list /\ Head(list) = list[1] /\ Head(list) \in Object
           /\ list = <<>> <=> Len(list) = 0
           /\ \A o : Listed(o) => o \in Object
  BY DEF TypeOK, Listed

LEMMA FrontFacts ==
    ASSUME NEW S, NEW s \in Seq(S), NEW o \in S
    PROVE  LET r == <<o>> \o s IN
           /\ r \in Seq(S) /\ Len(r) = Len(s) + 1 /\ DOMAIN r = 1 .. Len(s) + 1
           /\ r[1] = o /\ \A i \in DOMAIN s : i + 1 \in DOMAIN r /\ r[i + 1] = s[i]
           /\ \A i \in DOMAIN r : i = 1 \/ (i - 1 \in DOMAIN s /\ r[i] = s[i - 1])
  OBVIOUS

\* A new object is the first: the others keep their order.
LEMMA LinkFacts ==
    ASSUME TypeOK, ListInv, NEW o \in Object, ~Listed(o), list' = <<o>> \o list
    PROVE  /\ list' \in Seq(Object) /\ list' # <<>>
           /\ \A i, j \in DOMAIN list' : list'[i] = list'[j] => i = j
           /\ \A p : Listed(p)' <=> Listed(p) \/ p = o
           /\ \A p, q : Listed(p) /\ Listed(q) => (Ahead(p, q)' <=> Ahead(p, q))
<1>1. /\ list \in Seq(Object) /\ Len(list) \in Nat /\ DOMAIN list = 1 .. Len(list)
  BY ListFacts
<1>2. /\ list' \in Seq(Object) /\ DOMAIN list' = 1 .. Len(list) + 1 /\ list'[1] = o
      /\ \A i \in DOMAIN list : i + 1 \in DOMAIN list' /\ list'[i + 1] = list[i]
      /\ \A i \in DOMAIN list' : i = 1 \/ (i - 1 \in DOMAIN list /\ list'[i] = list[i - 1])
  <2> DEFINE r == <<o>> \o list
  <2>1. /\ r \in Seq(Object) /\ DOMAIN r = 1 .. Len(list) + 1 /\ r[1] = o
        /\ \A i \in DOMAIN list : i + 1 \in DOMAIN r /\ r[i + 1] = list[i]
        /\ \A i \in DOMAIN r : i = 1 \/ (i - 1 \in DOMAIN list /\ r[i] = list[i - 1])
    BY <1>1, FrontFacts
  <2> HIDE DEF r
  <2>2. list' = r
    BY DEF r
  <2> QED
    BY <2>1, <2>2
<1>3. 1 \in DOMAIN list' /\ list' # <<>>
  BY <1>1, <1>2
<1>4. \A i \in DOMAIN list : list[i] # o
  BY DEF Listed
<1>5. \A i, j \in DOMAIN list' : list'[i] = list'[j] => i = j
  <2> SUFFICES ASSUME NEW i \in DOMAIN list', NEW j \in DOMAIN list', list'[i] = list'[j]
               PROVE  i = j
    OBVIOUS
  <2>1. CASE i = 1 \/ j = 1
    BY <1>2, <1>4, <2>1
  <2>2. CASE i # 1 /\ j # 1
    <3>1. /\ i - 1 \in DOMAIN list /\ j - 1 \in DOMAIN list /\ list[i - 1] = list[j - 1]
          /\ i \in Nat /\ j \in Nat
      BY <1>1, <1>2, <2>2
    <3>2. i - 1 = j - 1
      BY <3>1 DEF ListInv
    <3> QED
      BY <3>1, <3>2
  <2> QED
    BY <2>1, <2>2
<1>6. ASSUME NEW p PROVE Listed(p)' <=> Listed(p) \/ p = o
  <2>1. ASSUME Listed(p)' PROVE Listed(p) \/ p = o
    <3>1. PICK i \in DOMAIN list' : list'[i] = p
      BY <2>1 DEF Listed
    <3> QED
      BY <1>2, <3>1 DEF Listed
  <2>2. ASSUME Listed(p) PROVE Listed(p)'
    <3>1. PICK i \in DOMAIN list : list[i] = p
      BY <2>2 DEF Listed
    <3>2. i + 1 \in DOMAIN list' /\ list'[i + 1] = p
      BY <1>2, <3>1
    <3> QED
      BY <3>2 DEF Listed
  <2>3. ASSUME p = o PROVE Listed(p)'
    BY <1>2, <1>3, <2>3 DEF Listed
  <2> QED
    BY <2>1, <2>2, <2>3
<1>7. ASSUME NEW p, NEW q, Listed(p), Listed(q) PROVE Ahead(p, q)' <=> Ahead(p, q)
  <2>1. ASSUME Ahead(p, q) PROVE Ahead(p, q)'
    <3>1. PICK i \in DOMAIN list, j \in DOMAIN list : i <= j /\ list[i] = p /\ list[j] = q
      BY <2>1 DEF Ahead
    <3>2. i + 1 \in DOMAIN list' /\ j + 1 \in DOMAIN list' /\ i + 1 <= j + 1
          /\ list'[i + 1] = p /\ list'[j + 1] = q
      BY <1>1, <1>2, <3>1
    <3> QED
      BY <3>2 DEF Ahead
  <2>2. ASSUME Ahead(p, q)' PROVE Ahead(p, q)
    <3>1. PICK i \in DOMAIN list', j \in DOMAIN list' : i <= j /\ list'[i] = p /\ list'[j] = q
      BY <2>2 DEF Ahead
    <3>2. i # 1 /\ j # 1
      BY <1>2, <1>4, <1>7, <3>1 DEF Listed
    <3>3. i - 1 \in DOMAIN list /\ j - 1 \in DOMAIN list /\ i - 1 <= j - 1
          /\ list[i - 1] = p /\ list[j - 1] = q
      BY <1>1, <1>2, <3>1, <3>2
    <3> QED
      BY <3>3 DEF Ahead
  <2> QED
    BY <2>1, <2>2
<1> QED
  BY <1>2, <1>3, <1>5, <1>6, <1>7

LEMMA JoinFacts ==
    ASSUME NEW S, NEW a \in Seq(S), NEW b \in Seq(S)
    PROVE  /\ a \o b \in Seq(S) /\ Len(a \o b) = Len(a) + Len(b)
           /\ DOMAIN (a \o b) = 1 .. Len(a) + Len(b)
           /\ \A k \in 1 .. Len(a) + Len(b) :
                 (a \o b)[k] = IF k <= Len(a) THEN a[k] ELSE b[k - Len(a)]
  OBVIOUS

LEMMA CutFacts ==
    ASSUME NEW S, NEW s \in Seq(S), NEW i \in DOMAIN s
    PROVE  LET r == RemoveAt(s, i) IN
           /\ r \in Seq(S) /\ Len(r) = Len(s) - 1 /\ DOMAIN r = 1 .. Len(s) - 1
           /\ \A k \in DOMAIN r : r[k] = IF k < i THEN s[k] ELSE s[k + 1]
<1> DEFINE a == SubSeq(s, 1, i - 1)
           b == SubSeq(s, i + 1, Len(s))
           m == Len(s)
<1>1. m \in Nat /\ i \in 1 .. m /\ DOMAIN s = 1 .. m
  OBVIOUS
<1>2. a \in Seq(S) /\ Len(a) = i - 1 /\ \A k \in 1 .. i - 1 : a[k] = s[k]
  BY <1>1
<1>3. b \in Seq(S) /\ Len(b) = m - i /\ \A k \in 1 .. m - i : b[k] = s[i + k]
  BY <1>1
<1> HIDE DEF a, b, m
<1>4. /\ a \o b \in Seq(S) /\ Len(a \o b) = m - 1 /\ DOMAIN (a \o b) = 1 .. m - 1
      /\ \A k \in 1 .. m - 1 : (a \o b)[k] = IF k < i THEN a[k] ELSE b[k - (i - 1)]
  <2>1. Len(a) + Len(b) = m - 1 /\ \A k \in 1 .. m - 1 : k <= Len(a) <=> k < i
    BY <1>1, <1>2, <1>3
  <2>2. /\ a \o b \in Seq(S) /\ Len(a \o b) = Len(a) + Len(b)
        /\ DOMAIN (a \o b) = 1 .. Len(a) + Len(b)
        /\ \A k \in 1 .. Len(a) + Len(b) :
              (a \o b)[k] = IF k <= Len(a) THEN a[k] ELSE b[k - Len(a)]
    BY <1>2, <1>3, JoinFacts, Zenon
  <2> QED
    BY <1>2, <2>1, <2>2
<1>5. \A k \in 1 .. m - 1 : (a \o b)[k] = IF k < i THEN s[k] ELSE s[k + 1]
  <2> SUFFICES ASSUME NEW k \in 1 .. m - 1 PROVE (a \o b)[k] = IF k < i THEN s[k] ELSE s[k + 1]
    OBVIOUS
  <2>1. CASE k < i
    <3>1. k \in 1 .. i - 1
      BY <1>1, <2>1
    <3> QED
      BY <1>2, <1>4, <2>1, <3>1
  <2>2. CASE ~(k < i)
    <3>1. k - (i - 1) \in 1 .. m - i /\ i + (k - (i - 1)) = k + 1
      BY <1>1, <2>2
    <3> QED
      BY <1>3, <1>4, <2>2, <3>1
  <2> QED
    BY <2>1, <2>2
<1> QED
  BY <1>4, <1>5 DEF RemoveAt, a, b, m

\* An object goes: the others keep their order.
LEMMA UnlinkFacts ==
    ASSUME TypeOK, ListInv, NEW o \in Object, Listed(o), list' = Without(o)
    PROVE  /\ list' \in Seq(Object)
           /\ \A i, j \in DOMAIN list' : list'[i] = list'[j] => i = j
           /\ \A p : Listed(p)' <=> Listed(p) /\ p # o
           /\ \A p, q : p # o /\ q # o => (Ahead(p, q)' <=> Ahead(p, q))
           /\ \E i \in DOMAIN list :
                 /\ list[i] = o /\ Len(list') = Len(list) - 1
                 /\ DOMAIN list' = 1 .. Len(list) - 1
                 /\ \A k \in DOMAIN list' : list'[k] = IF k < i THEN list[k] ELSE list[k + 1]
<1>1. /\ list \in Seq(Object) /\ Len(list) \in Nat /\ DOMAIN list = 1 .. Len(list)
  BY ListFacts
<1> DEFINE i == CHOOSE k \in DOMAIN list : list[k] = o
           m == Len(list)
<1>2. i \in DOMAIN list /\ list[i] = o
  BY DEF Listed
<1>3. list' = RemoveAt(list, i)
  BY DEF Without
<1> HIDE DEF i
<1>4. /\ list' \in Seq(Object) /\ Len(list') = m - 1 /\ DOMAIN list' = 1 .. m - 1
      /\ \A k \in DOMAIN list' : list'[k] = IF k < i THEN list[k] ELSE list[k + 1]
  <2>1. LET r == RemoveAt(list, i) IN
           /\ r \in Seq(Object) /\ Len(r) = Len(list) - 1 /\ DOMAIN r = 1 .. Len(list) - 1
           /\ \A k \in DOMAIN r : r[k] = IF k < i THEN list[k] ELSE list[k + 1]
    BY <1>1, <1>2, CutFacts
  <2> QED
    BY <1>3, <2>1
<1> HIDE DEF m
<1>5. m \in Nat /\ DOMAIN list = 1 .. m /\ i \in 1 .. m
  BY <1>1, <1>2 DEF m
\* Where an element was before, and where it is after.
<1>6. \A k \in DOMAIN list' : \E j \in DOMAIN list :
         /\ list'[k] = list[j] /\ j # i /\ j = IF k < i THEN k ELSE k + 1
  <2> SUFFICES ASSUME NEW k \in DOMAIN list'
               PROVE  \E j \in DOMAIN list :
                         /\ list'[k] = list[j] /\ j # i /\ j = IF k < i THEN k ELSE k + 1
    OBVIOUS
  <2>1. CASE k < i
    BY <1>4, <1>5, <2>1
  <2>2. CASE ~(k < i)
    <3>1. k + 1 \in DOMAIN list /\ k + 1 # i
      BY <1>4, <1>5, <2>2
    <3> QED
      BY <1>4, <2>2, <3>1
  <2> QED
    BY <2>1, <2>2
<1>7. \A j \in DOMAIN list : j # i => \E k \in DOMAIN list' :
         /\ list'[k] = list[j] /\ k = IF j < i THEN j ELSE j - 1
  <2> SUFFICES ASSUME NEW j \in DOMAIN list, j # i
               PROVE  \E k \in DOMAIN list' : /\ list'[k] = list[j]
                                              /\ k = IF j < i THEN j ELSE j - 1
    OBVIOUS
  <2>1. CASE j < i
    <3>1. j \in DOMAIN list'
      BY <1>4, <1>5, <2>1
    <3> QED
      BY <1>4, <2>1, <3>1
  <2>2. CASE ~(j < i)
    <3>1. j - 1 \in DOMAIN list' /\ ~(j - 1 < i) /\ (j - 1) + 1 = j
      BY <1>4, <1>5, <2>2
    <3> QED
      BY <1>4, <2>2, <3>1
  <2> QED
    BY <2>1, <2>2
<1>8. \A k \in DOMAIN list : list[k] = o => k = i
  BY <1>2 DEF ListInv
<1>9. ASSUME NEW a \in DOMAIN list', NEW b \in DOMAIN list', list'[a] = list'[b] PROVE a = b
  <2>1. PICK p \in DOMAIN list : list'[a] = list[p] /\ p # i /\ p = IF a < i THEN a ELSE a + 1
    BY <1>6
  <2>2. PICK q \in DOMAIN list : list'[b] = list[q] /\ q # i /\ q = IF b < i THEN b ELSE b + 1
    BY <1>6
  <2>3. p = q
    BY <1>9, <2>1, <2>2 DEF ListInv
  <2> QED
    BY <1>4, <1>5, <2>1, <2>2, <2>3
<1>10. ASSUME NEW p PROVE Listed(p)' <=> Listed(p) /\ p # o
  <2>1. ASSUME Listed(p)' PROVE Listed(p) /\ p # o
    <3>1. PICK k \in DOMAIN list' : list'[k] = p
      BY <2>1 DEF Listed
    <3>2. PICK j \in DOMAIN list : list'[k] = list[j] /\ j # i
      BY <1>6
    <3> QED
      BY <1>8, <3>1, <3>2 DEF Listed
  <2>2. ASSUME Listed(p), p # o PROVE Listed(p)'
    <3>1. PICK j \in DOMAIN list : list[j] = p
      BY <2>2 DEF Listed
    <3>2. j # i
      BY <1>2, <2>2, <3>1
    <3>3. PICK k \in DOMAIN list' : list'[k] = list[j]
      BY <1>7, <3>2
    <3> QED
      BY <3>1, <3>3 DEF Listed
  <2> QED
    BY <2>1, <2>2
<1>11. ASSUME NEW p, NEW q, p # o, q # o PROVE Ahead(p, q)' <=> Ahead(p, q)
  <2>1. ASSUME Ahead(p, q) PROVE Ahead(p, q)'
    <3>1. PICK a \in DOMAIN list, b \in DOMAIN list : a <= b /\ list[a] = p /\ list[b] = q
      BY <2>1 DEF Ahead
    <3>2. a # i /\ b # i
      BY <1>2, <1>11, <3>1
    <3>3. PICK k \in DOMAIN list' : list'[k] = list[a] /\ k = IF a < i THEN a ELSE a - 1
      BY <1>7, <3>2
    <3>4. PICK l \in DOMAIN list' : list'[l] = list[b] /\ l = IF b < i THEN b ELSE b - 1
      BY <1>7, <3>2
    <3>5. k <= l
      BY <1>5, <3>1, <3>2, <3>3, <3>4
    <3> QED
      BY <3>1, <3>3, <3>4, <3>5 DEF Ahead
  <2>2. ASSUME Ahead(p, q)' PROVE Ahead(p, q)
    <3>1. PICK a \in DOMAIN list', b \in DOMAIN list' : a <= b /\ list'[a] = p /\ list'[b] = q
      BY <2>2 DEF Ahead
    <3>2. PICK k \in DOMAIN list : list'[a] = list[k] /\ k = IF a < i THEN a ELSE a + 1
      BY <1>6
    <3>3. PICK l \in DOMAIN list : list'[b] = list[l] /\ l = IF b < i THEN b ELSE b + 1
      BY <1>6
    <3>4. k <= l
      BY <1>4, <1>5, <3>1, <3>2, <3>3
    <3> QED
      BY <3>1, <3>2, <3>3, <3>4 DEF Ahead
  <2> QED
    BY <2>1, <2>2
<1> QED
  BY <1>2, <1>4, <1>9, <1>10, <1>11 DEF m

\* What a walk finds behind an object.
LEMMA NextFacts ==
    ASSUME TypeOK, ListInv, NEW o, Listed(o)
    PROVE  LET n == NextDevice(o) IN
           /\ n \in Object \cup {None} /\ (n # None => Listed(n))
           /\ \A d : Listed(d) /\ Ahead(o, d) /\ d # o => n # None /\ Ahead(n, d)
           /\ \A d : n # None /\ Ahead(n, d) => Ahead(o, d) /\ d # o
           /\ Ahead(o, o)
           /\ list[1] = o => (n = None => Len(list) = 1) /\ (n # None => list[2] = n)
<1>1. /\ list \in Seq(Object) /\ Len(list) \in Nat /\ DOMAIN list = 1 .. Len(list)
      /\ \A k \in DOMAIN list : list[k] \in Object /\ list[k] # None
  BY ListFacts, NameFacts
<1> DEFINE i == CHOOSE j \in DOMAIN list : list[j] = o
           n == NextDevice(o)
<1>2. i \in DOMAIN list /\ list[i] = o
  BY DEF Listed
<1>3. n = IF i = Len(list) THEN None ELSE list[i + 1]
  BY DEF NextDevice
<1> HIDE DEF i, n
<1>4. \A k \in DOMAIN list : list[k] = o => k = i
  BY <1>2 DEF ListInv
<1>5. i # Len(list) => i + 1 \in DOMAIN list /\ n = list[i + 1]
  BY <1>1, <1>2, <1>3
<1>6. n # None => /\ i # Len(list) /\ i + 1 \in DOMAIN list /\ n = list[i + 1]
                  /\ \A k \in DOMAIN list : list[k] = n => k = i + 1
  BY <1>3, <1>5 DEF ListInv
<1>7. n \in Object \cup {None} /\ (n # None => Listed(n))
  BY <1>1, <1>3, <1>6 DEF Listed
<1>8. ASSUME NEW d, Ahead(o, d), d # o PROVE n # None /\ Ahead(n, d)
  <2>1. PICK a \in DOMAIN list, b \in DOMAIN list : a <= b /\ list[a] = o /\ list[b] = d
    BY <1>8 DEF Ahead
  <2>2. a = i /\ b # i
    BY <1>2, <1>4, <1>8, <2>1
  <2>3. i # Len(list) /\ i + 1 <= b
    BY <1>1, <1>2, <2>1, <2>2
  <2>4. n # None /\ n = list[i + 1] /\ i + 1 \in DOMAIN list
    BY <1>1, <1>5, <2>3
  <2> QED
    BY <2>1, <2>3, <2>4 DEF Ahead
<1>9. ASSUME NEW d, n # None, Ahead(n, d) PROVE Ahead(o, d) /\ d # o
  <2>1. PICK a \in DOMAIN list, b \in DOMAIN list : a <= b /\ list[a] = n /\ list[b] = d
    BY <1>9 DEF Ahead
  <2>2. a = i + 1
    BY <1>6, <1>9, <2>1
  <2>3. i <= b /\ b # i
    BY <1>1, <1>2, <2>1, <2>2
  <2>4. d # o
    BY <1>4, <2>1, <2>3
  <2> QED
    BY <1>2, <2>1, <2>3, <2>4 DEF Ahead
<1>10. Ahead(o, o)
  <2>1. i <= i
    BY <1>1, <1>2
  <2> QED
    BY <1>2, <2>1 DEF Ahead
<1>11. list[1] = o => (n = None => Len(list) = 1) /\ (n # None => list[2] = n)
  <2> SUFFICES ASSUME list[1] = o PROVE (n = None => Len(list) = 1) /\ (n # None => list[2] = n)
    OBVIOUS
  <2>1. i = 1
    BY <1>1, <1>2, <1>4
  <2> QED
    BY <1>1, <1>3, <1>5, <2>1
<1> QED
  BY <1>7, <1>8, <1>9, <1>10, <1>11 DEF n

-----------------------------------------------------------------------------
(* What the steps do. *)

DiskStep(d) == CreationStep(d) \/ Outside(d)
CallStep(c) == CallerStep(c) \/ Request(c)
LeaveStep   == Unload \/ UnloadStep

LEMMA StepCases ==
    Next <=> \/ \E d \in Disk : DiskStep(d)
             \/ \E c \in Caller : CallStep(c)
             \/ LeaveStep
             \/ \E w \in Walker : UseDeleted(w)
  BY DEF Next, DiskStep, CallStep, LeaveStep

\* A disk's thread changes what is its own, and the list.
LEMMA DiskOnly ==
    ASSUME TypeOK, NEW d \in Disk, DiskStep(d)
    PROVE  /\ ~undefined /\ UNCHANGED <<pc, ask, hit, listed, unload, waiting, undefined>>
           /\ \A e \in Disk : e # d =>
                 /\ thread'[e] = thread[e] /\ reply'[e] = reply[e] /\ want'[e] = want[e]
                 /\ number'[e] = number[e] /\ (e \in opened' <=> e \in opened)
                 /\ e \in terminate_thread' <=> e \in terminate_thread
           /\ \A w \in Walker : w # d => cursor'[w] = cursor[w]
<1> USE DEF creation, calls, leaving, TypeOK
<1>1. CASE FindFreeDeviceNumber(d) \/ ScanDevice(d) \/ FreeNumberFound(d)
  BY <1>1 DEF FindFreeDeviceNumber, ScanDevice, FreeNumberFound, Goto, StartWalk, EndWalk,
              AtLive, WalkOn
<1>2. CASE OpenImage(d) \/ IoCreateDevice(d)
  BY <1>2 DEF OpenImage, IoCreateDevice, CreateWith, Goto, Fails
<1>3. CASE CreateSymlink(d) \/ InitExtension(d) \/ ReportCreated(d)
  BY <1>3 DEF CreateSymlink, InitExtension, ReportCreated, Goto, Fails
<1>4. CASE TearDown(d) \/ DeleteDevice(d)
  BY <1>4 DEF TearDown, DeleteDevice, Goto
<1>5. CASE LoseImage(d) \/ UsageNotification(d) \/ \E n \in Number \cup {AutoNumber} : AddVirtualDisk(d, n)
  BY <1>5 DEF LoseImage, UsageNotification, AddVirtualDisk, Goto
<1> QED
  BY <1>1, <1>2, <1>3, <1>4, <1>5 DEF DiskStep, CreationStep, Outside

\* How it gets on, and what goes with it.
Moves(d) ==
    \/ /\ UNCHANGED <<thread, list, number, want, reply, opened, there>>
       /\ d \in terminate_thread => d \in terminate_thread'
    \/ /\ thread[d] \in {"unused", "auto", "scan"} /\ thread'[d] \in {"auto", "scan", "open"}
       /\ UNCHANGED <<list, reply, opened, there, terminate_thread>>
       /\ want'[d] \in {AutoNumber, number'[d]}
       /\ thread'[d] \in {"auto", "scan"} => want'[d] = AutoNumber
       /\ thread[d] = "unused" => unload = "no"
    \/ /\ thread[d] = "open" /\ thread'[d] = "create" /\ number[d] < MaxDevices
       /\ opened' = opened \cup {d}
       /\ UNCHANGED <<list, reply, number, want, there, terminate_thread>>
    \/ /\ thread[d] = "create" /\ thread'[d] = "symlink" /\ ~NameTaken(d)
       /\ list' = <<d>> \o list
       /\ UNCHANGED <<reply, number, want, opened, there, terminate_thread>>
    \/ /\ thread[d] \in {"open", "create", "symlink"} /\ thread'[d] = "ended"
       /\ reply'[d] = "failed" /\ d \notin opened'
       /\ IF thread[d] = "symlink" THEN list' = Without(d) ELSE list' = list
       /\ UNCHANGED <<number, want, there, terminate_thread>>
    \/ /\ thread[d] = "symlink" /\ thread'[d] = "init"
       /\ UNCHANGED <<list, reply, number, want, opened, there, terminate_thread>>
    \/ /\ thread[d] = "init" /\ thread'[d] = "report"
       /\ UNCHANGED <<list, reply, number, want, opened, there>>
    \/ /\ thread[d] = "report" /\ thread'[d] = "running" /\ reply'[d] = "ok"
       /\ UNCHANGED <<list, number, want, opened, there, terminate_thread>>
    \/ /\ thread[d] = "running" /\ thread'[d] = "delete" /\ d \in terminate_thread
       /\ d \notin opened'
       /\ UNCHANGED <<list, reply, number, want, there, terminate_thread>>
    \/ /\ thread[d] = "delete" /\ thread'[d] = "ended" /\ list' = Without(d)
       /\ UNCHANGED <<reply, number, want, opened, terminate_thread>>
       /\ there' = [c \in Caller |-> there[c] \ {d}]

LEMMA DiskMoves ==
    ASSUME TypeOK, DiskInv, NEW d \in Disk, DiskStep(d) PROVE Moves(d)
<1> USE DEF creation, calls, leaving, TypeOK, Moves
<1>0. thread[d] = "open" => d \notin opened
  BY DEF DiskInv, Opening
<1>1. CASE FindFreeDeviceNumber(d)
  BY <1>1 DEF FindFreeDeviceNumber, Goto, DiskInv
<1>2. CASE ScanDevice(d)
  BY <1>2 DEF ScanDevice, DiskInv
<1>3. CASE FreeNumberFound(d)
  BY <1>3 DEF FreeNumberFound, Goto, DiskInv
<1>4. CASE OpenImage(d)
  BY <1>0, <1>4 DEF OpenImage, Goto, Fails
<1>5. CASE IoCreateDevice(d)
  BY <1>5 DEF IoCreateDevice, CreateWith, Goto, Fails
<1>6. CASE CreateSymlink(d)
  BY <1>6 DEF CreateSymlink, Goto, Fails
<1>7. CASE InitExtension(d)
  BY <1>7 DEF InitExtension, Goto
<1>8. CASE ReportCreated(d)
  BY <1>8 DEF ReportCreated, Goto
<1>9. CASE TearDown(d)
  BY <1>9 DEF TearDown, Goto
<1>10. CASE DeleteDevice(d)
  BY <1>10 DEF DeleteDevice, Goto
<1>11. CASE LoseImage(d) \/ UsageNotification(d)
  BY <1>11 DEF LoseImage, UsageNotification
<1>12. ASSUME NEW n \in Number \cup {AutoNumber}, AddVirtualDisk(d, n) PROVE Moves(d)
  BY <1>12 DEF AddVirtualDisk, Goto, Serving
<1> QED
  BY <1>1, <1>2, <1>3, <1>4, <1>5, <1>6, <1>7, <1>8, <1>9, <1>10, <1>11, <1>12
     DEF DiskStep, CreationStep, Outside

\* The list after a disk's step.
LEMMA DiskList ==
    ASSUME TypeOK, ListInv, DiskInv, NEW d \in Disk, DiskStep(d)
    PROVE  /\ list' \in Seq(Object)
           /\ \A i, j \in DOMAIN list' : list'[i] = list'[j] => i = j
           /\ \A e \in Disk : Listed(e)' <=> thread'[e] \in Made
           /\ \A p : p \notin Disk => (Listed(p)' <=> Listed(p))
           /\ \A p, q : Listed(p)' /\ Listed(q)' /\ Listed(p) /\ Listed(q) =>
                 (Ahead(p, q)' <=> Ahead(p, q))
<1>1. Moves(d) /\ d \in Object /\ d # None
  BY DiskMoves, NameFacts
<1>2. \A e \in Disk : e # d => thread'[e] = thread[e]
  BY DiskOnly
<1>3. \A e \in Disk : Listed(e) <=> thread[e] \in Made
  BY DEF ListInv
<1>4. CASE list' = list /\ (thread[d] \in Made <=> thread'[d] \in Made)
  BY <1>2, <1>3, <1>4 DEF Listed, Ahead, ListInv, TypeOK
<1>5. CASE thread[d] = "create" /\ thread'[d] = "symlink" /\ list' = <<d>> \o list
  <2>1. ~Listed(d)
    BY <1>3, <1>5 DEF Made
  <2>2. /\ list' \in Seq(Object)
        /\ \A i, j \in DOMAIN list' : list'[i] = list'[j] => i = j
        /\ \A p : Listed(p)' <=> Listed(p) \/ p = d
        /\ \A p, q : Listed(p) /\ Listed(q) => (Ahead(p, q)' <=> Ahead(p, q))
    BY <1>1, <1>5, <2>1, LinkFacts
  <2> QED
    BY <1>2, <1>3, <1>5, <2>2 DEF Made
<1>6. CASE thread[d] \in {"symlink", "delete"} /\ thread'[d] = "ended" /\ list' = Without(d)
  <2>1. Listed(d)
    BY <1>3, <1>6 DEF Made
  <2>2. /\ list' \in Seq(Object)
        /\ \A i, j \in DOMAIN list' : list'[i] = list'[j] => i = j
        /\ \A p : Listed(p)' <=> Listed(p) /\ p # d
        /\ \A p, q : p # d /\ q # d => (Ahead(p, q)' <=> Ahead(p, q))
    BY <1>1, <1>6, <2>1, UnlinkFacts
  <2> QED
    BY <1>2, <1>3, <1>6, <2>2 DEF Made
<1>7. \/ list' = list /\ (thread[d] \in Made <=> thread'[d] \in Made)
      \/ thread[d] = "create" /\ thread'[d] = "symlink" /\ list' = <<d>> \o list
      \/ thread[d] \in {"symlink", "delete"} /\ thread'[d] = "ended" /\ list' = Without(d)
  BY <1>1 DEF Moves, Made
<1> QED
  BY <1>4, <1>5, <1>6, <1>7

\* Callers leave the disks alone but for asking them to go.
LEMMA CallOnly ==
    ASSUME TypeOK, NEW c \in Caller, CallStep(c)
    PROVE  /\ ~undefined /\ UNCHANGED <<list, creation, special_file, unload, waiting>>
           /\ terminate_thread \subseteq terminate_thread'
           /\ \A e \in Caller : e # c =>
                 /\ pc'[e] = pc[e] /\ ask'[e] = ask[e] /\ hit'[e] = hit[e]
                 /\ listed'[e] = listed[e] /\ there'[e] = there[e]
           /\ \A w \in Walker : w # c => cursor'[w] = cursor[w]
<1> USE DEF calls, leaving, TypeOK
<1>1. CASE RemoveWalk(c) \/ PassDevice(c) \/ NotFound(c)
  BY <1>1 DEF RemoveWalk, PassDevice, NotFound, At, Return, StartWalk, EndWalk, WalkOn, AtLive
<1>2. CASE FindDevice(c)
  BY <1>2 DEF FindDevice, Found, At, Return, EndWalk, AtLive
<1>3. CASE SetTerminate(c)
  BY <1>3 DEF SetTerminate, At
<1>4. CASE QueryWalk(c) \/ ListDevice(c) \/ EndList(c)
  BY <1>4 DEF QueryWalk, ListDevice, EndList, At, StartWalk, EndWalk, WalkOn, AtLive
<1>5. CASE ReturnToCaller(c) \/ QueryDriver(c) \/ \E n \in Number \cup {AutoNumber} : RemoveDevice(c, n)
  BY <1>5 DEF ReturnToCaller, QueryDriver, RemoveDevice, At, Return
<1> QED
  BY <1>1, <1>2, <1>3, <1>4, <1>5 DEF CallStep, CallerStep, Request

\* So does the unloading driver, which starts when all callers are idle.
LEMMA LeaveOnly ==
    ASSUME TypeOK, LeaveStep
    PROVE  /\ ~undefined /\ UNCHANGED <<creation, special_file, calls, undefined>>
           /\ terminate_thread \subseteq terminate_thread'
           /\ \A w \in Walker : w # Ctl => cursor'[w] = cursor[w]
           /\ list' = list \/ (list' = Without(Ctl) /\ cursor[Ctl] = Ctl /\ unload = "visit")
<1>1. CASE Unload
  BY <1>1 DEF Unload, TypeOK
<1>2. ASSUME NEW d \in Disk, UnloadDisk(d)
      PROVE  /\ ~undefined /\ UNCHANGED <<creation, special_file, calls, undefined>>
             /\ terminate_thread \subseteq terminate_thread'
             /\ \A w \in Walker : w # Ctl => cursor'[w] = cursor[w]
             /\ list' = list
  BY <1>2 DEF UnloadDisk, VisitDisk, TypeOK
<1>3. CASE UnloadNext \/ UnloadCtl \/ UnloadEnds
  BY <1>3 DEF UnloadNext, UnloadCtl, UnloadEnds, TypeOK
<1> QED
  BY <1>1, <1>2, <1>3 DEF LeaveStep, UnloadStep
-----------------------------------------------------------------------------
(* The type invariant. *)

LEMMA HeadFacts ==
    ASSUME TypeOK, UnloadInv
    PROVE  /\ (\E d \in Disk : thread[d] \in Creating) \/ (\E c \in Caller : pc[c] # "idle")
                 => unload = "no"
           /\ unload = "no" => Head(list) \in Object /\ Listed(Head(list)) /\ Head(list) = list[1]
<1>1. list # <<>> => 1 \in DOMAIN list /\ Head(list) = list[1] /\ Head(list) \in Object
  BY ListFacts
<1>2. 1 \in DOMAIN list => Listed(list[1])
  BY DEF Listed
<1>3. unload = "no" => list # <<>>
  BY DEF UnloadInv, Listed
<1> QED
  BY <1>1, <1>2, <1>3 DEF UnloadInv

LEMMA NumberFacts ==
    ASSUME TypeOK, ListInv, DiskInv, NEW o, Listed(o)
    PROVE  /\ DeviceNumber(o) \in Number \cup {AutoNumber}
           /\ DeviceNumber(o) # AutoNumber => DeviceNumber(o) < MaxDevices
           /\ DeviceNumber(o) \in Int
           /\ o \in Disk /\ Ready(o) => DeviceNumber(o) = number[o] /\ number[o] # AutoNumber
           /\ o \in Disk /\ ~Ready(o) => DeviceNumber(o) = 0
           /\ o \notin Disk => o = Ctl /\ DeviceNumber(o) = AutoNumber
<1>1. o \in Disk \/ o = Ctl
  BY ListFacts DEF Object
<1>2. Ctl \notin Disk
  BY NameFacts
<1>3. 0 \in Number /\ 0 < MaxDevices /\ Number \subseteq Int /\ AutoNumber \in Int /\ AutoNumber \notin Number
  BY MaxAssumption DEF Number, AutoNumber
<1>4. o \in Disk /\ Ready(o) => number[o] \in Number /\ number[o] < MaxDevices
  BY DEF TypeOK, DiskInv, Ready, Settled
<1> QED
  BY <1>1, <1>2, <1>3, <1>4 DEF DeviceNumber

LEMMA StepType ==
    ASSUME IInv, Next PROVE TypeOK'
<1>0. TypeOK /\ ListInv /\ DiskInv /\ UnloadInv
  BY DEF IInv
<1> USE DEF creation, calls, leaving
<1>1. ASSUME NEW d \in Disk, DiskStep(d) PROVE TypeOK'
  <2>0. list' \in Seq(Object) /\ d \in Walker
    BY <1>0, <1>1, DiskList, NameFacts
  <2>1. CASE FindFreeDeviceNumber(d)
    <3>1. Head(list) \in Object
      BY <1>0, <2>1, HeadFacts DEF FindFreeDeviceNumber, Goto, Creating
    <3> QED
      BY <1>0, <2>0, <2>1, <3>1 DEF FindFreeDeviceNumber, Goto, StartWalk, TypeOK, Creating
  <2>2. CASE ScanDevice(d)
    <3>1. Listed(cursor[d])
      BY <2>2 DEF ScanDevice, AtLive
    <3>2. NextDevice(cursor[d]) \in Object \cup {None}
      BY <1>0, <3>1, NextFacts
    <3>3. /\ DeviceNumber(cursor[d]) \in Number \cup {AutoNumber}
          /\ DeviceNumber(cursor[d]) # AutoNumber => DeviceNumber(cursor[d]) < MaxDevices
      BY <1>0, <3>1, NumberFacts
    <3>4. ASSUME NEW n \in Number, n < MaxDevices PROVE n + 1 \in Number
      BY <3>4, MaxAssumption DEF Number
    <3>5. number' \in [Disk -> Number]
      <4>1. number' = [number EXCEPT ![d] =
                IF DeviceNumber(cursor[d]) # AutoNumber /\ DeviceNumber(cursor[d]) >= number[d]
                THEN DeviceNumber(cursor[d]) + 1 ELSE number[d]]
        BY <1>0, <2>2 DEF ScanDevice, TypeOK
      <4> DEFINE k == DeviceNumber(cursor[d])
      <4> HIDE DEF k
      <4>2. k # AutoNumber => k + 1 \in Number
        BY <3>3, <3>4 DEF k
      <4> QED
        BY <1>0, <4>1, <4>2 DEF k, TypeOK
    <3> QED
      BY <1>0, <2>0, <2>2, <3>2, <3>5 DEF ScanDevice, AtLive, WalkOn, TypeOK
  <2>3. CASE FreeNumberFound(d)
    BY <1>0, <2>0, <2>3 DEF FreeNumberFound, Goto, EndWalk, TypeOK, Creating
  <2>4. CASE OpenImage(d)
    BY <1>0, <2>0, <2>4, ZenonT(60) DEF OpenImage, Goto, Fails, TypeOK, Creating
  <2>5. CASE IoCreateDevice(d)
    BY <1>0, <2>0, <2>5 DEF IoCreateDevice, CreateWith, Goto, Fails, TypeOK, Creating
  <2>6. CASE CreateSymlink(d)
    BY <1>0, <2>0, <2>6 DEF CreateSymlink, Goto, Fails, TypeOK, Creating
  <2>7. CASE InitExtension(d)
    BY <1>0, <2>0, <2>7 DEF InitExtension, Goto, TypeOK, Creating
  <2>8. CASE ReportCreated(d)
    BY <1>0, <2>0, <2>8 DEF ReportCreated, Goto, TypeOK, Creating
  <2>11. CASE TearDown(d)
    BY <1>0, <2>0, <2>11 DEF TearDown, Goto, TypeOK, Creating
  <2>12. CASE DeleteDevice(d)
    BY <1>0, <2>0, <2>12 DEF DeleteDevice, Goto, TypeOK, Creating
  <2>9. CASE LoseImage(d) \/ UsageNotification(d)
    BY <1>0, <2>0, <2>9 DEF LoseImage, UsageNotification, TypeOK
  <2>10. ASSUME NEW n \in Number \cup {AutoNumber}, AddVirtualDisk(d, n) PROVE TypeOK'
    <3>1. (IF n = AutoNumber THEN 0 ELSE n) \in Number
      BY MaxAssumption DEF Number
    <3> QED
      BY <1>0, <2>0, <2>10, <3>1 DEF AddVirtualDisk, Goto, TypeOK, Creating
  <2> QED
    BY <1>1, <2>1, <2>2, <2>3, <2>4, <2>5, <2>6, <2>7, <2>8, <2>9, <2>10, <2>11, <2>12
       DEF DiskStep, CreationStep, Outside
<1>2. ASSUME NEW c \in Caller, CallStep(c) PROVE TypeOK'
  <2>0. c \in Walker
    BY NameFacts
  <2>1. CASE RemoveWalk(c) \/ QueryWalk(c)
    <3>1. Head(list) \in Object
      BY <1>0, <2>1, HeadFacts DEF RemoveWalk, QueryWalk, At
    <3>2. CASE RemoveWalk(c)
      BY <1>0, <2>0, <3>1, <3>2 DEF RemoveWalk, At, StartWalk, TypeOK
    <3>3. CASE QueryWalk(c)
      BY <1>0, <2>0, <3>1, <3>3 DEF QueryWalk, At, StartWalk, TypeOK
    <3> QED
      BY <2>1, <3>2, <3>3
  <2>2. CASE PassDevice(c) \/ ListDevice(c)
    <3>1. Listed(cursor[c])
      BY <2>2 DEF PassDevice, ListDevice, AtLive
    <3>2. NextDevice(cursor[c]) \in Object \cup {None}
      BY <1>0, <3>1, NextFacts
    <3>3. DeviceNumber(cursor[c]) \in Number \cup {AutoNumber} /\ AutoNumber \notin Number
      BY <1>0, <3>1, NumberFacts DEF AutoNumber, Number
    <3>4. ListDevice(c) => listed' \in [Caller -> Seq(Number)]
      BY <1>0, <3>3 DEF ListDevice, TypeOK
    <3> QED
      BY <1>0, <2>0, <2>2, <3>2, <3>4 DEF PassDevice, ListDevice, AtLive, WalkOn, TypeOK
  <2>3. CASE NotFound(c) \/ EndList(c) \/ ReturnToCaller(c)
    <3>1. 0 \in Number
      BY MaxAssumption DEF Number
    <3>2. CASE NotFound(c)
      BY <1>0, <2>0, <3>1, <3>2 DEF NotFound, At, Return, EndWalk, TypeOK
    <3>3. CASE EndList(c)
      BY <1>0, <2>0, <3>3 DEF EndList, At, EndWalk, TypeOK
    <3>4. CASE ReturnToCaller(c)
      BY <1>0, <2>0, <3>1, <3>4 DEF ReturnToCaller, Return, TypeOK
    <3> QED
      BY <2>3, <3>2, <3>3, <3>4
  <2>4. CASE FindDevice(c)
    <3>1. 0 \in Number
      BY MaxAssumption DEF Number
    <3>2. Found(c, cursor[c]) /\ cursor[c] \in Object
      BY <1>0, <2>0, <2>4 DEF FindDevice, AtLive, TypeOK
    <3>3. CASE cursor[c] \in special_file
      <4>1. At(c, "walk", "idle") /\ Return(c) /\ EndWalk(c)
            /\ UNCHANGED <<list, creation, terminate_thread, special_file, leaving, undefined>>
        BY <3>2, <3>3 DEF Found
      <4>2. /\ pc' \in [Caller -> {"idle", "remove", "query", "walk", "list", "set", "removed",
                                   "queried"}]
            /\ cursor' \in [Walker -> Object \cup {None}] /\ lock' \in Walker \cup {None}
        BY <1>0, <2>0, <4>1 DEF At, EndWalk, TypeOK
      <4>3. /\ hit' \in [Caller -> Object \cup {None}] /\ listed' \in [Caller -> Seq(Number)]
            /\ there' \in [Caller -> SUBSET Disk] /\ ask' \in [Caller -> Number \cup {AutoNumber}]
        BY <1>0, <3>1, <4>1 DEF Return, TypeOK
      <4> QED
        BY <1>0, <4>1, <4>2, <4>3 DEF TypeOK
    <3>4. CASE cursor[c] \notin special_file
      BY <1>0, <2>0, <3>2, <3>4 DEF Found, At, EndWalk, TypeOK
    <3> QED
      BY <3>3, <3>4
  <2>5. CASE SetTerminate(c)
    <3>1. Listed(hit[c]) /\ hit[c] # Ctl => hit[c] \in Disk
      BY <1>0, ListFacts DEF Object
    <3> QED
      BY <1>0, <2>5, <3>1 DEF SetTerminate, At, TypeOK
  <2>6. CASE QueryDriver(c) \/ \E n \in Number \cup {AutoNumber} : RemoveDevice(c, n)
    <3>1. CASE QueryDriver(c)
      BY <1>0, <3>1 DEF QueryDriver, At, TypeOK
    <3>2. ASSUME NEW n \in Number \cup {AutoNumber}, RemoveDevice(c, n) PROVE TypeOK'
      BY <1>0, <3>2 DEF RemoveDevice, At, TypeOK
    <3> QED
      BY <2>6, <3>1, <3>2
  <2> QED
    BY <1>2, <2>1, <2>2, <2>3, <2>4, <2>5, <2>6 DEF CallStep, CallerStep, Request
<1>3. CASE LeaveStep
  <2>0. Ctl \in Walker /\ Ctl \in Object
    BY NameFacts
  <2>1. CASE Unload
    <3>1. Head(list) \in Object
      BY <1>0, <2>1, HeadFacts DEF Unload
    <3> QED
      BY <1>0, <2>0, <2>1, <3>1 DEF Unload, TypeOK
  <2>2. ASSUME NEW d \in Disk, UnloadDisk(d) PROVE TypeOK'
    <3>1. NextDevice(d) \in Object \cup {None}
      BY <1>0, <2>2, NextFacts DEF UnloadDisk, VisitDisk
    <3> QED
      BY <1>0, <2>0, <2>2, <3>1 DEF UnloadDisk, VisitDisk, TypeOK
  <2>3. CASE UnloadNext \/ UnloadEnds
    BY <1>0, <2>3 DEF UnloadNext, UnloadEnds, TypeOK
  <2>4. CASE UnloadCtl
    <3>1. Listed(Ctl) /\ list' = Without(Ctl)
      BY <1>0, <2>4 DEF UnloadCtl, UnloadInv
    <3>2. NextDevice(Ctl) \in Object \cup {None}
      BY <1>0, <3>1, NextFacts
    <3>3. list' \in Seq(Object)
      BY <1>0, <2>0, <3>1, UnlinkFacts
    <3> QED
      BY <1>0, <2>0, <2>4, <3>2, <3>3 DEF UnloadCtl, TypeOK
  <2> QED
    BY <1>3, <2>1, <2>2, <2>3, <2>4 DEF LeaveStep, UnloadStep
<1>4. ASSUME NEW w \in Walker, UseDeleted(w) PROVE TypeOK'
  BY <1>0, <1>4 DEF UseDeleted, TypeOK
<1> QED
  BY <1>1, <1>2, <1>3, <1>4, StepCases
-----------------------------------------------------------------------------
(* The list, and what is known of the disks. *)

LEMMA LeaveList ==
    ASSUME TypeOK, ListInv, UnloadInv, LeaveStep
    PROVE  /\ list' \in Seq(Object)
           /\ \A i, j \in DOMAIN list' : list'[i] = list'[j] => i = j
           /\ \A d \in Disk : Listed(d)' <=> Listed(d)
<1>1. CASE list' = list
  BY <1>1 DEF TypeOK, ListInv, Listed
<1>2. CASE list' = Without(Ctl) /\ cursor[Ctl] = Ctl
  <2>1. Listed(Ctl) /\ Ctl \in Object /\ Ctl \notin Disk
    BY <1>2, NameFacts DEF UnloadInv
  <2>2. /\ list' \in Seq(Object)
        /\ \A i, j \in DOMAIN list' : list'[i] = list'[j] => i = j
        /\ \A p : Listed(p)' <=> Listed(p) /\ p # Ctl
    BY <1>2, <2>1, UnlinkFacts
  <2> QED
    BY <2>1, <2>2
<1> QED
  BY <1>1, <1>2, LeaveOnly

LEMMA StepList ==
    ASSUME IInv, Next PROVE ListInv'
<1>0. TypeOK /\ ListInv /\ DiskInv /\ UnloadInv
  BY DEF IInv
<1>1. ASSUME NEW d \in Disk, DiskStep(d) PROVE ListInv'
  <2>1. /\ \A i, j \in DOMAIN list' : list'[i] = list'[j] => i = j
        /\ \A e \in Disk : Listed(e)' <=> thread'[e] \in Made
    BY <1>0, <1>1, DiskList
  <2> QED
    BY <2>1 DEF ListInv, Made
<1>2. ASSUME NEW c \in Caller, CallStep(c) PROVE ListInv'
  <2>1. list' = list /\ thread' = thread
    BY <1>0, <1>2, CallOnly DEF creation
  <2> QED
    BY <1>0, <2>1 DEF ListInv, Listed, Made
<1>3. CASE LeaveStep
  <2>1. /\ \A i, j \in DOMAIN list' : list'[i] = list'[j] => i = j
        /\ \A d \in Disk : Listed(d)' <=> Listed(d)
    BY <1>0, <1>3, LeaveList
  <2>2. thread' = thread
    BY <1>0, <1>3, LeaveOnly DEF creation
  <2> QED
    BY <1>0, <2>1, <2>2 DEF ListInv, Made
<1>4. ASSUME NEW w \in Walker, UseDeleted(w) PROVE ListInv'
  BY <1>0, <1>4 DEF UseDeleted, ListInv, creation, Listed, Made
<1> QED
  BY <1>1, <1>2, <1>3, <1>4, StepCases

LEMMA StepDisk ==
    ASSUME IInv, Next PROVE DiskInv'
<1>0. TypeOK /\ ListInv /\ DiskInv /\ UnloadInv
  BY DEF IInv
<1>1. ASSUME NEW d \in Disk, DiskStep(d) PROVE DiskInv'
  <2>1. /\ \A e \in Disk : e # d =>
              /\ thread'[e] = thread[e] /\ reply'[e] = reply[e] /\ want'[e] = want[e]
              /\ number'[e] = number[e] /\ (e \in opened' <=> e \in opened)
              /\ e \in terminate_thread' <=> e \in terminate_thread
    BY <1>0, <1>1, DiskOnly
  <2>2. Moves(d)
    BY <1>0, <1>1, DiskMoves
  <2>3. ASSUME NEW e \in Disk PROVE
        /\ thread'[e] \in Creating \cup {"unused"} <=> reply'[e] = "none"
        /\ thread'[e] \in {"running", "delete"} => reply'[e] = "ok"
        /\ e \in opened' <=> thread'[e] \in Opening
        /\ reply'[e] = "ok" /\ thread'[e] # "running" => e \in terminate_thread'
        /\ want'[e] \in {AutoNumber, number'[e]}
        /\ thread'[e] \in {"auto", "scan"} => want'[e] = AutoNumber
        /\ thread'[e] \in Settled => number'[e] < MaxDevices
    <3>1. CASE e # d
      BY <1>0, <2>1, <3>1 DEF DiskInv
    <3>2. CASE e = d
      BY <1>0, <2>2, <3>2 DEF DiskInv, Moves, Creating, Opening, Settled
    <3> QED
      BY <3>1, <3>2
  <2> QED
    BY <2>3 DEF DiskInv, Creating, Opening, Settled
<1>2. ASSUME NEW c \in Caller, CallStep(c) PROVE DiskInv'
  <2>1. UNCHANGED creation /\ terminate_thread \subseteq terminate_thread'
    BY <1>0, <1>2, CallOnly
  <2> QED
    BY <1>0, <2>1 DEF DiskInv, creation, Creating, Opening, Settled
<1>3. CASE LeaveStep
  <2>1. UNCHANGED creation /\ terminate_thread \subseteq terminate_thread'
    BY <1>0, <1>3, LeaveOnly
  <2> QED
    BY <1>0, <2>1 DEF DiskInv, creation, Creating, Opening, Settled
<1>4. ASSUME NEW w \in Walker, UseDeleted(w) PROVE DiskInv'
  BY <1>0, <1>4 DEF UseDeleted, DiskInv, creation, Creating, Opening, Settled
<1> QED
  BY <1>1, <1>2, <1>3, <1>4, StepCases

LEMMA StepNumber ==
    ASSUME IInv, Next PROVE NumberInv'
<1>0. TypeOK /\ ListInv /\ DiskInv /\ UnloadInv /\ NumberInv
  BY DEF IInv
<1>1. ASSUME NEW d \in Disk, DiskStep(d) PROVE NumberInv'
  <2>1. \A e \in Disk : e # d => thread'[e] = thread[e] /\ number'[e] = number[e]
    BY <1>0, <1>1, DiskOnly
  <2>2. \A e \in Disk : Listed(e)' <=> thread'[e] \in Made
    BY <1>0, <1>1, DiskList
  <2>3. \A e \in Disk : Listed(e) <=> thread[e] \in Made
    BY <1>0 DEF ListInv
  <2>4. Moves(d)
    BY <1>0, <1>1, DiskMoves
  \* A disk that is listed has kept its number, and was listed or had found it free.
  <2>5. thread'[d] \in Made =>
           /\ number'[d] = number[d]
           /\ thread[d] \in Made \/ ~NameTaken(d)
    BY <2>4 DEF Moves, Made
  <2> SUFFICES ASSUME NEW e \in Disk, NEW f \in Disk, Listed(e)', Listed(f)',
                      number'[e] = number'[f]
               PROVE  e = f
    BY DEF NumberInv
  <2>6. number'[e] = number[e] /\ number'[f] = number[f]
    BY <2>1, <2>2, <2>5
  <2>7. CASE Listed(e) /\ Listed(f)
    BY <1>0, <2>6, <2>7 DEF NumberInv
  <2>8. CASE ~Listed(e) /\ e = d /\ f # d
    BY <2>1, <2>2, <2>3, <2>5, <2>6, <2>8 DEF NameTaken
  <2>9. CASE ~Listed(f) /\ f = d /\ e # d
    BY <2>1, <2>2, <2>3, <2>5, <2>6, <2>9 DEF NameTaken
  <2> QED
    BY <2>1, <2>2, <2>3, <2>7, <2>8, <2>9
<1>2. ASSUME NEW c \in Caller, CallStep(c) PROVE NumberInv'
  <2>1. list' = list /\ UNCHANGED creation
    BY <1>0, <1>2, CallOnly
  <2> QED
    BY <1>0, <2>1 DEF NumberInv, creation, Listed
<1>3. CASE LeaveStep
  <2>1. \A d \in Disk : Listed(d)' <=> Listed(d)
    BY <1>0, <1>3, LeaveList
  <2>2. UNCHANGED creation
    BY <1>0, <1>3, LeaveOnly
  <2> QED
    BY <1>0, <2>1, <2>2 DEF NumberInv, creation
<1>4. ASSUME NEW w \in Walker, UseDeleted(w) PROVE NumberInv'
  BY <1>0, <1>4 DEF UseDeleted, NumberInv, creation, Listed
<1> QED
  BY <1>1, <1>2, <1>3, <1>4, StepCases
-----------------------------------------------------------------------------
(* Walks, and what a removal has found. *)

LEMMA StepWalk ==
    ASSUME IInv, Next PROVE WalkInv'
<1>0. TypeOK /\ ListInv /\ DiskInv /\ UnloadInv /\ WalkInv
  BY DEF IInv
<1>1. \A e \in Disk : Listed(e) <=> thread[e] \in Made
  BY <1>0 DEF ListInv
<1>2. ASSUME NEW d \in Disk, DiskStep(d) PROVE WalkInv'
  <2>1. /\ \A e \in Disk : e # d => thread'[e] = thread[e]
        /\ \A w \in Walker : w # d => cursor'[w] = cursor[w]
    BY <1>0, <1>2, DiskOnly
  <2>2. thread[d] \in Made \cup {"ended"} => thread'[d] \in Made \cup {"ended"}
    BY <1>0, <1>2, DiskMoves DEF Moves, Made
  <2>3. \A e \in Disk : cursor'[d] = e => cursor[d] = e \/ Listed(e)
    <3>1. CASE FindFreeDeviceNumber(d)
      <4>1. Listed(Head(list))
        BY <1>0, <3>1, HeadFacts DEF FindFreeDeviceNumber, Goto, Creating
      <4>2. cursor'[d] = Head(list)
        BY <1>0, <3>1, NameFacts DEF FindFreeDeviceNumber, StartWalk, TypeOK
      <4> QED
        BY <4>1, <4>2
    <3>2. CASE ScanDevice(d)
      <4>1. Listed(cursor[d]) /\ cursor' = [cursor EXCEPT ![d] = NextDevice(cursor[d])]
        BY <3>2 DEF ScanDevice, AtLive, WalkOn
      <4>2. NextDevice(cursor[d]) # None => Listed(NextDevice(cursor[d]))
        BY <1>0, <4>1, NextFacts
      <4>3. cursor'[d] = NextDevice(cursor[d])
        BY <1>0, <4>1, NameFacts DEF TypeOK
      <4> QED
        BY <4>2, <4>3, NameFacts
    <3>3. CASE FreeNumberFound(d)
      BY <1>0, <3>3, NameFacts DEF FreeNumberFound, EndWalk, TypeOK
    <3>4. CASE OpenImage(d) \/ IoCreateDevice(d) \/ CreateSymlink(d)
      BY <3>4 DEF OpenImage, IoCreateDevice, CreateWith, CreateSymlink
    <3>5. CASE \/ InitExtension(d) \/ ReportCreated(d) \/ TearDown(d) \/ DeleteDevice(d)
               \/ Outside(d)
      BY <3>5 DEF InitExtension, ReportCreated, TearDown, DeleteDevice, Outside, LoseImage,
                  UsageNotification, AddVirtualDisk
    <3> QED
      BY <1>2, <3>1, <3>2, <3>3, <3>4, <3>5 DEF DiskStep, CreationStep
  <2> QED
    BY <1>0, <1>1, <2>1, <2>2, <2>3 DEF WalkInv, Made
<1>3. ASSUME NEW c \in Caller, CallStep(c) PROVE WalkInv'
  <2>1. thread' = thread /\ \A w \in Walker : w # c => cursor'[w] = cursor[w]
    BY <1>0, <1>3, CallOnly DEF creation
  <2>2. \A e \in Disk : cursor'[c] = e => cursor[c] = e \/ Listed(e)
    <3>1. CASE RemoveWalk(c) \/ QueryWalk(c)
      <4>1. Listed(Head(list))
        BY <1>0, <3>1, HeadFacts DEF RemoveWalk, QueryWalk, At
      <4>2. cursor'[c] = Head(list)
        BY <1>0, <3>1, NameFacts DEF RemoveWalk, QueryWalk, StartWalk, TypeOK
      <4> QED
        BY <4>1, <4>2
    <3>2. CASE PassDevice(c) \/ ListDevice(c)
      <4>1. Listed(cursor[c]) /\ cursor' = [cursor EXCEPT ![c] = NextDevice(cursor[c])]
        BY <3>2 DEF PassDevice, ListDevice, AtLive, WalkOn
      <4>2. NextDevice(cursor[c]) # None => Listed(NextDevice(cursor[c]))
        BY <1>0, <4>1, NextFacts
      <4>3. cursor'[c] = NextDevice(cursor[c])
        BY <1>0, <4>1, NameFacts DEF TypeOK
      <4> QED
        BY <4>2, <4>3, NameFacts
    <3>3. CASE NotFound(c) \/ FindDevice(c) \/ EndList(c)
      BY <1>0, <3>3, NameFacts DEF NotFound, FindDevice, Found, EndList, EndWalk, TypeOK
    <3>4. CASE SetTerminate(c) \/ ReturnToCaller(c) \/ Request(c)
      BY <3>4 DEF SetTerminate, ReturnToCaller, Request, QueryDriver, RemoveDevice
    <3> QED
      BY <1>3, <3>1, <3>2, <3>3, <3>4 DEF CallStep, CallerStep
  <2> QED
    BY <1>0, <1>1, <2>1, <2>2 DEF WalkInv, Made
<1>4. CASE LeaveStep
  <2>1. thread' = thread /\ \A w \in Walker : w # Ctl => cursor'[w] = cursor[w]
    BY <1>0, <1>4, LeaveOnly DEF creation
  <2>2. \A e \in Disk : cursor'[Ctl] = e => cursor[Ctl] = e \/ Listed(e)
    <3>1. CASE Unload
      <4>1. Listed(Head(list))
        BY <1>0, <3>1, HeadFacts DEF Unload
      <4>2. cursor'[Ctl] = Head(list)
        BY <1>0, <3>1, NameFacts DEF Unload, TypeOK
      <4> QED
        BY <4>1, <4>2
    <3>2. ASSUME NEW o, Listed(o), cursor' = [cursor EXCEPT ![Ctl] = NextDevice(o)]
          PROVE  \A e \in Disk : cursor'[Ctl] = e => Listed(e)
      <4>1. NextDevice(o) # None => Listed(NextDevice(o))
        BY <1>0, <3>2, NextFacts
      <4>2. cursor'[Ctl] = NextDevice(o)
        BY <1>0, <3>2, NameFacts DEF TypeOK
      <4> QED
        BY <4>1, <4>2, NameFacts
    <3>3. CASE UnloadCtl
      BY <1>0, <3>2, <3>3 DEF UnloadCtl, UnloadInv
    <3>4. ASSUME NEW d \in Disk, UnloadDisk(d)
          PROVE  \A e \in Disk : cursor'[Ctl] = e => Listed(e)
      BY <3>2, <3>4 DEF UnloadDisk, VisitDisk
    <3>5. CASE UnloadNext \/ UnloadEnds
      BY <3>5 DEF UnloadNext, UnloadEnds
    <3> QED
      BY <1>4, <3>1, <3>3, <3>4, <3>5 DEF LeaveStep, UnloadStep
  <2> QED
    BY <1>0, <1>1, <2>1, <2>2 DEF WalkInv, Made
<1>5. ASSUME NEW w \in Walker, UseDeleted(w) PROVE WalkInv'
  BY <1>0, <1>5 DEF UseDeleted, WalkInv, creation, Made
<1> QED
  BY <1>2, <1>3, <1>4, <1>5, StepCases

\* Nothing moves back from where a disk's number is settled for its removal.
LEMMA StaysKnown ==
    ASSUME TypeOK, DiskInv, NEW d \in Disk, DiskStep(d),
           thread[d] \in {"report", "running", "delete", "ended"}
    PROVE  /\ thread'[d] \in {"report", "running", "delete", "ended"}
           /\ number'[d] = number[d] /\ (d \in terminate_thread => d \in terminate_thread')
  BY DiskMoves DEF Moves

LEMMA StepRemove ==
    ASSUME IInv, Next PROVE RemoveInv'
<1>0. TypeOK /\ ListInv /\ DiskInv /\ UnloadInv /\ WalkInv /\ RemoveInv
  BY DEF IInv
<1> DEFINE K == {"report", "running", "delete", "ended"}
<1>1. ASSUME NEW d \in Disk, DiskStep(d) PROVE RemoveInv'
  <2>1. /\ ~undefined /\ UNCHANGED <<pc, ask, hit, undefined>>
        /\ \A e \in Disk : e # d =>
              /\ thread'[e] = thread[e] /\ number'[e] = number[e]
              /\ e \in terminate_thread' <=> e \in terminate_thread
    BY <1>0, <1>1, DiskOnly
  <2>2. thread[d] \in K => /\ thread'[d] \in K /\ number'[d] = number[d]
                           /\ d \in terminate_thread => d \in terminate_thread'
    BY <1>0, <1>1, StaysKnown
  <2>3. \A e \in Disk : thread[e] \in K =>
           /\ thread'[e] \in K /\ number'[e] = number[e]
           /\ e \in terminate_thread => e \in terminate_thread'
    BY <2>1, <2>2
  <2> HIDE DEF K
  <2>4. \A c \in Caller :
        /\ pc'[c] \in {"set", "removed"} =>
              \/ hit'[c] = Ctl
              \/ /\ hit'[c] \in Disk
                 /\ ask'[c] # 0 => number'[hit'[c]] = ask'[c] /\ thread'[hit'[c]] \in K
        /\ pc'[c] = "removed" /\ ~undefined' =>
              hit'[c] \in terminate_thread' /\ thread'[hit'[c]] \in K
    <3> SUFFICES ASSUME NEW c \in Caller PROVE
          /\ pc[c] \in {"set", "removed"} =>
                \/ hit[c] = Ctl
                \/ /\ hit[c] \in Disk
                   /\ ask[c] # 0 => number'[hit[c]] = ask[c] /\ thread'[hit[c]] \in K
          /\ pc[c] = "removed" => hit[c] \in terminate_thread' /\ thread'[hit[c]] \in K
      BY <2>1
    <3>1. /\ pc[c] \in {"set", "removed"} =>
                \/ hit[c] = Ctl
                \/ /\ hit[c] \in Disk
                   /\ ask[c] # 0 => number[hit[c]] = ask[c] /\ thread[hit[c]] \in K
          /\ pc[c] = "removed" => hit[c] \in terminate_thread /\ thread[hit[c]] \in K
      BY <1>0, <2>1 DEF RemoveInv, K
    <3>2. hit[c] \in terminate_thread => hit[c] \in Disk
      BY <1>0 DEF TypeOK
    <3> QED
      BY <2>3, <3>1, <3>2
  <2> QED
    BY <2>4 DEF RemoveInv, K
<1>2. ASSUME NEW c \in Caller, CallStep(c) PROVE RemoveInv'
  <2>1. /\ ~undefined /\ thread' = thread /\ number' = number
        /\ terminate_thread \subseteq terminate_thread'
        /\ \A e \in Caller : e # c => pc'[e] = pc[e] /\ ask'[e] = ask[e] /\ hit'[e] = hit[e]
    BY <1>0, <1>2, CallOnly DEF creation
  <2>2. /\ pc'[c] \in {"set", "removed"} =>
              \/ hit'[c] = Ctl
              \/ /\ hit'[c] \in Disk
                 /\ ask'[c] # 0 => number[hit'[c]] = ask'[c] /\ thread[hit'[c]] \in K
        /\ pc'[c] = "removed" /\ ~undefined' =>
              hit'[c] \in terminate_thread' /\ thread[hit'[c]] \in K
    <3>1. CASE FindDevice(c)
      <4>1. Listed(cursor[c]) /\ DeviceNumber(cursor[c]) = ask[c] /\ Found(c, cursor[c])
        BY <3>1 DEF FindDevice, AtLive
      <4>2. /\ cursor[c] \in Disk /\ Ready(cursor[c]) => number[cursor[c]] = ask[c]
            /\ cursor[c] \in Disk /\ ~Ready(cursor[c]) => ask[c] = 0
            /\ cursor[c] \notin Disk => cursor[c] = Ctl
        BY <1>0, <4>1, NumberFacts
      <4>3. CASE cursor[c] \in special_file
        BY <1>0, <4>1, <4>3 DEF Found, At, TypeOK
      <4>4. CASE cursor[c] \notin special_file
        <5>1. pc'[c] = "set" /\ hit'[c] = cursor[c] /\ ask' = ask
          BY <1>0, <4>1, <4>4 DEF Found, At, TypeOK
        <5> QED
          BY <4>2, <5>1 DEF Ready
      <4> QED
        BY <4>3, <4>4
    <3>2. CASE SetTerminate(c)
      <4>1. pc[c] = "set" /\ pc'[c] = "removed" /\ hit' = hit /\ ask' = ask
        BY <1>0, <3>2 DEF SetTerminate, At, TypeOK
      <4>2. ~undefined' => /\ hit[c] # Ctl /\ Listed(hit[c]) /\ Ready(hit[c])
                           /\ terminate_thread' = terminate_thread \cup {hit[c]}
        BY <3>2 DEF SetTerminate
      <4> QED
        BY <1>0, <4>1, <4>2 DEF RemoveInv, Ready
    <3>3. CASE \/ RemoveWalk(c) \/ NotFound(c) \/ QueryWalk(c) \/ EndList(c) \/ QueryDriver(c)
               \/ ReturnToCaller(c) \/ \E n \in Number \cup {AutoNumber} : RemoveDevice(c, n)
      BY <1>0, <3>3 DEF RemoveWalk, NotFound, QueryWalk, EndList, QueryDriver, ReturnToCaller,
                        RemoveDevice, At, TypeOK
    <3>4. CASE PassDevice(c) \/ ListDevice(c)
      BY <1>0, <3>4 DEF PassDevice, ListDevice, calls
    <3> QED
      BY <1>2, <3>1, <3>2, <3>3, <3>4 DEF CallStep, CallerStep, Request
  <2> HIDE DEF K
  <2>3. ASSUME NEW e \in Caller PROVE
        /\ pc'[e] \in {"set", "removed"} =>
              \/ hit'[e] = Ctl
              \/ /\ hit'[e] \in Disk
                 /\ ask'[e] # 0 => number[hit'[e]] = ask'[e] /\ thread[hit'[e]] \in K
        /\ pc'[e] = "removed" /\ ~undefined' =>
              hit'[e] \in terminate_thread' /\ thread[hit'[e]] \in K
    <3>1. CASE e = c
      BY <2>2, <3>1
    <3>2. CASE e # c
      BY <1>0, <2>1, <3>2 DEF RemoveInv, K
    <3> QED
      BY <3>1, <3>2
  <2> QED
    BY <2>1, <2>3 DEF RemoveInv, K
<1>3. CASE LeaveStep
  <2>1. /\ UNCHANGED <<thread, number, pc, ask, hit, undefined>>
        /\ terminate_thread \subseteq terminate_thread'
    BY <1>0, <1>3, LeaveOnly DEF creation, calls
  <2> QED
    BY <1>0, <2>1 DEF RemoveInv
<1>4. ASSUME NEW w \in Walker, UseDeleted(w) PROVE RemoveInv'
  BY <1>0, <1>4 DEF UseDeleted, RemoveInv, creation, calls
<1> QED
  BY <1>1, <1>2, <1>3, <1>4, StepCases
-----------------------------------------------------------------------------
(* A list query. *)

\* What an entry more makes of the places where a number is listed.
LEMMA AppendFacts ==
    ASSUME NEW S, NEW s \in Seq(S), NEW v \in S, NEW k
    PROVE  {i \in DOMAIN Append(s, v) : Append(s, v)[i] = k} =
              {i \in DOMAIN s : s[i] = k} \cup (IF v = k THEN {Len(s) + 1} ELSE {})
  OBVIOUS

LEMMA DiskQuery ==
    ASSUME IInv, NEW d \in Disk, DiskStep(d), NEW c \in Caller PROVE Queried(c)'
<1>0. TypeOK /\ ListInv /\ DiskInv /\ WalkInv /\ Queried(c)
  BY DEF IInv, QueryInv
<1>1. /\ c \in Walker /\ c # d
      /\ UNCHANGED <<pc, listed>> /\ cursor'[c] = cursor[c]
      /\ \A e \in Disk : e # d => thread'[e] = thread[e] /\ number'[e] = number[e]
  BY <1>0, DiskOnly, NameFacts
<1>2. Moves(d)
  BY <1>0, DiskMoves
<1>3. there'[c] \subseteq there[c] /\ there[c] \subseteq Disk
  BY <1>0, <1>2 DEF Moves, TypeOK
<1>4. \A e \in there'[c] :
         /\ thread'[e] \in {"report", "running", "delete"} /\ number'[e] = number[e]
         /\ Listed(e) /\ thread[e] \in Made
  <2> SUFFICES ASSUME NEW e \in there'[c]
               PROVE  /\ thread'[e] \in {"report", "running", "delete"} /\ number'[e] = number[e]
                      /\ Listed(e) /\ thread[e] \in Made
    OBVIOUS
  <2>1. Listed(e) /\ thread[e] \in {"report", "running", "delete"} /\ e \in Disk
    BY <1>0, <1>3 DEF Queried, Ready
  <2>2. CASE e # d
    BY <1>1, <2>1, <2>2 DEF Made
  <2>3. CASE e = d
    BY <1>2, <2>1, <2>3 DEF Moves, Made
  <2> QED
    BY <2>2, <2>3
<1>5. /\ \A e \in Disk : Listed(e)' <=> thread'[e] \in Made
      /\ \A p : p \notin Disk => (Listed(p)' <=> Listed(p))
      /\ \A p, q : Listed(p)' /\ Listed(q)' /\ Listed(p) /\ Listed(q) =>
            (Ahead(p, q)' <=> Ahead(p, q))
  BY <1>0, DiskList
<1>6. \A e \in there'[c] : Listed(e)' /\ Ready(e)'
  BY <1>3, <1>4, <1>5 DEF Ready, Made
<1>7. \A e \in there'[c] : (Entries(c, e)' = Entries(c, e)) /\ (Entered(c, e)' <=> Entered(c, e))
  BY <1>1, <1>4 DEF Entries, Entered
  \* An object that the walk is at does not come back to the list.
<1>8. cursor[c] # None /\ Listed(cursor[c])' => Listed(cursor[c])
  <2> SUFFICES ASSUME cursor[c] # None, Listed(cursor[c])' PROVE Listed(cursor[c])
    OBVIOUS
  <2>1. CASE cursor[c] \notin Disk
    BY <1>1, <1>5, <2>1
  <2>2. CASE cursor[c] \in Disk
    <3>1. thread[cursor[c]] \in Made \cup {"ended"} /\ thread'[cursor[c]] \in Made
      BY <1>0, <1>1, <1>5, <2>2 DEF WalkInv
    <3>2. thread[cursor[c]] # "ended"
      BY <1>1, <1>2, <2>2, <3>1 DEF Moves, Made
    <3> QED
      BY <1>0, <2>2, <3>1, <3>2 DEF ListInv
  <2> QED
    BY <2>1, <2>2
<1>9. ASSUME pc[c] = "list", cursor[c] = None \/ Listed(cursor[c])', NEW e \in there'[c]
      PROVE  IF cursor[c] # None /\ Ahead(cursor[c], e)'
             THEN number'[e] # 0 => Entries(c, e)' = {}
             ELSE Entered(c, e)'
  <2>1. IF cursor[c] # None /\ Ahead(cursor[c], e)
        THEN number[e] # 0 => Entries(c, e) = {}
        ELSE Entered(c, e)
    BY <1>0, <1>3, <1>8, <1>9 DEF Queried
  <2>2. cursor[c] # None => (Ahead(cursor[c], e)' <=> Ahead(cursor[c], e))
    BY <1>1, <1>4, <1>5, <1>6, <1>8, <1>9
  <2> QED
    BY <1>4, <1>7, <2>1, <2>2
<1>10. pc[c] \notin {"list", "queried"} => listed[c] = <<>> /\ there'[c] = {}
  BY <1>0, <1>3 DEF Queried
<1>11. pc[c] = "queried" => \A e \in there'[c] : Entered(c, e)'
  BY <1>0, <1>3, <1>7 DEF Queried
<1> QED
  BY <1>1, <1>6, <1>9, <1>10, <1>11 DEF Queried, Ahead, Listed
LEMMA CallQuery ==
    ASSUME IInv, NEW c \in Caller, CallStep(c) PROVE Queried(c)'
<1>0. TypeOK /\ ListInv /\ DiskInv /\ NumberInv /\ UnloadInv /\ Queried(c)
  BY DEF IInv, QueryInv
<1>1. UNCHANGED <<list, thread, number>> /\ c \in Walker
  BY <1>0, CallOnly, NameFacts DEF creation
<1>2. /\ \A p : Listed(p)' <=> Listed(p)
      /\ \A p, q : Ahead(p, q)' <=> Ahead(p, q)
      /\ \A d \in Disk : Ready(d)' <=> Ready(d)
  BY <1>1 DEF Listed, Ahead, Ready
<1>3. there[c] \subseteq Disk /\ listed[c] \in Seq(Number)
  BY <1>0 DEF TypeOK
<1>4. CASE QueryWalk(c)
  <2>1. /\ pc[c] = "query" /\ pc'[c] = "list" /\ cursor'[c] = Head(list)
        /\ there'[c] = {d \in Disk : Listed(d) /\ Ready(d)} /\ listed'[c] = listed[c]
    BY <1>0, <1>1, <1>4 DEF QueryWalk, At, StartWalk, TypeOK
  <2>2. Listed(Head(list)) /\ Head(list) = list[1] /\ Head(list) # None
    BY <1>0, <2>1, HeadFacts, NameFacts
  <2>3. listed'[c] = <<>>
    BY <1>0, <2>1 DEF Queried
  <2>4. \A d \in there'[c] : Listed(d)' /\ Ready(d)'
    BY <1>2, <2>1
  <2>5. \A d : Listed(d) => Ahead(Head(list), d)
    <3> SUFFICES ASSUME NEW d, Listed(d) PROVE Ahead(Head(list), d)
      OBVIOUS
    <3>1. PICK j \in DOMAIN list : list[j] = d
      BY DEF Listed
    <3>2. 1 \in DOMAIN list /\ 1 <= j
      BY <1>0, <3>1, ListFacts
    <3> QED
      BY <2>2, <3>1, <3>2 DEF Ahead
  <2>6. \A d \in there'[c] : cursor'[c] # None /\ Ahead(cursor[c], d)' /\ Entries(c, d)' = {}
    BY <1>2, <2>1, <2>2, <2>3, <2>5 DEF Entries
  <2> QED
    BY <2>1, <2>4, <2>6 DEF Queried
<1>5. CASE ListDevice(c)
  <2> DEFINE o == cursor[c]
             n == NextDevice(o)
             v == DeviceNumber(o)
  <2>1. /\ pc[c] = "list" /\ pc' = pc /\ there' = there /\ o # None /\ Listed(o)
        /\ cursor'[c] = n
        /\ listed'[c] = IF v = AutoNumber THEN listed[c] ELSE Append(listed[c], v)
    BY <1>0, <1>1, <1>5 DEF ListDevice, AtLive, WalkOn, TypeOK
  <2>2. /\ v \in Number \cup {AutoNumber}
        /\ o \in Disk /\ Ready(o) => v = number[o] /\ v # AutoNumber
        /\ o \in Disk /\ ~Ready(o) => v = 0
        /\ o \notin Disk => v = AutoNumber
    BY <1>0, <2>1, NumberFacts
  <2>3. /\ n # None => Listed(n)
        /\ \A d : Listed(d) /\ Ahead(o, d) /\ d # o => n # None /\ Ahead(n, d)
        /\ \A d : n # None /\ Ahead(n, d) => Ahead(o, d) /\ d # o
        /\ Ahead(o, o)
    BY <1>0, <2>1, NextFacts
  <2> HIDE DEF o, n, v
  <2>4. \A d \in there[c] : /\ d \in Disk /\ Listed(d) /\ Ready(d)
                            /\ IF Ahead(o, d) THEN number[d] # 0 => Entries(c, d) = {}
                               ELSE Entered(c, d)
    BY <1>0, <1>3, <2>1 DEF Queried, o
  <2>5. \A d \in there[c] :
           Entries(c, d)' = Entries(c, d) \cup
                               (IF v # AutoNumber /\ v = number[d] THEN {Len(listed[c]) + 1} ELSE {})
    <3> SUFFICES ASSUME NEW d \in there[c]
                 PROVE  {i \in DOMAIN listed'[c] : listed'[c][i] = number[d]} =
                          Entries(c, d) \cup
                             (IF v # AutoNumber /\ v = number[d] THEN {Len(listed[c]) + 1} ELSE {})
      BY <1>1 DEF Entries
    <3>1. CASE v = AutoNumber
      BY <2>1, <3>1 DEF Entries
    <3>2. CASE v # AutoNumber
      BY <1>3, <2>1, <2>2, <3>2, AppendFacts DEF Entries
    <3> QED
      BY <3>1, <3>2
  <2>6. \A d \in there[c] :
           IF n # None /\ Ahead(n, d) THEN number[d] # 0 => Entries(c, d)' = {}
           ELSE Entered(c, d)'
    <3> SUFFICES ASSUME NEW d \in there[c]
                 PROVE  IF n # None /\ Ahead(n, d) THEN number[d] # 0 => Entries(c, d)' = {}
                        ELSE /\ Entries(c, d)' # {}
                             /\ number[d] # 0 => \A i, j \in Entries(c, d)' : i = j
      BY <1>1 DEF Entered
    <3>1. CASE d = o
      BY <2>2, <2>3, <2>4, <2>5, <3>1
    <3>2. CASE d # o
      <4>1. number[d] # 0 => v # number[d] \/ v = AutoNumber
        BY <1>0, <2>1, <2>2, <2>4, <3>2 DEF NumberInv
      <4>2. number[d] # 0 => Entries(c, d)' = Entries(c, d)
        BY <2>5, <4>1
      <4>3. Entries(c, d) # {} => Entries(c, d)' # {}
        BY <2>5
      <4>4. Ahead(o, d) => n # None /\ Ahead(n, d)
        BY <2>3, <2>4, <3>2
      <4> QED
        BY <2>3, <2>4, <4>2, <4>3, <4>4 DEF Entered
    <3> QED
      BY <3>1, <3>2
  <2>7. \A d \in there'[c] : Listed(d)' /\ Ready(d)'
    BY <1>2, <2>1, <2>4
  <2>8. \A d \in there'[c] :
           IF cursor'[c] # None /\ Ahead(cursor[c], d)'
           THEN number'[d] # 0 => Entries(c, d)' = {}
           ELSE Entered(c, d)'
    BY <1>1, <1>2, <2>1, <2>6
  <2> QED
    BY <2>1, <2>7, <2>8 DEF Queried
<1>6. CASE EndList(c)
  <2>1. /\ pc[c] = "list" /\ pc'[c] = "queried" /\ cursor[c] = None
        /\ UNCHANGED <<listed, there>>
    BY <1>0, <1>6 DEF EndList, At, TypeOK
  <2>2. \A d \in there[c] : d \in Disk /\ Listed(d) /\ Ready(d) /\ Entered(c, d)
    BY <1>0, <1>3, <2>1 DEF Queried
  <2>3. \A d \in there'[c] : Listed(d)' /\ Ready(d)' /\ Entered(c, d)'
    BY <1>1, <1>2, <2>1, <2>2 DEF Entered, Entries
  <2> QED
    BY <2>1, <2>3 DEF Queried
<1>7. CASE pc'[c] \notin {"list", "queried"} /\ listed'[c] = <<>> /\ there'[c] = {}
  BY <1>7 DEF Queried
<1>8. CASE ReturnToCaller(c) \/ NotFound(c)
  BY <1>0, <1>7, <1>8 DEF ReturnToCaller, NotFound, At, Return, TypeOK
<1>9. ASSUME pc[c] \notin {"list", "queried"}, pc'[c] \notin {"list", "queried"},
             UNCHANGED <<listed, there>>
      PROVE  Queried(c)'
  BY <1>0, <1>7, <1>9 DEF Queried
<1>10. CASE FindDevice(c)
  <2>1. pc[c] = "walk" /\ Found(c, cursor[c])
    BY <1>10 DEF FindDevice, Found, At
  <2>2. CASE cursor[c] \in special_file
    BY <1>0, <1>7, <2>1, <2>2 DEF Found, At, Return, TypeOK
  <2>3. CASE cursor[c] \notin special_file
    <3>1. pc'[c] = "set" /\ UNCHANGED <<listed, there>>
      BY <1>0, <2>1, <2>3 DEF Found, At, TypeOK
    <3> QED
      BY <1>9, <2>1, <3>1
  <2> QED
    BY <2>2, <2>3
<1>11. CASE RemoveWalk(c) \/ SetTerminate(c) \/ QueryDriver(c)
  BY <1>0, <1>9, <1>11 DEF RemoveWalk, SetTerminate, QueryDriver, At, TypeOK
<1>12. CASE PassDevice(c)
  BY <1>0, <1>9, <1>12 DEF PassDevice, calls
<1>13. CASE \E n \in Number \cup {AutoNumber} : RemoveDevice(c, n)
  BY <1>0, <1>9, <1>13 DEF RemoveDevice, At, TypeOK
<1> QED
  BY <1>4, <1>5, <1>6, <1>8, <1>10, <1>11, <1>12, <1>13 DEF CallStep, CallerStep, Request

LEMMA StepQuery ==
    ASSUME IInv, Next PROVE QueryInv'
<1>0. TypeOK /\ QueryInv /\ UnloadInv
  BY DEF IInv
<1>1. ASSUME NEW d \in Disk, DiskStep(d) PROVE QueryInv'
  BY <1>1, DiskQuery DEF QueryInv
<1>2. ASSUME NEW c \in Caller, CallStep(c) PROVE QueryInv'
  <2>1. ASSUME NEW e \in Caller, e # c PROVE Queried(e)'
    <3>1. /\ UNCHANGED <<list, thread, number>> /\ e \in Walker
          /\ pc'[e] = pc[e] /\ listed'[e] = listed[e] /\ there'[e] = there[e]
          /\ cursor'[e] = cursor[e] /\ Queried(e)
      BY <1>0, <1>2, <2>1, CallOnly, NameFacts DEF creation, QueryInv
    <3> QED
      BY <3>1 DEF Queried, Listed, Ready, Ahead, Entered, Entries
  <2> QED
    BY <1>2, <2>1, CallQuery DEF QueryInv
<1>3. CASE LeaveStep
  <2>1. UNCHANGED calls
    BY <1>0, <1>3, LeaveOnly
  <2>2. \A c \in Caller : pc[c] = "idle"
    BY <1>0, <1>3 DEF LeaveStep, Unload, UnloadStep, UnloadDisk, VisitDisk, UnloadNext, UnloadCtl,
                      UnloadEnds, UnloadInv
  <2>3. \A c \in Caller : pc'[c] = "idle" /\ listed'[c] = <<>> /\ there'[c] = {}
    BY <1>0, <2>1, <2>2 DEF QueryInv, Queried, calls
  <2> QED
    BY <2>3 DEF QueryInv, Queried
<1>4. ASSUME NEW w \in Walker, UseDeleted(w) PROVE QueryInv'
  <2>1. UNCHANGED <<list, thread, number, cursor, pc, listed, there>>
    BY <1>4 DEF UseDeleted, creation, calls
  <2> QED
    BY <1>0, <2>1 DEF QueryInv, Queried, Listed, Ready, Ahead, Entered, Entries
<1> QED
  BY <1>1, <1>2, <1>3, <1>4, StepCases
-----------------------------------------------------------------------------
(* The unloading driver. *)

\* A disk's thread while the driver is unloaded: it only goes, and where the unloading driver is
\* in the list stays where it was.
LEMMA DiskGoes ==
    ASSUME IInv, NEW d \in Disk, DiskStep(d), unload # "no"
    PROVE  /\ \A e \in Disk : thread'[e] \notin Creating
           /\ \/ list' = list
              \/ /\ Listed(d) /\ list' = Without(d)
                 /\ \A p : Listed(p)' <=> Listed(p) /\ p # d
                 /\ \E i \in DOMAIN list :
                       /\ list[i] = d /\ Len(list') = Len(list) - 1
                       /\ DOMAIN list' = 1 .. Len(list) - 1
                       /\ \A k \in DOMAIN list' :
                             list'[k] = IF k < i THEN list[k] ELSE list[k + 1]
<1>0. TypeOK /\ ListInv /\ DiskInv /\ UnloadInv
  BY DEF IInv
<1>1. Moves(d) /\ d \in Object
  BY <1>0, DiskMoves, NameFacts
<1>2. \A e \in Disk : thread[e] \notin Creating
  BY <1>0 DEF UnloadInv
<1>3. \A e \in Disk : e # d => thread'[e] = thread[e]
  BY <1>0, DiskOnly
<1>4. thread'[d] \notin Creating /\ (list' = list \/ (thread[d] = "delete" /\ list' = Without(d)))
  BY <1>1, <1>2 DEF Moves, Creating
<1>5. CASE thread[d] = "delete" /\ list' = Without(d)
  <2>1. Listed(d)
    BY <1>0, <1>5 DEF ListInv, Made
  <2>2. /\ \A p : Listed(p)' <=> Listed(p) /\ p # d
        /\ \E i \in DOMAIN list :
              /\ list[i] = d /\ Len(list') = Len(list) - 1
              /\ DOMAIN list' = 1 .. Len(list) - 1
              /\ \A k \in DOMAIN list' : list'[k] = IF k < i THEN list[k] ELSE list[k + 1]
    BY <1>0, <1>1, <1>5, <2>1, UnlinkFacts
  <2> QED
    BY <1>2, <1>3, <1>4, <1>5, <2>1, <2>2
<1> QED
  BY <1>2, <1>3, <1>4, <1>5

\* What is first, or second, when a later object goes.
LEMMA FrontStays ==
    ASSUME NEW S, NEW s \in Seq(S), NEW r \in Seq(S), NEW i \in DOMAIN s,
           Len(r) = Len(s) - 1, DOMAIN r = 1 .. Len(s) - 1,
           \A k \in DOMAIN r : r[k] = IF k < i THEN s[k] ELSE s[k + 1]
    PROVE  /\ i # 1 => Len(r) # 0 /\ r[1] = s[1]
           /\ i \notin {1, 2} => r[2] = s[2]
           /\ i = 1 => (Len(s) = 1 => r = <<>>) /\ (Len(s) # 1 => r[1] = s[2])
<1>1. Len(s) \in Nat /\ DOMAIN s = 1 .. Len(s) /\ Len(r) \in Nat
  OBVIOUS
<1>2. i # 1 => 1 \in DOMAIN r /\ 1 < i
  BY <1>1
<1>3. i \notin {1, 2} => 2 \in DOMAIN r /\ 2 < i
  BY <1>1
<1>4. i = 1 /\ Len(s) # 1 => 1 \in DOMAIN r
  BY <1>1
<1>5. i # 1 => Len(r) # 0
  BY <1>1
<1>6. i = 1 => (Len(s) = 1 => r = <<>>)
  BY <1>1
<1> QED
  BY <1>2, <1>3, <1>4, <1>5, <1>6

LEMMA DiskUnload ==
    ASSUME IInv, NEW d \in Disk, DiskStep(d) PROVE UnloadInv'
<1>0. TypeOK /\ TypeOK' /\ ListInv /\ DiskInv /\ UnloadInv
  BY StepType, StepCases DEF IInv
<1>1. UNCHANGED <<pc, unload, waiting>> /\ cursor'[Ctl] = cursor[Ctl]
  BY <1>0, DiskOnly, NameFacts
<1>2. Listed(Ctl)' <=> Listed(Ctl)
  BY <1>0, DiskList, NameFacts
<1>3. CASE unload = "no"
  BY <1>0, <1>1, <1>2, <1>3 DEF UnloadInv
<1>4. CASE unload # "no" /\ list' = list
  <2>1. \A e \in Disk : thread'[e] \notin Creating
    BY <1>4, DiskGoes
  <2>2. \A p : Listed(p)' <=> Listed(p)
    BY <1>4 DEF Listed
  <2> QED
    BY <1>0, <1>1, <1>2, <1>4, <2>1, <2>2 DEF UnloadInv, Creating
<1>5. ASSUME unload # "no", Listed(d),
             \A p : Listed(p)' <=> Listed(p) /\ p # d,
             NEW i \in DOMAIN list, list[i] = d, Len(list') = Len(list) - 1,
             DOMAIN list' = 1 .. Len(list) - 1,
             \A k \in DOMAIN list' : list'[k] = IF k < i THEN list[k] ELSE list[k + 1]
      PROVE  UnloadInv'
  <2>1. \A e \in Disk : thread'[e] \notin Creating
    BY <1>5, DiskGoes
  <2>2. list \in Seq(Object) /\ list' \in Seq(Object) /\ Len(list) \in Nat
        /\ DOMAIN list = 1 .. Len(list)
    BY <1>0, ListFacts DEF TypeOK
  <2>3. /\ i # 1 => Len(list') # 0 /\ list'[1] = list[1]
        /\ i \notin {1, 2} => list'[2] = list[2]
        /\ i = 1 => (Len(list) = 1 => list' = <<>>) /\ (Len(list) # 1 => list'[1] = list[2])
    BY <1>5, <2>2, FrontStays
  <2>4. /\ list # <<>> /\ Len(list) = 1 => i = 1
        /\ \A o : o # d /\ list[1] = o => i # 1
        /\ \A o : o # d /\ list[2] = o => i # 2
        /\ list[1] = d => i = 1
    <3>1. 1 \in DOMAIN list
      BY <1>5, <2>2 DEF Listed
    <3> QED
      BY <1>0, <1>5, <2>2, <3>1 DEF ListInv, Listed
  <2>5. unload # "done"
    BY <1>0, <1>5 DEF UnloadInv, Listed
  <2>6. CASE unload = "visit"
    <3>1. cursor[Ctl] # None
      BY <1>0, <1>5, <2>6 DEF UnloadInv, Listed
    <3>2. Listed(cursor[Ctl])' => list'[1] = cursor'[Ctl]
      BY <1>0, <1>1, <1>5, <2>3, <2>4, <2>6 DEF UnloadInv
    <3> QED
      BY <1>0, <1>1, <1>2, <2>1, <2>6, <3>1, <3>2 DEF UnloadInv, Creating
  <2>7. CASE unload = "wait"
    <3>1. waiting \in Disk
      BY <1>0, <2>7 DEF UnloadInv
    <3>2. Listed(waiting)' => /\ list'[1] = waiting'
                              /\ cursor'[Ctl] = None => Len(list') = 1
                              /\ Listed(cursor[Ctl])' => list'[2] = cursor'[Ctl]
      BY <1>0, <1>1, <1>5, <2>3, <2>4, <2>7 DEF UnloadInv
    <3>3. ~Listed(waiting)' => /\ cursor'[Ctl] = None => list' = <<>>
                               /\ Listed(cursor[Ctl])' => list'[1] = cursor'[Ctl]
      <4>1. CASE waiting # d
        <5>1. ~Listed(waiting)' => ~Listed(waiting)
          BY <1>1, <1>5, <4>1
        <5>2. ~Listed(waiting) => /\ cursor[Ctl] # None
                                  /\ Listed(cursor[Ctl])' => list'[1] = cursor'[Ctl]
          <6>1. ~Listed(waiting) => cursor[Ctl] # None
            BY <1>0, <1>5, <2>7 DEF UnloadInv, Listed
          <6>2. ~Listed(waiting) /\ Listed(cursor[Ctl])' =>
                   cursor[Ctl] # d /\ list[1] = cursor[Ctl] /\ cursor'[Ctl] = cursor[Ctl]
            BY <1>0, <1>1, <1>5, <2>7 DEF UnloadInv
          <6> QED
            BY <2>3, <2>4, <6>1, <6>2
        <5> QED
          BY <1>1, <5>1, <5>2
      <4>2. CASE waiting = d
        <5>1. list[1] = d /\ i = 1
          BY <1>0, <1>5, <2>4, <2>7, <4>2 DEF UnloadInv
        <5>2. /\ cursor[Ctl] = None => Len(list) = 1
              /\ Listed(cursor[Ctl])' => list[2] = cursor[Ctl] /\ Listed(cursor[Ctl])
          BY <1>0, <1>1, <1>5, <2>7, <4>2 DEF UnloadInv
        <5>3. Listed(cursor[Ctl])' => Len(list) # 1
          <6> SUFFICES ASSUME Listed(cursor[Ctl])', Len(list) = 1 PROVE FALSE
            OBVIOUS
          <6>1. list' = <<>>
            BY <2>3, <5>1
          <6> QED
            BY <1>5, <2>2 DEF Listed
        <5> QED
          BY <1>1, <2>3, <5>1, <5>2, <5>3
      <4> QED
        BY <4>1, <4>2
    <3> QED
      BY <1>0, <1>1, <1>2, <2>1, <2>7, <3>1, <3>2, <3>3 DEF UnloadInv, Creating
  <2> QED
    BY <1>0, <1>5, <2>5, <2>6, <2>7 DEF TypeOK
<1> QED
  BY <1>3, <1>4, <1>5, DiskGoes

LEMMA StepUnload ==
    ASSUME IInv, Next PROVE UnloadInv'
<1>0. TypeOK /\ TypeOK' /\ ListInv /\ DiskInv /\ UnloadInv
  BY StepType DEF IInv
<1>1. ASSUME NEW d \in Disk, DiskStep(d) PROVE UnloadInv'
  BY <1>1, DiskUnload
<1>2. ASSUME NEW c \in Caller, CallStep(c) PROVE UnloadInv'
  <2>1. UNCHANGED <<list, unload>> /\ cursor'[Ctl] = cursor[Ctl]
    BY <1>0, <1>2, CallOnly, NameFacts
  <2>2. unload = "no"
    <3>1. Request(c) => unload = "no"
      BY DEF Request, QueryDriver, RemoveDevice, Serving
    <3>2. CallerStep(c) => pc[c] # "idle"
      BY DEF CallerStep, RemoveWalk, PassDevice, NotFound, FindDevice, Found, SetTerminate,
             QueryWalk, ListDevice, EndList, ReturnToCaller, At
    <3> QED
      BY <1>0, <1>2, <3>1, <3>2 DEF CallStep, UnloadInv
  <2> QED
    BY <1>0, <2>1, <2>2 DEF UnloadInv, Listed
<1>3. CASE Unload
  <2>1. /\ list' = list /\ UNCHANGED <<calls, creation>> /\ unload = "no" /\ unload' = "visit"
        /\ cursor'[Ctl] = Head(list)
        /\ \A c \in Caller : pc[c] = "idle" /\ \A d \in Disk : thread[d] \notin Creating
    BY <1>0, <1>3, NameFacts DEF Unload, TypeOK
  <2>2. Head(list) \in Object /\ Listed(Head(list)) /\ Head(list) = list[1]
    BY <1>0, <2>1, HeadFacts
  <2>3. cursor'[Ctl] # None
    BY <2>1, <2>2, NameFacts
  <2>4. Listed(Ctl)' /\ \A d \in Disk : thread'[d] \notin Creating
    BY <1>0, <1>3, <2>1 DEF UnloadInv, Listed, creation, Unload
  <2> QED
    BY <2>1, <2>2, <2>3, <2>4 DEF UnloadInv, calls, Creating
<1>4. ASSUME NEW d \in Disk, UnloadDisk(d) PROVE UnloadInv'
  <2>1. /\ list' = list /\ UNCHANGED <<calls, creation>> /\ unload = "visit" /\ unload' = "wait"
        /\ cursor[Ctl] = d /\ Listed(d) /\ cursor'[Ctl] = NextDevice(d) /\ waiting' = d
    BY <1>0, <1>4, NameFacts DEF UnloadDisk, VisitDisk, TypeOK
  <2>2. list[1] = d
    BY <1>0, <2>1 DEF UnloadInv
  <2>3. LET n == NextDevice(d) IN
        /\ n # None => Listed(n)
        /\ (n = None => Len(list) = 1) /\ (n # None => list[2] = n)
    BY <1>0, <2>1, <2>2, NextFacts
  <2>4. \A p : Listed(p)' <=> Listed(p)
    BY <2>1 DEF Listed
  <2>5. ~Listed(None)
    BY <1>0, ListFacts, NameFacts
  <2>6. /\ Ctl = cursor'[Ctl] => Listed(Ctl)'
        /\ cursor'[Ctl] = None => Len(list') = 1
        /\ Listed(cursor[Ctl])' => list'[2] = cursor'[Ctl]
        /\ Listed(waiting)' /\ list'[1] = waiting'
    BY <2>1, <2>2, <2>3, <2>4, <2>5, NameFacts
  <2>7. /\ \A c \in Caller : pc'[c] = "idle"
        /\ \A e \in Disk : thread'[e] \notin Creating
    BY <1>0, <2>1 DEF UnloadInv, calls, creation
  <2> QED
    BY <2>1, <2>6, <2>7 DEF UnloadInv, Creating
<1>5. CASE UnloadNext
  <2>1. /\ UNCHANGED <<list, pc, thread, cursor>> /\ unload = "wait" /\ unload' = "visit"
        /\ thread[waiting] = "ended"
    BY <1>5 DEF UnloadNext, calls, creation
  <2>2. ~Listed(waiting)
    BY <1>0, <2>1 DEF UnloadInv, ListInv, Made
  <2> QED
    BY <1>0, <2>1, <2>2 DEF UnloadInv, Listed, Creating
<1>6. CASE UnloadCtl
  <2>1. /\ list' = Without(Ctl) /\ UNCHANGED <<calls, creation>>
        /\ unload = "visit" /\ unload' = "visit"
        /\ cursor[Ctl] = Ctl /\ cursor'[Ctl] = NextDevice(Ctl) /\ Ctl \in Object
    BY <1>0, <1>6, NameFacts DEF UnloadCtl, TypeOK, leaving
  <2>2. Listed(Ctl) /\ list[1] = Ctl
    BY <1>0, <2>1 DEF UnloadInv
  <2>3. LET n == NextDevice(Ctl) IN
        /\ n # None => Listed(n)
        /\ (n = None => Len(list) = 1) /\ (n # None => list[2] = n)
        /\ \A d : n # None /\ Ahead(n, d) => d # Ctl
    BY <1>0, <2>2, NextFacts
  <2>4. PICK i \in DOMAIN list :
              /\ list[i] = Ctl /\ Len(list') = Len(list) - 1
              /\ DOMAIN list' = 1 .. Len(list) - 1
              /\ \A k \in DOMAIN list' : list'[k] = IF k < i THEN list[k] ELSE list[k + 1]
    BY <1>0, <2>1, <2>2, UnlinkFacts
  <2>5. list \in Seq(Object) /\ list' \in Seq(Object) /\ Len(list) \in Nat
        /\ DOMAIN list = 1 .. Len(list)
    BY <1>0, ListFacts DEF TypeOK
  <2>6. 1 \in DOMAIN list /\ i = 1
    <3>1. 1 \in DOMAIN list
      BY <2>4, <2>5
    <3> QED
      BY <1>0, <2>2, <2>4, <3>1 DEF ListInv
  <2>7. (Len(list) = 1 => list' = <<>>) /\ (Len(list) # 1 => list'[1] = list[2])
    BY <2>4, <2>5, <2>6, FrontStays
  <2>8. cursor'[Ctl] = None => list' = <<>>
    BY <2>1, <2>3, <2>7
  <2>9. Listed(cursor[Ctl])' => list'[1] = cursor'[Ctl]
    <3>1. ~Listed(None)'
      BY <2>5, NameFacts DEF Listed
    <3>2. list' = <<>> => ~Listed(cursor[Ctl])'
      BY <2>5 DEF Listed
    <3> QED
      BY <2>1, <2>3, <2>7, <3>1, <3>2
  <2>10. cursor'[Ctl] # Ctl
    <3>1. Listed(NextDevice(Ctl)) => Ahead(NextDevice(Ctl), NextDevice(Ctl))
      BY <1>0, NextFacts
    <3> QED
      BY <2>1, <2>3, <3>1, NameFacts
  <2>11. /\ \A c \in Caller : pc'[c] = "idle"
         /\ \A e \in Disk : thread'[e] \notin Creating
    BY <1>0, <2>1 DEF UnloadInv, calls, creation
  <2> QED
    BY <2>1, <2>8, <2>9, <2>10, <2>11 DEF UnloadInv, Creating
<1>7. CASE UnloadEnds
  <2>1. /\ UNCHANGED <<list, pc, thread, cursor>> /\ unload = "visit" /\ unload' = "done"
        /\ cursor[Ctl] = None
    BY <1>7 DEF UnloadEnds, calls, creation
  <2> QED
    BY <1>0, <2>1, NameFacts DEF UnloadInv, Creating
<1>8. ASSUME NEW w \in Walker, UseDeleted(w) PROVE UnloadInv'
  BY <1>0, <1>8 DEF UseDeleted, UnloadInv, creation, calls, leaving, Listed, Creating
<1> QED
  BY <1>1, <1>2, <1>3, <1>4, <1>5, <1>6, <1>7, <1>8, StepCases DEF LeaveStep, UnloadStep
-----------------------------------------------------------------------------
(* The theorems. *)

LEMMA InitInv ==
    ASSUME Init PROVE IInv
<1> USE DEF Init
<1>1. /\ list = <<Ctl>> /\ DOMAIN list = {1} /\ list[1] = Ctl /\ Ctl \in Object
  BY NameFacts
<1>2. \A o : Listed(o) <=> o = Ctl
  BY <1>1 DEF Listed
<1>3. 0 \in Number
  BY MaxAssumption DEF Number
<1>4. TypeOK
  <2>1. list \in Seq(Object)
    BY <1>1
  <2>2. /\ thread \in [Disk -> Creating \cup {"unused", "running", "delete", "ended"}]
        /\ want \in [Disk -> Number \cup {AutoNumber}] /\ number \in [Disk -> Number]
        /\ opened \in SUBSET Disk /\ reply \in [Disk -> {"none", "ok", "failed"}]
        /\ terminate_thread \in SUBSET Disk /\ special_file \in SUBSET Disk
    BY <1>3
  <2>3. /\ pc \in [Caller -> {"idle", "remove", "query", "walk", "list", "set", "removed",
                              "queried"}]
        /\ ask \in [Caller -> Number \cup {AutoNumber}] /\ hit \in [Caller -> Object \cup {None}]
        /\ there \in [Caller -> SUBSET Disk]
    BY <1>3
  <2>4. listed \in [Caller -> Seq(Number)]
    <3>1. <<>> \in Seq(Number)
      OBVIOUS
    <3> QED
      BY <3>1
  <2> QED
    BY <2>1, <2>2, <2>3, <2>4 DEF TypeOK
<1>5. ListInv
  BY <1>1, <1>2, NameFacts DEF ListInv, Made
<1>6. DiskInv
  BY DEF DiskInv, Creating, Opening, Settled
<1>7. NumberInv
  BY <1>2, NameFacts DEF NumberInv
<1>8. WalkInv /\ RemoveInv /\ QueryInv
  BY NameFacts DEF WalkInv, RemoveInv, QueryInv, Queried
<1>9. UnloadInv
  BY <1>2, NameFacts DEF UnloadInv, Creating
<1> QED
  BY <1>4, <1>5, <1>6, <1>7, <1>8, <1>9 DEF IInv

LEMMA StepInv ==
    ASSUME IInv, [Next]_vars PROVE IInv'
<1>1. CASE Next
  BY <1>1, StepType, StepList, StepDisk, StepNumber, StepWalk, StepRemove, StepQuery, StepUnload
     DEF IInv
<1>2. CASE UNCHANGED vars
  <2> USE <1>2 DEF vars, creation, calls, leaving
  <2>1. TypeOK' /\ ListInv' /\ DiskInv'
    BY DEF IInv, TypeOK, ListInv, DiskInv, Listed
  <2>2. NumberInv' /\ WalkInv' /\ RemoveInv'
    BY DEF IInv, NumberInv, WalkInv, RemoveInv, Listed
  <2>3. QueryInv'
    BY DEF IInv, QueryInv, Queried, Entered, Entries, Ahead, Listed, Ready
  <2>4. UnloadInv'
    BY DEF IInv, UnloadInv, Listed
  <2> QED
    BY <2>1, <2>2, <2>3, <2>4 DEF IInv
<1> QED
  BY <1>1, <1>2

\* The invariant holds in every state, whatever the order in which the threads of the disks, the
\* callers and the unloading driver take their steps.
THEOREM Inductive == Spec => []IInv
<1>1. Init => IInv
  BY InitInv
<1>2. IInv /\ [Next]_vars => IInv'
  BY StepInv
<1> QED
  BY <1>1, <1>2, PTL DEF Spec

\* What a creator is told is true, whichever step of the creation failed, for any number of
\* creations and removals at once.
THEOREM CreatorInformed == Spec => []CreatorToldTruth
<1>1. IInv => CreatorToldTruth
  <2> SUFFICES ASSUME IInv, NEW d \in Disk
               PROVE  /\ reply[d] = "ok" /\ d \notin terminate_thread =>
                            /\ Listed(d) /\ Ready(d) /\ d \in opened
                            /\ want[d] \in {AutoNumber, number[d]}
                      /\ reply[d] = "failed" => ~Listed(d) /\ d \notin opened
    BY DEF CreatorToldTruth
  <2>1. TypeOK /\ ListInv /\ DiskInv
    BY DEF IInv
  <2>2. reply[d] = "ok" /\ d \notin terminate_thread => thread[d] = "running"
    BY <2>1 DEF DiskInv
  <2>3. reply[d] = "failed" => thread[d] = "ended"
    BY <2>1 DEF DiskInv, TypeOK
  <2> QED
    BY <2>1, <2>2, <2>3 DEF ListInv, DiskInv, Ready, Made, Opening
<1> QED
  BY <1>1, Inductive, PTL

\* A removal that succeeded has hit the device that was asked for, although the list lock was
\* released before its object was used.
THEOREM RemovalHits == Spec => []RemovedIsAsked
<1>1. IInv => RemovedIsAsked
  <2> SUFFICES ASSUME IInv, NEW c \in Caller, Removed(c)
               PROVE  /\ ask[c] # 0 => HitNumber(c) = ask[c]
                      /\ hit[c] \in terminate_thread \/ ~Listed(hit[c])
    BY DEF RemovedIsAsked
  <2>1. TypeOK /\ RemoveInv
    BY DEF IInv
  <2>2. hit[c] \in terminate_thread /\ hit[c] \in Disk /\ hit[c] # Ctl
    BY <2>1, NameFacts DEF RemoveInv, Removed, TypeOK
  <2> QED
    BY <2>1, <2>2 DEF RemoveInv, Removed, HitNumber
<1> QED
  BY <1>1, Inductive, PTL

\* A list query has every disk once that was there all through it, although disks are put at the
\* head of the list and taken out of it between any two steps of its walk.
THEOREM QueryLists == Spec => []QueryComplete
<1>1. IInv => QueryComplete
  <2> SUFFICES ASSUME IInv, NEW c \in Caller, pc[c] = "queried", NEW d \in there[c]
               PROVE  /\ Entries(c, d) # {}
                      /\ number[d] # 0 => Cardinality(Entries(c, d)) = 1
    BY DEF QueryComplete, Entries
  <2>1. Entered(c, d)
    BY DEF IInv, QueryInv, Queried
  <2>2. PICK i \in Entries(c, d) : TRUE
    BY <2>1 DEF Entered
  <2>3. number[d] # 0 => Entries(c, d) = {i}
    BY <2>1, <2>2 DEF Entered
  <2>4. Cardinality({i}) = 1
    BY FS_Singleton
  <2> QED
    BY <2>1, <2>3, <2>4 DEF Entered
<1> QED
  BY <1>1, Inductive, PTL

\* An unloaded driver leaves no device, no thread and no open image, whatever disks it found.
THEOREM UnloadsClean == Spec => []UnloadLeavesNothing
<1>1. IInv => UnloadLeavesNothing
  <2> SUFFICES ASSUME IInv, unload = "done"
               PROVE  list = <<>> /\ opened = {} /\ \A d \in Disk : thread[d] \in {"unused", "ended"}
    BY DEF UnloadLeavesNothing
  <2>1. TypeOK /\ ListInv /\ DiskInv /\ UnloadInv
    BY DEF IInv
  <2>2. list = <<>> /\ \A d \in Disk : thread[d] \notin Creating
    BY <2>1 DEF UnloadInv
  <2>3. \A d \in Disk : thread[d] \notin Made
    BY <2>1, <2>2 DEF ListInv, Listed
  <2>4. \A d \in Disk : thread[d] \in {"unused", "ended"}
    BY <2>1, <2>2, <2>3 DEF TypeOK, Made
  <2>5. \A d \in Disk : d \notin opened
    BY <2>1, <2>4 DEF DiskInv, Opening
  <2> QED
    BY <2>1, <2>2, <2>4, <2>5 DEF TypeOK
<1> QED
  BY <1>1, Inductive, PTL
=============================================================================
