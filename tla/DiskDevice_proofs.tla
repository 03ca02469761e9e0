-------------------------- MODULE DiskDevice_proofs --------------------------
(***************************************************************************)
(* Proofs about DiskDevice, for every finite set of clients: the safety    *)
(* invariants of the worker and its dispatch routines, and that every step *)
(* of the driver is a step of DiskContract or changes nothing there.       *)
(*                                                                         *)
(* And about VhdImage, for every size of the disk, its blocks and its      *)
(* requests: the disk reads back what the answers say, and the file stays  *)
(* an image.  The two systems share nothing.                               *)
(***************************************************************************)
EXTENDS DiskDevice, VhdImage, FiniteSetTheorems, TLAPS

-----------------------------------------------------------------------------
(* The inductive invariant. *)

\* The IRPs with an owner.
InQueue(c) == \E i \in DOMAIN queue : queue[i] = c

\* Every IRP that is not completed has an owner, no owner holds another one, and
\* the list holds an IRP once.
OwnerInv ==
    /\ \A c \in outstanding : InDispatch(c) \/ InQueue(c) \/ irp = c
    /\ \A c \in Client : InDispatch(c) => c \in outstanding /\ ~InQueue(c) /\ irp # c
    /\ \A i \in DOMAIN queue : queue[i] \in outstanding /\ irp # queue[i]
    /\ \A i, j \in DOMAIN queue : queue[i] = queue[j] => i = j
    /\ irp # None => irp \in outstanding

\* A handle with an IRP that is not completed is open.
HandleInv == \A c \in outstanding : handle[c] = "open"

\* What the position of the worker says about the rest.
WorkerInv ==
    /\ worker \in {"service", "lost", "complete", "fault"} <=> irp # None
    /\ worker = "recheck" => request_event \/ terminate_thread
    /\ worker \in {"teardown", "refcheck", "delete", "ended"} => terminate_thread
    /\ worker \in {"delete", "ended"} => \A c \in Client : handle[c] # "open"
    /\ device = "deleted" <=> worker = "ended"

\* A client is told of the loss of the disk only after its removal was asked for.
AnswerInv ==
    \A c \in Client :
        answer[c] = "gone" => terminate_thread \/ (worker = "lost" /\ irp = c)

IInv == TypeOK /\ NoLostWakeup /\ OwnerInv /\ HandleInv /\ WorkerInv /\ AnswerInv

\* Every step is one of these.
LEMMA StepCases ==
    ASSUME Next
    PROVE  \/ \E c \in Client : \/ OpenStart(c) \/ DispatchCreate(c) \/ Close(c)
                                \/ Issue(c) \/ DispatchRefuse(c)
                                \/ \E op \in Op : DispatchImmediate(c, op) \/ DispatchQueue(c, op)
                                \/ QueueInsert(c) \/ QueueSignal(c)
           \/ RemoveVirtualDisk
           \/ PreloadImage \/ ClearRequestEvent \/ RemoveHead \/ FindNoRequest
           \/ WaitForEvent \/ RecheckRequestEvent
           \/ TearDown \/ CheckReferenceCount \/ DeleteDevice
           \/ ServiceAnswered \/ ServiceCancelled \/ ServiceReleased
           \/ RemoveLostDisk \/ CompleteIrp
  BY DEF Next, Request, ClientStep, WorkerStep

-----------------------------------------------------------------------------
(* Type correctness. *)

LEMMA InitType == Init => TypeOK
<1> SUFFICES ASSUME Init PROVE TypeOK
  OBVIOUS
<1>1. worker \in WorkerAt
  <2>1. CASE kind = "vm"
    BY <2>1 DEF Init, WorkerAt
  <2>2. CASE kind # "vm"
    BY <2>2 DEF Init, WorkerAt
  <2> QED
    BY <2>1, <2>2
<1>2. queue \in Seq(Client) /\ irp \in Client \cup {None}
  BY DEF Init
<1>3. /\ handle \in [Client -> {"closed", "opening", "open"}]
      /\ thread \in [Client -> {"out", "dispatch", "insert", "signal"}]
      /\ answer \in [Client -> Answer]
  BY DEF Init, Answer
<1> QED
  BY <1>1, <1>2, <1>3 DEF Init, TypeOK

LEMMA StepType == TypeOK /\ WorkerInv /\ [Next]_vars => TypeOK'
<1> SUFFICES ASSUME TypeOK, WorkerInv, [Next]_vars PROVE TypeOK'
  OBVIOUS
<1> USE DEF TypeOK
<1>1. CASE UNCHANGED vars
  BY <1>1 DEF vars, constVars, workerVars, clientVars
<1>2. ASSUME NEW c \in Client, OpenStart(c) \/ DispatchCreate(c) \/ Close(c) \/ Issue(c)
      PROVE  TypeOK'
  BY <1>2 DEF OpenStart, DispatchCreate, Close, Issue, constVars, workerVars
<1>3. ASSUME NEW c \in Client, DispatchRefuse(c) PROVE TypeOK'
  BY <1>3 DEF DispatchRefuse, CompleteInline, Answer, constVars, workerVars
<1>4. ASSUME NEW c \in Client, NEW op \in Op, DispatchImmediate(c, op) \/ DispatchQueue(c, op)
      PROVE  TypeOK'
  BY <1>4 DEF DispatchImmediate, DispatchQueue, CompleteInline, Answer, constVars, workerVars
<1>5. ASSUME NEW c \in Client, QueueInsert(c) PROVE TypeOK'
  <2>1. Append(queue, c) \in Seq(Client)
    OBVIOUS
  <2> QED
    BY <1>5, <2>1 DEF QueueInsert, constVars, workerVars
<1>5a. ASSUME NEW c \in Client, QueueSignal(c) PROVE TypeOK'
  BY <1>5a DEF QueueSignal, constVars, workerVars
<1>6. CASE RemoveVirtualDisk \/ PreloadImage \/ ClearRequestEvent
  BY <1>6 DEF RemoveVirtualDisk, PreloadImage, ClearRequestEvent, Goto, WorkerAt,
              constVars, workerVars, clientVars
<1>7. CASE RemoveHead \/ FindNoRequest
  BY <1>7 DEF RemoveHead, FindNoRequest, Goto, WorkerAt, constVars, clientVars
<1>8. CASE WaitForEvent \/ RecheckRequestEvent \/ TearDown \/ CheckReferenceCount \/ DeleteDevice
  BY <1>8 DEF WaitForEvent, RecheckRequestEvent, TearDown, CheckReferenceCount, DeleteDevice,
              Goto, WorkerAt, constVars, clientVars
<1>9. CASE ServiceAnswered \/ ServiceCancelled \/ ServiceReleased
  BY <1>9, NoneAssumption DEF ServiceAnswered, ServiceCancelled, ServiceReleased, ServiceResult,
              WorkerInv, WorkerAt, Answer, constVars, clientVars
<1>10. CASE RemoveLostDisk \/ CompleteIrp
  BY <1>10 DEF RemoveLostDisk, CompleteIrp, Goto, WorkerAt, constVars, clientVars
<1> QED
  BY StepCases, <1>1, <1>2, <1>3, <1>4, <1>5, <1>5a, <1>6, <1>7, <1>8, <1>9, <1>10

-----------------------------------------------------------------------------
(* No lost wake-up. *)

LEMMA StepWakeup == TypeOK /\ NoLostWakeup /\ [Next]_vars => NoLostWakeup'
<1> SUFFICES ASSUME TypeOK, NoLostWakeup, [Next]_vars PROVE NoLostWakeup'
  OBVIOUS
<1> USE DEF NoLostWakeup
<1>1. CASE UNCHANGED vars
  BY <1>1 DEF vars, constVars, workerVars, clientVars
<1>2. ASSUME NEW c \in Client, OpenStart(c) \/ DispatchCreate(c) \/ Close(c)
      PROVE  NoLostWakeup'
  BY <1>2 DEF OpenStart, DispatchCreate, Close, constVars, workerVars
<1>3. ASSUME NEW c \in Client, Issue(c) \/ DispatchRefuse(c) PROVE NoLostWakeup'
  BY <1>3 DEF Issue, DispatchRefuse, CompleteInline, constVars, workerVars, TypeOK
<1>4. ASSUME NEW c \in Client, NEW op \in Op, DispatchImmediate(c, op) \/ DispatchQueue(c, op)
      PROVE  NoLostWakeup'
  BY <1>4 DEF DispatchImmediate, DispatchQueue, CompleteInline, constVars, workerVars, TypeOK
<1>5. ASSUME NEW c \in Client, QueueInsert(c) PROVE NoLostWakeup'
  <2>1. thread'[c] = "signal"
    BY <1>5 DEF QueueInsert, TypeOK
  <2> QED
    BY <2>1
<1>6. ASSUME NEW c \in Client, QueueSignal(c) PROVE NoLostWakeup'
  BY <1>6 DEF QueueSignal
<1>7. CASE RemoveVirtualDisk
  BY <1>7 DEF RemoveVirtualDisk, constVars, workerVars, clientVars
<1>8. CASE FindNoRequest
  BY <1>8 DEF FindNoRequest
<1>9. CASE \/ PreloadImage \/ ClearRequestEvent \/ RemoveHead \/ WaitForEvent
           \/ RecheckRequestEvent \/ TearDown \/ CheckReferenceCount \/ DeleteDevice
           \/ RemoveLostDisk \/ CompleteIrp
  \* None of these leads to the sleep.
  <2>1. worker' # "wait"
    BY <1>9 DEF PreloadImage, ClearRequestEvent, RemoveHead, WaitForEvent, RecheckRequestEvent,
                TearDown, CheckReferenceCount, DeleteDevice, RemoveLostDisk, CompleteIrp, Goto
  <2> QED
    BY <2>1
<1>10. CASE ServiceAnswered \/ ServiceCancelled \/ ServiceReleased
  <2>1. worker' # "wait"
    BY <1>10 DEF ServiceAnswered, ServiceCancelled, ServiceReleased, ServiceResult
  <2> QED
    BY <2>1
<1> QED
  BY StepCases, <1>1, <1>2, <1>3, <1>4, <1>5, <1>6, <1>7, <1>8, <1>9, <1>10

-----------------------------------------------------------------------------
(* Every IRP has one owner. *)

LEMMA StepOwner == TypeOK /\ OwnerInv /\ WorkerInv /\ [Next]_vars => OwnerInv'
<1> SUFFICES ASSUME TypeOK, OwnerInv, WorkerInv, [Next]_vars PROVE OwnerInv'
  OBVIOUS
<1> USE DEF OwnerInv, InQueue, InDispatch
<1>1. CASE UNCHANGED vars
  BY <1>1 DEF vars, constVars, workerVars, clientVars
<1>2. ASSUME NEW c \in Client, OpenStart(c) \/ DispatchCreate(c) \/ Close(c)
      PROVE  OwnerInv'
  BY <1>2 DEF OpenStart, DispatchCreate, Close, constVars, workerVars
<1>3. ASSUME NEW c \in Client, Issue(c) PROVE OwnerInv'
  BY <1>3, NoneAssumption DEF Issue, constVars, workerVars, TypeOK
<1>4. ASSUME NEW c \in Client, thread[c] = "dispatch", \E s \in Answer : CompleteInline(c, s),
             UNCHANGED <<queue, irp>>
      PROVE OwnerInv'
  BY <1>4, NoneAssumption DEF CompleteInline, TypeOK
<1>5. ASSUME NEW c \in Client, DispatchRefuse(c) PROVE OwnerInv'
  BY <1>5, <1>4 DEF DispatchRefuse, Answer, workerVars
<1>6. ASSUME NEW c \in Client, NEW op \in Op, DispatchImmediate(c, op) PROVE OwnerInv'
  BY <1>6, <1>4 DEF DispatchImmediate, Answer, workerVars
<1>7. ASSUME NEW c \in Client, NEW op \in Op, DispatchQueue(c, op) PROVE OwnerInv'
  BY <1>7 DEF DispatchQueue, workerVars, TypeOK
<1>8. ASSUME NEW c \in Client, QueueInsert(c) PROVE OwnerInv'
  <2>1. /\ DOMAIN queue' = 1..(Len(queue) + 1)
        /\ queue'[Len(queue) + 1] = c
        /\ \A i \in DOMAIN queue : queue'[i] = queue[i]
        /\ DOMAIN queue = 1..Len(queue) /\ Len(queue) \in Nat
    BY <1>8 DEF QueueInsert, TypeOK
  <2>2. /\ thread[c] = "insert" /\ thread' = [thread EXCEPT ![c] = "signal"]
        /\ outstanding' = outstanding /\ irp' = irp
    BY <1>8 DEF QueueInsert, workerVars
  <2>3. \A d \in Client : d # c => thread'[d] = thread[d]
    BY <2>2 DEF TypeOK
  <2>4. \A d \in Client : InQueue(d)' <=> InQueue(d) \/ d = c
    BY <2>1
  <2>5. c \in outstanding /\ ~InQueue(c) /\ irp # c
    BY <2>2
  <2>6. thread'[c] = "signal"
    BY <2>2 DEF TypeOK
  <2>7. \A d \in outstanding' : InDispatch(d)' \/ InQueue(d)' \/ irp' = d
    BY <2>2, <2>3, <2>4 DEF TypeOK
  <2>8. \A d \in Client : InDispatch(d)' => d \in outstanding' /\ ~InQueue(d)' /\ irp' # d
    BY <2>2, <2>3, <2>4, <2>6
  <2>9. \A i \in DOMAIN queue' : queue'[i] \in outstanding' /\ irp' # queue'[i]
    BY <2>1, <2>2, <2>5
  <2>10. \A i, j \in DOMAIN queue' : queue'[i] = queue'[j] => i = j
    BY <2>1, <2>5
  <2>11. irp' # None => irp' \in outstanding'
    BY <2>2
  <2> QED
    BY <2>7, <2>8, <2>9, <2>10, <2>11
<1>9. ASSUME NEW c \in Client, QueueSignal(c) PROVE OwnerInv'
  BY <1>9 DEF QueueSignal, workerVars, TypeOK
<1>10. CASE RemoveVirtualDisk
  BY <1>10 DEF RemoveVirtualDisk, workerVars, clientVars
<1>11. CASE \/ PreloadImage \/ ClearRequestEvent \/ FindNoRequest \/ WaitForEvent
            \/ RecheckRequestEvent \/ TearDown \/ CheckReferenceCount \/ DeleteDevice
            \/ RemoveLostDisk
  BY <1>11 DEF PreloadImage, ClearRequestEvent, FindNoRequest, WaitForEvent, RecheckRequestEvent,
               TearDown, CheckReferenceCount, DeleteDevice, RemoveLostDisk, clientVars
<1>12. CASE ServiceAnswered \/ ServiceCancelled \/ ServiceReleased
  BY <1>12 DEF ServiceAnswered, ServiceCancelled, ServiceReleased, ServiceResult, clientVars
<1>13. CASE RemoveHead
  <2>1. /\ queue # <<>> /\ irp = None /\ irp' = queue[1] /\ queue' = Tail(queue)
        /\ outstanding' = outstanding /\ thread' = thread
    BY <1>13 DEF RemoveHead, Goto, clientVars, WorkerInv
  <2>2. /\ DOMAIN queue = 1..Len(queue) /\ Len(queue) \in Nat /\ Len(queue) > 0
        /\ DOMAIN queue' = 1..(Len(queue) - 1)
        /\ \A i \in DOMAIN queue' : queue'[i] = queue[i + 1] /\ i + 1 \in DOMAIN queue
    BY <2>1 DEF TypeOK
  <2>3. \A d \in Client : InQueue(d) <=> InQueue(d)' \/ irp' = d
    <3>1. ASSUME NEW d \in Client, InQueue(d) PROVE InQueue(d)' \/ irp' = d
      <4>1. PICK i \in DOMAIN queue : queue[i] = d
        BY <3>1
      <4>2. CASE i = 1
        BY <4>1, <4>2, <2>1
      <4>3. CASE i # 1
        <5>1. i - 1 \in DOMAIN queue' /\ (i - 1) + 1 = i
          BY <4>3, <2>2
        <5> QED
          BY <5>1, <4>1, <2>2
      <4> QED
        BY <4>2, <4>3
    <3>2. ASSUME NEW d \in Client, InQueue(d)' \/ irp' = d PROVE InQueue(d)
      BY <3>2, <2>1, <2>2
    <3> QED
      BY <3>1, <3>2
  <2>4. \A i \in DOMAIN queue' : irp' # queue'[i]
    BY <2>1, <2>2
  <2>5. \A i, j \in DOMAIN queue' : queue'[i] = queue'[j] => i = j
    BY <2>2
  <2>6. irp' \in outstanding'
    BY <2>1, <2>2
  <2>7. \A d \in outstanding' : InDispatch(d)' \/ InQueue(d)' \/ irp' = d
    BY <2>1, <2>3, NoneAssumption DEF TypeOK
  <2>8. \A d \in Client : InDispatch(d)' => d \in outstanding' /\ ~InQueue(d)' /\ irp' # d
    BY <2>1, <2>3
  <2>9. \A i \in DOMAIN queue' : queue'[i] \in outstanding'
    BY <2>1, <2>2
  <2> QED
    BY <2>4, <2>5, <2>6, <2>7, <2>8, <2>9
<1>14. CASE CompleteIrp
  <2>1. /\ irp \in outstanding /\ irp' = None /\ outstanding' = outstanding \ {irp}
        /\ queue' = queue /\ thread' = thread
    BY <1>14 DEF CompleteIrp, Goto, WorkerInv
  <2> QED
    BY <2>1, NoneAssumption DEF TypeOK
<1> QED
  BY StepCases, <1>1, <1>2, <1>3, <1>5, <1>6, <1>7, <1>8, <1>9, <1>10, <1>11, <1>12, <1>13, <1>14

-----------------------------------------------------------------------------
(* Handles, the worker's position and the answers. *)

LEMMA StepHandle == TypeOK /\ OwnerInv /\ HandleInv /\ [Next]_vars => HandleInv'
<1> SUFFICES ASSUME TypeOK, OwnerInv, HandleInv, [Next]_vars PROVE HandleInv'
  OBVIOUS
<1> USE DEF HandleInv
<1>1. CASE UNCHANGED vars
  BY <1>1 DEF vars, clientVars
<1>2. ASSUME NEW c \in Client, OpenStart(c) \/ DispatchCreate(c) \/ Close(c) \/ Issue(c)
      PROVE  HandleInv'
  BY <1>2 DEF OpenStart, DispatchCreate, Close, Issue, TypeOK
<1>3. ASSUME NEW c \in Client, DispatchRefuse(c) \/ QueueInsert(c) \/ QueueSignal(c)
      PROVE  HandleInv'
  BY <1>3 DEF DispatchRefuse, QueueInsert, QueueSignal, CompleteInline
<1>4. ASSUME NEW c \in Client, NEW op \in Op, DispatchImmediate(c, op) \/ DispatchQueue(c, op)
      PROVE  HandleInv'
  BY <1>4 DEF DispatchImmediate, DispatchQueue, CompleteInline
<1>5. CASE \/ RemoveVirtualDisk \/ PreloadImage \/ ClearRequestEvent \/ RemoveHead
           \/ FindNoRequest \/ WaitForEvent \/ RecheckRequestEvent \/ TearDown
           \/ CheckReferenceCount \/ DeleteDevice \/ RemoveLostDisk
  BY <1>5 DEF RemoveVirtualDisk, PreloadImage, ClearRequestEvent, RemoveHead, FindNoRequest,
              WaitForEvent, RecheckRequestEvent, TearDown, CheckReferenceCount, DeleteDevice,
              RemoveLostDisk, clientVars
<1>6. CASE ServiceAnswered \/ ServiceCancelled \/ ServiceReleased \/ CompleteIrp
  BY <1>6 DEF ServiceAnswered, ServiceCancelled, ServiceReleased, ServiceResult, CompleteIrp,
              clientVars
<1> QED
  BY StepCases, <1>1, <1>2, <1>3, <1>4, <1>5, <1>6

\* The last handle goes only with the last IRP, so a device that is found without
\* references has no IRP: ReferenceCount is zero when no handle is open or opening.
LEMMA NoReference == TypeOK /\ ReferenceCount = 0 => \A c \in Client : handle[c] = "closed"
<1> SUFFICES ASSUME TypeOK, ReferenceCount = 0, NEW c \in Client PROVE handle[c] = "closed"
  OBVIOUS
<1> DEFINE Referenced == {d \in Client : handle[d] # "closed"}
<1>1. IsFiniteSet(Referenced)
  BY ClientAssumption, FS_Subset
<1>2. Referenced = {}
  BY <1>1, FS_EmptySet DEF ReferenceCount
<1> QED
  BY <1>2

LEMMA StepWorker == IInv /\ [Next]_vars => WorkerInv'
<1> SUFFICES ASSUME TypeOK, OwnerInv, HandleInv, WorkerInv, [Next]_vars PROVE WorkerInv'
  BY DEF IInv
<1> USE DEF WorkerInv
<1>1. CASE UNCHANGED vars
  BY <1>1 DEF vars, workerVars, clientVars
<1>2. ASSUME NEW c \in Client, OpenStart(c) PROVE WorkerInv'
  BY <1>2 DEF OpenStart, workerVars, TypeOK
<1>3. ASSUME NEW c \in Client, DispatchCreate(c) PROVE WorkerInv'
  \* After the reference check terminate_thread is set, and no create succeeds.
  BY <1>3 DEF DispatchCreate, workerVars, TypeOK
<1>4. ASSUME NEW c \in Client, Close(c) PROVE WorkerInv'
  BY <1>4 DEF Close, workerVars, TypeOK
<1>5. ASSUME NEW c \in Client, Issue(c) \/ DispatchRefuse(c) \/ QueueInsert(c)
      PROVE  WorkerInv'
  BY <1>5 DEF Issue, DispatchRefuse, QueueInsert, workerVars
<1>6. ASSUME NEW c \in Client, QueueSignal(c) PROVE WorkerInv'
  BY <1>6 DEF QueueSignal, workerVars
<1>7. ASSUME NEW c \in Client, NEW op \in Op, DispatchImmediate(c, op) \/ DispatchQueue(c, op)
      PROVE  WorkerInv'
  BY <1>7 DEF DispatchImmediate, DispatchQueue, workerVars
<1>8. CASE RemoveVirtualDisk
  BY <1>8 DEF RemoveVirtualDisk, workerVars, clientVars
<1>9. CASE PreloadImage
  BY <1>9 DEF PreloadImage, Goto, clientVars
<1>10. CASE ClearRequestEvent
  BY <1>10 DEF ClearRequestEvent, Goto, clientVars
<1>11. CASE RemoveHead
  <2>1. irp' # None
    BY <1>11, NoneAssumption DEF RemoveHead, TypeOK
  <2> QED
    BY <1>11, <2>1 DEF RemoveHead, Goto, clientVars
<1>12. CASE FindNoRequest \/ WaitForEvent
  BY <1>12 DEF FindNoRequest, WaitForEvent, Goto, clientVars
<1>13. CASE RecheckRequestEvent \/ TearDown
  BY <1>13 DEF RecheckRequestEvent, TearDown, Goto, clientVars
<1>14. CASE CheckReferenceCount
  <2>1. worker' = "delete" => \A c \in Client : handle[c] # "open"
    BY <1>14, NoReference DEF CheckReferenceCount, Goto
  <2> QED
    BY <1>14, <2>1 DEF CheckReferenceCount, Goto, clientVars
<1>15. CASE DeleteDevice
  BY <1>15 DEF DeleteDevice, Goto, clientVars
<1>16. CASE ServiceAnswered \/ ServiceCancelled \/ ServiceReleased
  BY <1>16 DEF ServiceAnswered, ServiceCancelled, ServiceReleased, ServiceResult, clientVars
<1>17. CASE RemoveLostDisk \/ CompleteIrp
  BY <1>17 DEF RemoveLostDisk, CompleteIrp, Goto, clientVars
<1> QED
  BY StepCases, <1>1, <1>2, <1>3, <1>4, <1>5, <1>6, <1>7, <1>8, <1>9, <1>10, <1>11, <1>12,
     <1>13, <1>14, <1>15, <1>16, <1>17

LEMMA StepAnswer == TypeOK /\ WorkerInv /\ AnswerInv /\ [Next]_vars => AnswerInv'
<1> SUFFICES ASSUME TypeOK, WorkerInv, AnswerInv, [Next]_vars PROVE AnswerInv'
  OBVIOUS
<1> USE DEF AnswerInv
<1>1. CASE UNCHANGED vars
  BY <1>1 DEF vars, workerVars, clientVars
<1>2. ASSUME NEW c \in Client, OpenStart(c) \/ DispatchCreate(c) \/ Close(c) \/ Issue(c)
      PROVE  AnswerInv'
  BY <1>2 DEF OpenStart, DispatchCreate, Close, Issue, workerVars
<1>3. ASSUME NEW c \in Client, DispatchRefuse(c) \/ QueueInsert(c) \/ QueueSignal(c)
      PROVE  AnswerInv'
  BY <1>3 DEF DispatchRefuse, QueueInsert, QueueSignal, CompleteInline, workerVars
<1>4. ASSUME NEW c \in Client, NEW op \in Op, DispatchImmediate(c, op) \/ DispatchQueue(c, op)
      PROVE  AnswerInv'
  BY <1>4 DEF DispatchImmediate, DispatchQueue, CompleteInline, workerVars, TypeOK
<1>5. CASE \/ RemoveVirtualDisk \/ PreloadImage \/ ClearRequestEvent \/ RemoveHead
           \/ FindNoRequest \/ WaitForEvent \/ RecheckRequestEvent \/ TearDown
           \/ CheckReferenceCount \/ DeleteDevice \/ CompleteIrp
  BY <1>5 DEF RemoveVirtualDisk, PreloadImage, ClearRequestEvent, RemoveHead, FindNoRequest,
              WaitForEvent, RecheckRequestEvent, TearDown, CheckReferenceCount, DeleteDevice,
              CompleteIrp, Goto, workerVars, clientVars, TypeOK
<1>6. CASE RemoveLostDisk
  BY <1>6 DEF RemoveLostDisk
<1>7. CASE ServiceAnswered \/ ServiceCancelled \/ ServiceReleased
  <2>1. CASE \E s \in Answer : ServiceResult(irp, s)
    BY <2>1, <1>7 DEF ServiceResult, ServiceAnswered, ServiceCancelled, ServiceReleased, TypeOK
  <2>2. CASE UNCHANGED <<terminate_thread, answer>> /\ worker = "service"
    BY <2>2
  <2> QED
    BY <1>7, <2>1, <2>2 DEF ServiceAnswered, ServiceCancelled, ServiceReleased, Answer, clientVars
<1> QED
  BY StepCases, <1>1, <1>2, <1>3, <1>4, <1>5, <1>6, <1>7

-----------------------------------------------------------------------------
(* The theorems. *)

LEMMA InitInv == Init => IInv
<1> SUFFICES ASSUME Init PROVE IInv
  OBVIOUS
<1>1. TypeOK
  BY InitType
<1>2. worker \in {"clear", "preload"}
  <2>1. CASE kind = "vm"
    BY <2>1 DEF Init
  <2>2. CASE kind # "vm"
    BY <2>2 DEF Init
  <2> QED
    BY <2>1, <2>2
<1>3. NoLostWakeup /\ HandleInv /\ WorkerInv /\ AnswerInv
  BY <1>2 DEF Init, NoLostWakeup, HandleInv, WorkerInv, AnswerInv
<1>4. OwnerInv
  BY NoneAssumption DEF Init, OwnerInv, InDispatch, InQueue
<1> QED
  BY <1>1, <1>3, <1>4 DEF IInv

\* The invariant is inductive.
THEOREM Invariance == Spec => []IInv
<1>1. IInv /\ [Next]_vars => IInv'
  BY StepType, StepWakeup, StepOwner, StepHandle, StepWorker, StepAnswer DEF IInv
<1> QED
  BY InitInv, <1>1, PTL DEF Spec

\* The variables keep their types (the declarations of the device extension).
THEOREM TypeCorrect == Spec => []TypeOK
<1>1. IInv => TypeOK
  BY DEF IInv
<1> QED
  BY Invariance, <1>1, PTL

\* The worker never sleeps over a listed IRP that nobody will signal
\* (FscryptDiskQueueIrp against the loop of FscryptDiskDeviceThread).
THEOREM WakeupNeverLost == Spec => []NoLostWakeup
<1>1. IInv => NoLostWakeup
  BY DEF IInv
<1> QED
  BY Invariance, <1>1, PTL

\* Every IRP that is not completed has exactly one owner, every completed one none:
\* FscryptDiskDeviceThread completes each IRP it is given once.
THEOREM OneOwnerAlways == Spec => []OneOwner
<1>1. ASSUME IInv, NEW c \in Client
      PROVE  Cardinality(Places(c)) = IF c \in outstanding THEN 1 ELSE 0
  <2> USE <1>1 DEF IInv
  <2> DEFINE Listed == {<<"list", i>> : i \in {j \in DOMAIN queue : queue[j] = c}}
  <2>1. CASE c \in outstanding
    <3>1. \E x : Places(c) = {x}
      <4>1. CASE InDispatch(c)
        <5>1. Listed = {} /\ irp # c
          BY <4>1 DEF OwnerInv, InQueue
        <5> QED
          BY <4>1, <5>1 DEF Places
      <4>2. CASE InQueue(c)
        <5>1. PICK i \in DOMAIN queue : queue[i] = c
          BY <4>2 DEF InQueue
        <5>2. {j \in DOMAIN queue : queue[j] = c} = {i}
          BY <5>1 DEF OwnerInv
        <5>3. Listed = {<<"list", i>>}
          BY <5>2
        <5>4. irp # c /\ ~InDispatch(c)
          BY <5>1, <4>2 DEF OwnerInv
        <5> QED
          BY <5>3, <5>4 DEF Places
      <4>3. CASE irp = c
        <5>1. Listed = {} /\ ~InDispatch(c)
          BY <4>3 DEF OwnerInv
        <5> QED
          BY <4>3, <5>1 DEF Places
      <4> QED
        BY <2>1, <4>1, <4>2, <4>3 DEF OwnerInv
    <3> QED
      BY <3>1, <2>1, FS_Singleton
  <2>2. CASE c \notin outstanding
    <3>1. ~InDispatch(c) /\ irp # c /\ \A i \in DOMAIN queue : queue[i] # c
      BY <2>2, NoneAssumption DEF OwnerInv
    <3>2. Places(c) = {}
      BY <3>1 DEF Places
    <3> QED
      BY <3>2, <2>2, FS_EmptySet
  <2> QED
    BY <2>1, <2>2
<1>2. IInv => OneOwner
  BY <1>1 DEF OneOwner
<1> QED
  BY Invariance, <1>2, PTL

\* A deleted device has no IRP, no listed IRP and no open handle: the order of the
\* teardown's reference check and the terminate_thread check of the create handler.
THEOREM DeletedIsEmpty == Spec => []NothingLeftBehind
<1>1. IInv => NothingLeftBehind
  <2> SUFFICES ASSUME IInv, device = "deleted" 
               PROVE  outstanding = {} /\ queue = <<>> /\ \A c \in Client : handle[c] # "open"
    BY DEF NothingLeftBehind
  <2> USE DEF IInv, TypeOK
  <2>1. \A c \in Client : handle[c] # "open"
    BY DEF WorkerInv
  <2>2. outstanding = {}
    BY <2>1 DEF HandleInv
  <2>3. queue = <<>>
    BY <2>2 DEF OwnerInv
  <2> QED
    BY <2>1, <2>2, <2>3
<1> QED
  BY Invariance, <1>1, PTL

\* A client that was told that the disk does not exist is never let in again: the
\* worker asks for the removal before it completes the IRP.
THEOREM GoneMeansRemoval == Spec => []GoneIsFinal
<1>1. IInv => GoneIsFinal
  BY NoneAssumption DEF IInv, AnswerInv, GoneIsFinal, OwnerInv, WorkerInv, TypeOK
<1> QED
  BY Invariance, <1>1, PTL

-----------------------------------------------------------------------------
(* The driver keeps the contract. *)

LEMMA ContractInit == Init => Contract!Init
  BY DEF Init, Contract!Init, disk, user

\* Only the creation of a handle, the start and the completion of an IRP, the last
\* close, the request for removal and the deletion are steps of the contract.
LEMMA ContractStep == IInv /\ [Next]_vars => [Contract!Next]_Contract!contractVars
<1> SUFFICES ASSUME IInv, [Next]_vars PROVE [Contract!Next]_Contract!contractVars
  OBVIOUS
<1> USE DEF IInv, TypeOK, Contract!contractVars
<1> DEFINE Stutter == UNCHANGED <<disk, user>>
<1>a. Stutter => [Contract!Next]_Contract!contractVars
  OBVIOUS
<1>b. (\/ \E c \in Client : Contract!Open(c) \/ Contract!Ask(c) \/ Contract!Answer(c)
                              \/ Contract!Leave(c)
       \/ Contract!Remove)
       => Contract!Next
  BY DEF Contract!Next
<1>1. CASE UNCHANGED vars
  BY <1>1 DEF vars, workerVars, clientVars, disk, user
<1>2. ASSUME NEW c \in Client, OpenStart(c) PROVE Stutter
  <2>1. user' = user
    BY <1>2 DEF OpenStart, user
  <2> QED
    BY <1>2, <2>1 DEF OpenStart, workerVars, disk
<1>3. ASSUME NEW c \in Client, DispatchCreate(c) PROVE Contract!Open(c) \/ Stutter
  <2>1. c \notin outstanding
    BY <1>3 DEF DispatchCreate, HandleInv
  <2>2. disk' = disk
    BY <1>3 DEF DispatchCreate, workerVars, disk
  <2>3. CASE terminate_thread
    BY <1>3, <2>1, <2>2, <2>3 DEF DispatchCreate, user
  <2>4. CASE ~terminate_thread
    <3>1. disk = "present"
      BY <2>4 DEF disk, WorkerInv
    <3>2. user[c] = "closed" /\ user' = [user EXCEPT ![c] = "open"]
      BY <1>3, <2>1, <2>4 DEF DispatchCreate, user
    <3> QED
      BY <3>1, <3>2, <2>2 DEF Contract!Open, Contract!Move
  <2> QED
    BY <2>3, <2>4
<1>4. ASSUME NEW c \in Client, Close(c) PROVE Contract!Leave(c)
  <2>1. user[c] = "open" /\ user' = [user EXCEPT ![c] = "closed"]
    BY <1>4 DEF Close, user
  <2> QED
    BY <1>4, <2>1 DEF Close, workerVars, disk, Contract!Leave, Contract!Move
<1>5. ASSUME NEW c \in Client, Issue(c) PROVE Contract!Ask(c)
  <2>1. user[c] = "open" /\ user' = [user EXCEPT ![c] = "waiting"]
    BY <1>5 DEF Issue, user
  <2> QED
    BY <1>5, <2>1 DEF Issue, workerVars, disk, Contract!Ask, Contract!Move
<1>6. ASSUME NEW c \in outstanding, outstanding' = outstanding \ {c}, handle' = handle,
             UNCHANGED <<device, terminate_thread>>
      PROVE  Contract!Answer(c)
  <2>1. user[c] = "waiting" /\ user' = [user EXCEPT ![c] = "open"]
    BY <1>6 DEF user, HandleInv
  <2> QED
    BY <1>6, <2>1 DEF disk, Contract!Answer, Contract!Move
<1>7. ASSUME NEW c \in Client, DispatchRefuse(c) PROVE Contract!Answer(c)
  BY <1>6, <1>7 DEF DispatchRefuse, CompleteInline, OwnerInv, InDispatch, workerVars
<1>8. ASSUME NEW c \in Client, NEW op \in Op, DispatchImmediate(c, op) PROVE Contract!Answer(c)
  BY <1>6, <1>8 DEF DispatchImmediate, CompleteInline, OwnerInv, InDispatch, workerVars
<1>9. ASSUME NEW c \in Client, NEW op \in Op, DispatchQueue(c, op) PROVE Stutter
  BY <1>9 DEF DispatchQueue, workerVars, disk, user
<1>10. ASSUME NEW c \in Client, QueueInsert(c) \/ QueueSignal(c) PROVE Stutter
  BY <1>10 DEF QueueInsert, QueueSignal, workerVars, disk, user
<1>11. ASSUME terminate_thread' = TRUE, device = "present", UNCHANGED <<device, clientVars>>
       PROVE  Contract!Remove \/ Stutter
  <2>1. user' = user
    BY <1>11 DEF clientVars, user
  <2> QED
    BY <1>11, <2>1 DEF disk, Contract!Remove
<1>12. CASE RemoveVirtualDisk
  BY <1>a, <1>b, <1>11, <1>12 DEF RemoveVirtualDisk, workerVars
<1>13. CASE PreloadImage
  <2>1. CASE terminate_thread' = TRUE
    BY <1>a, <1>b, <1>11, <1>13, <2>1 DEF PreloadImage, Goto, WorkerInv
  <2>2. CASE terminate_thread' = terminate_thread
    BY <1>13, <2>2 DEF PreloadImage, clientVars, disk, user
  <2> QED
    BY <1>13, <2>1, <2>2 DEF PreloadImage
<1>14. CASE RemoveLostDisk
  BY <1>a, <1>b, <1>11, <1>14 DEF RemoveLostDisk, Goto, WorkerInv
<1>15. CASE \/ ClearRequestEvent \/ RemoveHead \/ FindNoRequest \/ WaitForEvent
            \/ RecheckRequestEvent \/ TearDown \/ CheckReferenceCount
  BY <1>15 DEF ClearRequestEvent, RemoveHead, FindNoRequest, WaitForEvent, RecheckRequestEvent,
               TearDown, CheckReferenceCount, clientVars, disk, user
<1>16. CASE ServiceAnswered \/ ServiceCancelled \/ ServiceReleased
  BY <1>16 DEF ServiceAnswered, ServiceCancelled, ServiceReleased, ServiceResult, clientVars,
               disk, user
<1>17. CASE DeleteDevice
  \* The reference check came before, and nobody was let in since.
  <2>1. terminate_thread /\ device = "present" /\ \A c \in Client : handle[c] # "open"
    BY <1>17 DEF DeleteDevice, Goto, WorkerInv
  <2>2. \A c \in Client : user[c] = "closed"
    BY <2>1 DEF user, HandleInv
  <2>3. user' = user /\ disk = "removing" /\ disk' = "gone"
    BY <1>17, <2>1 DEF DeleteDevice, clientVars, user, disk
  <2> QED
    BY <2>2, <2>3 DEF Contract!Next, Contract!Vanish
<1>18. CASE CompleteIrp
  <2>1. irp \in Client /\ irp \in outstanding
    BY <1>18 DEF CompleteIrp, Goto, WorkerInv, OwnerInv
  <2>2. Contract!Answer(irp)
    BY <1>6, <1>18, <2>1 DEF CompleteIrp
  <2> QED
    BY <2>1, <2>2 DEF Contract!Next
<1> HIDE DEF Stutter
<1> QED
  BY StepCases, <1>1, <1>2, <1>3, <1>4, <1>5, <1>7, <1>8, <1>9, <1>10, <1>12, <1>13, <1>14,
     <1>15, <1>16, <1>17, <1>18, <1>a, <1>b

\* What the driver's threads, list and events implement: handles only before the
\* removal, one completion for each IRP, and a device that outlives its handles.
THEOREM KeepsContract == Spec => ContractSpec
<1>1. IInv /\ [Next]_vars => [Contract!Next]_Contract!contractVars
  BY ContractStep
<1> QED
  BY Invariance, ContractInit, <1>1, PTL DEF Spec, ContractSpec, Contract!Spec

-----------------------------------------------------------------------------
(* Dynamic VHD images: the inductive invariant of VhdImage. *)

\* What table t and file f hold for sector s; Sector is this of the image as it is.
SpotIn(t, s)    == t[BlockOf(s)] + 1 + (s % BlockSize)
HeldIn(t, f, s) == IF t[BlockOf(s)] = Free \/ SpotIn(t, s) > Len(f) THEN Zero ELSE f[SpotIn(t, s)]

\* The blocks of P have places of their own before the footer, and the others none, or the
\* one where the footer is.
Sound(t, f, P) ==
    /\ t \in [Block -> Nat] /\ f \in Seq(Cell)
    /\ Len(f) >= 1 /\ f[Len(f)] = Footer
    /\ \A b \in P : t[b] # Free /\ t[b] + BlockSize < Len(f)
    /\ \A b, c \in P : b # c => t[b] + BlockSize < t[c] \/ t[c] + BlockSize < t[b]
    /\ \A b \in Block \ P : t[b] = Free \/ t[b] = Len(f)

PlacedBlocks == {b \in Block : Placed(b)}

TableInv ==
    /\ Sound(bat, file, PlacedBlocks)
    /\ pc = "block" => bat[BlockOf(offset)] = Len(file)
    /\ pc \in {"data", "bitmap"} => bat[BlockOf(offset)] # Free

ContentInv == \A s \in Disk : HeldIn(bat, file, s) \in may[s]

\* The request's first sector, and the number of its sectors that were asked to be stored.
Start  == offset + size - total
Passed == total - size + (IF pc = "bitmap" THEN First ELSE 0)

\* When as many sectors were stored as were asked to be, all of them hold the new value.
StoredInv ==
    /\ pc = "idle" => writedone = 0
    /\ pc # "idle" =>
          /\ size >= 1 /\ size <= total /\ Start >= 0
          /\ \A s \in Start .. offset + size - 1 : value \in may[s]
          /\ writedone <= Passed
          /\ writedone = Passed => \A s \in Start .. Start + Passed - 1 : HeldIn(bat, file, s) = value

ImageInv == VhdTypeOK /\ TableInv /\ ContentInv /\ StoredInv

\* Behind a torn block nothing is claimed.
VhdInv == torn \in BOOLEAN /\ (~torn => ImageInv)
-----------------------------------------------------------------------------
(* Sectors and blocks. *)

LEMMA TimesAtLeast == ASSUME NEW k \in Nat \ {0}, NEW d \in Int, d >= 1 PROVE k * d >= k
  OBVIOUS

LEMMA Divided ==
    ASSUME NEW n \in Nat, NEW k \in Nat \ {0}
    PROVE  n % k \in 0 .. k - 1 /\ n \div k \in Nat /\ n = (k * (n \div k)) + (n % k)
  OBVIOUS

LEMMA DividedOnce ==
    ASSUME NEW k \in Nat \ {0}, NEW q \in Int, NEW r \in 0 .. k - 1, NEW s \in Int,
           NEW u \in 0 .. k - 1, (k * q) + r = (k * s) + u
    PROVE  q = s /\ r = u
<1>1. k * (q - s) = u - r /\ k * (s - q) = r - u
  OBVIOUS
<1>2. CASE q - s >= 1
  <2>1. k * (q - s) >= k
    BY <1>2, TimesAtLeast
  <2> QED
    BY <1>1, <2>1
<1>3. CASE s - q >= 1
  <2>1. k * (s - q) >= k
    BY <1>3, TimesAtLeast
  <2> QED
    BY <1>1, <2>1
<1> QED
  BY <1>2, <1>3

LEMMA BlockSizes == BlockSize \in Nat \ {0} /\ Blocks \in Nat \ {0}
  BY SizeAssumption

\* Where a sector of the disk is: its block, and its place in the block.
LEMMA SectorPlace ==
    ASSUME NEW s \in Disk
    PROVE  /\ s \in Nat /\ BlockOf(s) \in Block /\ s % BlockSize \in 0 .. BlockSize - 1
           /\ s = (BlockSize * BlockOf(s)) + (s % BlockSize)
<1>1. s \in Nat /\ s < Blocks * BlockSize
  <2>1. DiskSize \in 1 .. Blocks * BlockSize
    BY SizeAssumption
  <2> QED
    BY <2>1, BlockSizes DEF Disk
<1> DEFINE q == s \div BlockSize
           r == s % BlockSize
<1>2. r \in 0 .. BlockSize - 1 /\ q \in Nat /\ s = (BlockSize * q) + r
  BY <1>1, BlockSizes, Divided
<1>3. BlockOf(s) = q
  BY DEF BlockOf
<1> HIDE DEF q, r
<1>4. q < Blocks
  <2> SUFFICES ASSUME q >= Blocks PROVE FALSE
    BY <1>2, BlockSizes
  <2>1. q = Blocks \/ q - Blocks >= 1
    BY <1>2, BlockSizes
  <2>2. CASE q = Blocks
    <3>1. s = (BlockSize * Blocks) + r
      BY <1>2, <2>2
    <3> QED
      BY <3>1, <1>1, <1>2, BlockSizes
  <2>3. CASE q - Blocks >= 1
    <3>1. BlockSize * (q - Blocks) >= BlockSize
      BY <2>3, <1>2, BlockSizes, TimesAtLeast
    <3>2. BlockSize * q = BlockSize * (q - Blocks) + BlockSize * Blocks
      BY <1>2, BlockSizes
    <3> QED
      BY <3>1, <3>2, <1>1, <1>2, BlockSizes
  <2> QED
    BY <2>1, <2>2, <2>3
<1>5. BlockOf(s) \in Block
  BY <1>2, <1>3, <1>4, BlockSizes DEF Block
<1> QED
  BY <1>1, <1>2, <1>3, <1>5 DEF r

LEMMA OnePlace ==
    ASSUME NEW s \in Disk, NEW u \in Disk, BlockOf(s) = BlockOf(u),
           s % BlockSize = u % BlockSize
    PROVE  s = u
<1>1. s = (BlockSize * BlockOf(s)) + (s % BlockSize)
  BY SectorPlace
<1>2. u = (BlockSize * BlockOf(u)) + (u % BlockSize)
  BY SectorPlace
<1> QED
  BY <1>1, <1>2

\* The sectors behind one another in a block.
LEMMA NextPlace ==
    ASSUME NEW s \in Disk, NEW j \in Nat, s + j \in Disk, (s % BlockSize) + j < BlockSize
    PROVE  BlockOf(s + j) = BlockOf(s) /\ (s + j) % BlockSize = (s % BlockSize) + j
<1> DEFINE u == s + j
           q == BlockOf(s)
           r == s % BlockSize
           p == BlockOf(u)
           m == u % BlockSize
<1>1. s \in Nat /\ q \in Nat /\ r \in 0 .. BlockSize - 1 /\ s = (BlockSize * q) + r
  BY SectorPlace DEF Block
<1>2. u \in Disk
  OBVIOUS
<1>3. u \in Nat /\ p \in Block /\ m \in 0 .. BlockSize - 1 /\ u = (BlockSize * p) + m
  <2> HIDE DEF u
  <2> QED
    BY <1>2, SectorPlace
<1>4. p \in Nat
  BY <1>3 DEF Block
<1>5. u = s + j /\ r + j < BlockSize
  OBVIOUS
<1> HIDE DEF u, q, r, p, m
<1>6. r + j \in 0 .. BlockSize - 1
  BY <1>1, <1>5, BlockSizes
<1>7. (BlockSize * p) + m = (BlockSize * q) + (r + j)
  <2>1. BlockSize * q \in Nat /\ BlockSize * p \in Nat
    BY <1>1, <1>4, BlockSizes
  <2> QED
    BY <2>1, <1>1, <1>3, <1>5, BlockSizes
<1>8. p = q /\ m = r + j
  <2>1. p \in Int /\ q \in Int
    BY <1>1, <1>4
  <2> QED
    BY <2>1, <1>3, <1>6, <1>7, BlockSizes, DividedOnce
<1> QED
  BY <1>8 DEF u, q, r, p, m

LEMMA FirstPart ==
    ASSUME offset \in Disk, size \in Nat, size >= 1
    PROVE  First \in 1 .. size /\ (offset % BlockSize) + First <= BlockSize
<1>1. offset % BlockSize \in 0 .. BlockSize - 1
  BY SectorPlace
<1> DEFINE r == offset % BlockSize
<1>2. First = IF size > BlockSize - r THEN BlockSize - r ELSE size
  BY DEF First
<1> HIDE DEF r
<1>3. First \in 1 .. size /\ r + First <= BlockSize
  <2>1. r \in 0 .. BlockSize - 1
    BY <1>1 DEF r
  <2> QED
    BY <2>1, <1>2, BlockSizes
<1> QED
  BY <1>3 DEF r

-----------------------------------------------------------------------------
(* Writes to the file. *)

LEMMA CopiesFacts ==
    ASSUME NEW n \in Nat, NEW c \in Cell
    PROVE  /\ Copies(n, c) \in Seq(Cell) /\ Len(Copies(n, c)) = n
           /\ \A i \in 1 .. n : Copies(n, c)[i] = c
  BY DEF Copies

\* A write that begins in the file: what it leaves as it was, and what it stores.
LEMMA StoredFacts ==
    ASSUME file \in Seq(Cell), NEW p \in 1 .. Len(file), NEW cells \in Seq(Cell),
           Len(cells) >= 1
    PROVE  LET g == Stored(p, cells)  end == p + Len(cells) - 1
           IN /\ g \in Seq(Cell)
              /\ Len(g) = IF end > Len(file) THEN end ELSE Len(file)
              /\ \A i \in 1 .. Len(g) :
                    g[i] = IF i \in p .. end THEN cells[i - p + 1] ELSE file[i]
<1> DEFINE end  == p + Len(cells) - 1
           last == IF end > Len(file) THEN end ELSE Len(file)
           g    == [i \in 1 .. last |-> IF i \in p .. end THEN cells[i - p + 1]
                                        ELSE IF i <= Len(file) THEN file[i] ELSE Zero]
<1>1. Stored(p, cells) = g
  BY DEF Stored
<1>2. last \in Nat /\ end \in Nat /\ p \in Nat /\ Len(file) \in Nat /\ p >= 1
  OBVIOUS
<1>3. ASSUME NEW i \in 1 .. last
      PROVE  /\ g[i] \in Cell
             /\ g[i] = IF i \in p .. end THEN cells[i - p + 1] ELSE file[i]
  <2>1. CASE i \in p .. end
    <3>1. i - p + 1 \in 1 .. Len(cells)
      BY <2>1, <1>2
    <3>2. cells[i - p + 1] \in Cell
      BY <3>1
    <3> QED
      BY <2>1, <3>2
  <2>2. CASE i \notin p .. end
    <3>1. i \in 1 .. Len(file)
      BY <2>2, <1>2
    <3>2. file[i] \in Cell
      BY <3>1
    <3> QED
      BY <2>2, <3>1, <3>2
  <2> QED
    BY <2>1, <2>2
<1>4. g \in [1 .. last -> Cell]
  BY <1>3
<1>5. g \in Seq(Cell) /\ Len(g) = last
  <2> HIDE DEF g, last
  <2> QED
    BY <1>4, <1>2
<1> HIDE DEF g
<1>6. \A i \in 1 .. Len(g) : g[i] = IF i \in p .. end THEN cells[i - p + 1] ELSE file[i]
  BY <1>3, <1>5
<1> QED
  BY <1>1, <1>5, <1>6

LEMMA NewBlockFacts ==
    /\ NewBlock \in Seq(Cell) /\ Len(NewBlock) = BlockSize + 2
    /\ \A i \in 1 .. BlockSize + 1 : NewBlock[i] = Zero
    /\ NewBlock[BlockSize + 2] = Footer
<1> DEFINE z == Copies(1 + BlockSize, Zero)
<1>1. 1 + BlockSize \in Nat /\ Zero \in Cell /\ Footer \in Cell
  BY BlockSizes, ValueAssumption DEF Cell
<1>2. z \in Seq(Cell) /\ Len(z) = 1 + BlockSize /\ \A i \in 1 .. 1 + BlockSize : z[i] = Zero
  BY <1>1, CopiesFacts
<1>3. NewBlock = Append(z, Footer)
  BY DEF NewBlock
<1> HIDE DEF z
<1>4. NewBlock \in Seq(Cell) /\ Len(NewBlock) = Len(z) + 1 /\ NewBlock[Len(z) + 1] = Footer
  BY <1>1, <1>2, <1>3
<1>5. \A i \in 1 .. Len(z) : NewBlock[i] = z[i]
  BY <1>1, <1>2, <1>3
<1> QED
  BY <1>2, <1>4, <1>5, BlockSizes
-----------------------------------------------------------------------------
(* What the disk reads. *)

\* A sector of a placed block lies behind the block's bitmap and before the footer; another
\* one reads as zero.
LEMMA HeldIs ==
    ASSUME NEW t, NEW f, NEW P \in SUBSET Block, Sound(t, f, P), NEW s \in Disk
    PROVE  /\ t[BlockOf(s)] \in Nat /\ Len(f) \in Nat
           /\ BlockOf(s) \in P =>
                /\ SpotIn(t, s) \in t[BlockOf(s)] + 1 .. t[BlockOf(s)] + BlockSize
                /\ SpotIn(t, s) < Len(f) /\ HeldIn(t, f, s) = f[SpotIn(t, s)]
           /\ BlockOf(s) \notin P => HeldIn(t, f, s) = Zero
<1>1. BlockOf(s) \in Block /\ s % BlockSize \in 0 .. BlockSize - 1
  BY SectorPlace
<1>2. t[BlockOf(s)] \in Nat /\ Len(f) \in Nat /\ Len(f) >= 1
  BY <1>1 DEF Sound
<1> DEFINE x == t[BlockOf(s)]
           r == s % BlockSize
<1>3. SpotIn(t, s) = x + 1 + r /\ x \in Nat /\ r \in 0 .. BlockSize - 1
  BY <1>1, <1>2 DEF SpotIn
<1>4. HeldIn(t, f, s) = IF x = Free \/ SpotIn(t, s) > Len(f) THEN Zero ELSE f[SpotIn(t, s)]
  BY DEF HeldIn
<1>5. BlockOf(s) \in P => x # Free /\ x + BlockSize < Len(f)
  BY DEF Sound
<1>6. BlockOf(s) \notin P => x = Free \/ x = Len(f)
  BY <1>1 DEF Sound
<1> HIDE DEF x, r
<1>7. ASSUME BlockOf(s) \in P
      PROVE  /\ SpotIn(t, s) \in x + 1 .. x + BlockSize
             /\ SpotIn(t, s) < Len(f) /\ HeldIn(t, f, s) = f[SpotIn(t, s)]
  BY <1>7, <1>2, <1>3, <1>4, <1>5, BlockSizes
<1>8. ASSUME BlockOf(s) \notin P PROVE HeldIn(t, f, s) = Zero
  BY <1>8, <1>2, <1>3, <1>4, <1>6, BlockSizes
<1> QED
  BY <1>2, <1>7, <1>8 DEF x

\* No place is that of two sectors, or of a sector and a bitmap.
LEMMA SpotsApart ==
    ASSUME NEW t, NEW f, NEW P \in SUBSET Block, Sound(t, f, P),
           NEW s \in Disk, BlockOf(s) \in P
    PROVE  /\ \A b \in P : SpotIn(t, s) # t[b]
           /\ \A u \in Disk : BlockOf(u) \in P /\ SpotIn(t, u) = SpotIn(t, s) => u = s
<1> DEFINE c == BlockOf(s)
<1>1. SpotIn(t, s) \in t[c] + 1 .. t[c] + BlockSize /\ t[c] \in Nat
  BY HeldIs
<1>2. ASSUME NEW b \in P PROVE SpotIn(t, s) # t[b]
  <2>1. t[b] \in Nat
    BY <1>2 DEF Sound
  <2>2. b # c => t[b] + BlockSize < t[c] \/ t[c] + BlockSize < t[b]
    BY <1>2 DEF Sound
  <2>3. b = c => t[b] = t[c]
    OBVIOUS
  <2> HIDE DEF c
  <2> QED
    BY <1>1, <2>1, <2>2, <2>3, BlockSizes
<1>3. ASSUME NEW u \in Disk, BlockOf(u) \in P, SpotIn(t, u) = SpotIn(t, s) PROVE u = s
  <2> DEFINE b == BlockOf(u)
  <2>1. SpotIn(t, u) \in t[b] + 1 .. t[b] + BlockSize /\ t[b] \in Nat
    BY <1>3, HeldIs
  <2>2. b # c => t[b] + BlockSize < t[c] \/ t[c] + BlockSize < t[b]
    BY <1>3 DEF Sound
  <2>3. b = c
    <3> HIDE DEF b, c
    <3> QED
      BY <1>1, <1>3, <2>1, <2>2, BlockSizes
  <2>4. SpotIn(t, u) = t[b] + 1 + (u % BlockSize) /\ SpotIn(t, s) = t[c] + 1 + (s % BlockSize)
    BY DEF SpotIn
  <2>5. u % BlockSize \in 0 .. BlockSize - 1 /\ s % BlockSize \in 0 .. BlockSize - 1
    BY SectorPlace
  <2>6. u % BlockSize = s % BlockSize
    <3> DEFINE m == u % BlockSize
               r == s % BlockSize
               x == t[c]
    <3>1. x + 1 + m = x + 1 + r
      BY <1>3, <2>3, <2>4
    <3>2. x \in Nat
      BY <1>1
    <3>3. m \in Int /\ r \in Int
      <4> HIDE DEF m, r
      <4>1. m \in 0 .. BlockSize - 1 /\ r \in 0 .. BlockSize - 1
        BY <2>5 DEF m, r
      <4> QED
        BY <4>1
    <3> HIDE DEF m, r, x
    <3>4. m = r
      BY <3>1, <3>2, <3>3
    <3> QED
      BY <3>4 DEF m, r
  <2> QED
    BY <2>3, <2>6, OnePlace
<1> QED
  BY <1>2, <1>3

\* A write inside the file that does not touch the footer.
LEMMA SoundKept ==
    ASSUME NEW t, NEW f, NEW P \in SUBSET Block, Sound(t, f, P),
           NEW g \in Seq(Cell), Len(g) = Len(f), g[Len(f)] = f[Len(f)]
    PROVE  Sound(t, g, P)
  BY DEF Sound
-----------------------------------------------------------------------------
(* The steps. *)

LEMMA FirstSector == 0 \in Disk
  BY SizeAssumption, BlockSizes DEF Disk

LEMMA VhdInitInv == VhdInit => VhdInv
<1> SUFFICES ASSUME VhdInit PROVE VhdInv
  OBVIOUS
<1> USE DEF VhdInit
<1>1. Zero \in Cell /\ Footer \in Cell /\ Zero \in Value
  BY ValueAssumption DEF Cell
<1>2. file \in Seq(Cell) /\ Len(file) = 1 /\ file[1] = Footer
  BY <1>1
<1>3. bat \in [Block -> Nat] /\ \A b \in Block : bat[b] = Free
  BY DEF Free
<1>4. VhdTypeOK
  <2>1. may \in [Disk -> SUBSET Value] /\ MaxRequest \in Nat
    BY <1>1, SizeAssumption
  <2>2. pc = "idle" /\ offset = 0 /\ size = 0 /\ value = Zero /\ total = 0 /\ writedone = 0
    OBVIOUS
  <2>3. torn \in BOOLEAN
    OBVIOUS
  <2>4. 0 \in 0 .. 0 /\ 0 \in 0 .. MaxRequest
    BY <2>1
  <2> QED
    BY ONLY <1>1, <1>2, <1>3, <2>1, <2>2, <2>3, <2>4, FirstSector DEF VhdTypeOK
<1>5. PlacedBlocks = {}
  BY <1>3 DEF PlacedBlocks, Placed
<1>6. TableInv
  <2>1. Sound(bat, file, {})
    BY <1>2, <1>3 DEF Sound
  <2> QED
    BY <2>1, <1>5 DEF TableInv
<1>7. ContentInv
  <2> SUFFICES ASSUME NEW s \in Disk PROVE HeldIn(bat, file, s) \in may[s]
    BY DEF ContentInv
  <2>1. BlockOf(s) \in Block
    BY SectorPlace
  <2>2. HeldIn(bat, file, s) = Zero
    BY <2>1, <1>3 DEF HeldIn
  <2> QED
    BY <2>2
<1>8. StoredInv
  BY DEF StoredInv
<1> QED
  BY <1>4, <1>6, <1>7, <1>8 DEF VhdInv, ImageInv

\* Outside "block", which blocks are placed is for the table alone to say.
LEMMA SamePlaced ==
    ASSUME bat' = bat, pc # "block", pc' # "block" PROVE PlacedBlocks' = PlacedBlocks
  BY DEF PlacedBlocks, Placed

LEMMA BackToIdle ==
    ASSUME VhdTypeOK, pc # "block", Idle, bat' = bat, torn' \in BOOLEAN,
           Sound(bat, file', PlacedBlocks), may' \in [Disk -> SUBSET Value],
           \A s \in Disk : HeldIn(bat, file', s) \in may'[s]
    PROVE  ImageInv'
<1>1. pc' = "idle" /\ offset' = 0 /\ size' = 0 /\ value' = Zero /\ total' = 0 /\ writedone' = 0
  BY DEF Idle
<1>2. PlacedBlocks' = PlacedBlocks
  BY <1>1, SamePlaced
<1>3. bat' \in [Block -> Nat] /\ file' \in Seq(Cell)
  BY DEF Sound
<1>4. VhdTypeOK'
  <2>1. MaxRequest \in Nat /\ Zero \in Value
    BY SizeAssumption, ValueAssumption
  <2> QED
    BY <1>1, <1>3, <2>1, FirstSector DEF VhdTypeOK
<1>5. TableInv'
  <2>1. Sound(bat', file', PlacedBlocks')
    BY <1>2
  <2> QED
    BY <2>1, <1>1 DEF TableInv
<1>6. ContentInv'
  <2>1. \A s \in Disk : HeldIn(bat', file', s) \in may'[s]
    OBVIOUS
  <2> QED
    BY <2>1 DEF ContentInv
<1>7. StoredInv'
  BY <1>1 DEF StoredInv
<1> QED
  BY <1>4, <1>5, <1>6, <1>7 DEF ImageInv

LEMMA StepWrite ==
    ASSUME ImageInv, torn' \in BOOLEAN,
           NEW o \in Disk, NEW n \in 1 .. MaxRequest, NEW v \in Value, Write(o, n, v)
    PROVE  ImageInv'
<1> USE DEF ImageInv
<1>1. /\ pc = "idle" /\ o + n - 1 \in Disk /\ bat' = bat /\ file' = file
      /\ pc' = "table" /\ offset' = o /\ size' = n /\ value' = v /\ total' = n
      /\ writedone' = writedone
      /\ may' = [s \in Disk |-> IF s \in o .. o + n - 1 THEN may[s] \cup {v} ELSE may[s]]
  BY DEF Write
<1>2. may \in [Disk -> SUBSET Value] /\ MaxRequest \in Nat
  BY SizeAssumption DEF VhdTypeOK
<1>3. writedone = 0
  BY <1>1 DEF StoredInv
<1>4. may' \in [Disk -> SUBSET Value] /\ \A s \in Disk : may[s] \subseteq may'[s]
  BY <1>1, <1>2
<1>5. VhdTypeOK'
  <2>1. bat' \in [Block -> Nat] /\ file' \in Seq(Cell)
    BY <1>1 DEF VhdTypeOK
  <2>2. n \in 0 .. MaxRequest /\ 0 \in 0 .. n
    BY <1>2
  <2> QED
    BY <1>1, <1>3, <1>4, <2>1, <2>2 DEF VhdTypeOK
<1>6. TableInv'
  <2>1. Sound(bat', file', PlacedBlocks')
    BY <1>1, SamePlaced DEF TableInv
  <2> QED
    BY <2>1, <1>1 DEF TableInv
<1>7. ContentInv'
  <2>1. \A s \in Disk : HeldIn(bat', file', s) \in may'[s]
    BY <1>1, <1>4 DEF ContentInv
  <2> QED
    BY <2>1 DEF ContentInv
<1>8. StoredInv'
  <2>1. o \in Nat /\ n \in Nat /\ n >= 1
    BY <1>2, SectorPlace
  <2>2. Start' = o /\ Passed' = 0
    BY <1>1, <2>1 DEF Start, Passed
  <2>3. ASSUME NEW s \in o .. o + n - 1 PROVE v \in may'[s]
    <3>1. s \in Disk
      BY <1>1, <2>1, SizeAssumption, BlockSizes DEF Disk
    <3> QED
      BY <1>1, <2>3, <3>1
  <2>4. \A s \in Start' .. Start' + Passed' - 1 : HeldIn(bat', file', s) = value'
    BY <2>1, <2>2
  <2>5. \A s \in Start' .. offset' + size' - 1 : value' \in may'[s]
    BY <1>1, <2>2, <2>3
  <2>6. size' >= 1 /\ size' <= total' /\ Start' >= 0 /\ writedone' <= Passed' /\ pc' # "idle"
    BY <1>1, <1>3, <2>1, <2>2
  <2> QED
    BY <2>4, <2>5, <2>6 DEF StoredInv
<1> QED
  BY <1>5, <1>6, <1>7, <1>8

LEMMA StepFails == ASSUME ImageInv, Fails PROVE ImageInv'
<1>1. pc # "block" /\ Idle /\ bat' = bat /\ file' = file /\ may' = may /\ torn' = torn
  BY DEF Fails
<1>2. VhdTypeOK /\ torn' \in BOOLEAN /\ may' \in [Disk -> SUBSET Value]
  BY <1>1 DEF ImageInv, VhdTypeOK
<1>3. Sound(bat, file', PlacedBlocks)
  BY <1>1 DEF ImageInv, TableInv
<1>4. \A s \in Disk : HeldIn(bat, file', s) \in may'[s]
  BY <1>1 DEF ImageInv, ContentInv
<1> QED
  BY <1>1, <1>2, <1>3, <1>4, BackToIdle

LEMMA StepStop == ASSUME ImageInv, Stop, ~torn' PROVE ImageInv'
<1>1. pc # "block" /\ Idle /\ bat' = bat /\ file' = file /\ may' = may
  BY DEF Stop
<1>2. VhdTypeOK /\ torn' \in BOOLEAN /\ may' \in [Disk -> SUBSET Value]
  BY <1>1 DEF ImageInv, VhdTypeOK, Stop
<1>3. Sound(bat, file', PlacedBlocks)
  BY <1>1 DEF ImageInv, TableInv
<1>4. \A s \in Disk : HeldIn(bat, file', s) \in may'[s]
  BY <1>1 DEF ImageInv, ContentInv
<1> QED
  BY <1>1, <1>2, <1>3, <1>4, BackToIdle

\* What a request under way relies on stays when the disk reads as before.
LEMMA StoredSame ==
    ASSUME StoredInv, pc # "idle", pc' # "idle", Start' = Start, Passed' = Passed,
           offset' + size' - 1 = offset + size - 1, size' >= 1, size' <= total',
           value' = value, writedone' = writedone, may' = may,
           \A s \in Disk : HeldIn(bat', file', s) = HeldIn(bat, file, s),
           \A s \in Start .. Start + Passed - 1 : s \in Disk
    PROVE  StoredInv'
<1>1. /\ Start >= 0
      /\ \A s \in Start .. offset + size - 1 : value \in may[s]
      /\ writedone <= Passed
      /\ writedone = Passed => \A s \in Start .. Start + Passed - 1 : HeldIn(bat, file, s) = value
  BY DEF StoredInv
<1>2. /\ Start' >= 0
      /\ \A s \in Start' .. offset' + size' - 1 : value' \in may'[s]
      /\ writedone' <= Passed'
  <2>1. Start' >= 0 /\ writedone' <= Passed'
    BY <1>1
  <2>2. Start' .. offset' + size' - 1 = Start .. offset + size - 1
    OBVIOUS
  <2>3. \A s \in Start' .. offset' + size' - 1 : value' \in may'[s]
    BY <1>1, <2>2
  <2> QED
    BY <2>1, <2>3
<1>3. writedone' = Passed' =>
         \A s \in Start' .. Start' + Passed' - 1 : HeldIn(bat', file', s) = value'
  BY <1>1
<1> QED
  BY <1>2, <1>3 DEF StoredInv

LEMMA RequestFacts ==
    ASSUME ImageInv, pc # "idle"
    PROVE  /\ offset \in Disk /\ offset \in Nat /\ size \in Nat /\ total \in Nat
           /\ writedone \in Nat /\ value \in Value /\ size >= 1 /\ size <= total
           /\ BlockOf(offset) \in Block /\ Start \in Nat /\ offset + size - 1 \in Disk
           /\ offset + size - 1 \in 0 .. DiskSize - 1 /\ DiskSize \in Nat
           /\ First \in 1 .. size /\ (offset % BlockSize) + First <= BlockSize
           /\ Passed \in 0 .. total /\ Start + Passed <= offset + size
           /\ \A s \in Start .. offset + size - 1 : s \in Disk /\ value \in may[s]
<1>1. /\ offset \in Disk /\ size \in 0 .. MaxRequest /\ total \in 0 .. MaxRequest
      /\ writedone \in 0 .. total /\ value \in Value /\ offset + size - 1 \in Disk
  BY DEF ImageInv, VhdTypeOK
<1>2. MaxRequest \in Nat /\ DiskSize \in Nat
  BY SizeAssumption, BlockSizes
<1>3. /\ size >= 1 /\ size <= total /\ Start >= 0
      /\ \A s \in Start .. offset + size - 1 : value \in may[s]
  BY DEF ImageInv, StoredInv
<1>4. offset \in Nat /\ BlockOf(offset) \in Block
  BY <1>1, SectorPlace
<1>5. size \in Nat /\ total \in Nat /\ writedone \in Nat
  BY <1>1, <1>2
<1>6. First \in 1 .. size /\ (offset % BlockSize) + First <= BlockSize
  BY <1>1, <1>3, <1>5, FirstPart
<1>7. Start = offset + size - total /\ Start \in Nat
  BY <1>3, <1>4, <1>5 DEF Start
<1>8. offset + size - 1 \in 0 .. DiskSize - 1
  BY <1>1 DEF Disk
<1>9. ASSUME NEW s \in Start .. offset + size - 1 PROVE s \in Disk
  BY <1>2, <1>4, <1>5, <1>7, <1>8 DEF Disk
<1>10. Passed \in 0 .. total /\ Start + Passed <= offset + size
  BY <1>3, <1>4, <1>5, <1>6, <1>7 DEF Passed
<1> QED
  BY <1>1, <1>2, <1>3, <1>4, <1>5, <1>6, <1>7, <1>8, <1>9, <1>10

\* The table gets its entry for the new block, which the footer's place still is.
LEMMA StepTable == ASSUME ImageInv, WriteTable PROVE ImageInv'
<1> DEFINE b0 == BlockOf(offset)
<1>1. /\ pc = "table" /\ file' = file /\ offset' = offset /\ size' = size /\ value' = value
      /\ total' = total /\ writedone' = writedone /\ may' = may /\ torn' = torn
  BY DEF WriteTable
<1>2. b0 \in Block /\ offset + size - 1 \in Disk /\ size >= 1 /\ size <= total
  BY <1>1, RequestFacts
<1>3. \/ bat[b0] = Free /\ bat' = [bat EXCEPT ![b0] = Len(file)] /\ pc' = "block"
      \/ bat[b0] # Free /\ bat' = bat /\ pc' = "data"
  BY DEF WriteTable
<1>4. Sound(bat, file, PlacedBlocks) /\ bat \in [Block -> Nat] /\ Len(file) \in Nat
  BY DEF ImageInv, TableInv, Sound
<1>5. PlacedBlocks \in SUBSET Block
  BY DEF PlacedBlocks
<1>6. /\ Sound(bat', file, PlacedBlocks) /\ PlacedBlocks' = PlacedBlocks
      /\ \A s \in Disk : HeldIn(bat', file, s) = HeldIn(bat, file, s)
  <2>1. CASE bat' = bat /\ pc' = "data"
    <3>1. PlacedBlocks' = PlacedBlocks
      BY <2>1, <1>1, SamePlaced
    <3>2. Sound(bat', file, PlacedBlocks)
      BY <2>1, <1>4
    <3>3. \A s \in Disk : HeldIn(bat', file, s) = HeldIn(bat, file, s)
      BY <2>1
    <3> QED
      BY <3>1, <3>2, <3>3
  <2>2. CASE bat[b0] = Free /\ bat' = [bat EXCEPT ![b0] = Len(file)] /\ pc' = "block"
    <3>1. bat' \in [Block -> Nat] /\ bat'[b0] = Len(file)
      BY <2>2, <1>2, <1>4
    <3>2. \A b \in Block : b # b0 => bat'[b] = bat[b]
      BY <2>2, <1>4
    <3>3. b0 \notin PlacedBlocks
      BY <2>2 DEF PlacedBlocks, Placed
    <3>4. PlacedBlocks' = PlacedBlocks
      <4>1. ASSUME NEW b \in Block PROVE Placed(b)' <=> Placed(b)
        <5>1. Placed(b) <=> bat[b] # Free
          BY <1>1 DEF Placed
        <5>2. Placed(b)' <=> bat'[b] # Free /\ b # b0
          BY <1>1, <2>2 DEF Placed
        <5> QED
          BY <5>1, <5>2, <3>2, <2>2
      <4> QED
        BY <4>1 DEF PlacedBlocks
    <3>5. Sound(bat', file, PlacedBlocks)
      <4>1. \A b \in PlacedBlocks : bat'[b] = bat[b]
        BY <3>2, <3>3, <1>5
      <4>2. \A b \in PlacedBlocks : bat'[b] # Free /\ bat'[b] + BlockSize < Len(file)
        BY <4>1, <1>4 DEF Sound
      <4>3. \A b, c \in PlacedBlocks :
               b # c => bat'[b] + BlockSize < bat'[c] \/ bat'[c] + BlockSize < bat'[b]
        BY <4>1, <1>4 DEF Sound
      <4>4. \A b \in Block \ PlacedBlocks : bat'[b] = Free \/ bat'[b] = Len(file)
        BY <3>1, <3>2, <1>4 DEF Sound
      <4>5. file \in Seq(Cell) /\ Len(file) >= 1 /\ file[Len(file)] = Footer
        BY <1>4 DEF Sound
      <4> QED
        BY <3>1, <4>2, <4>3, <4>4, <4>5 DEF Sound
    <3>6. ASSUME NEW s \in Disk PROVE HeldIn(bat', file, s) = HeldIn(bat, file, s)
      <4>1. BlockOf(s) \in Block
        BY SectorPlace
      <4>2. CASE BlockOf(s) = b0
        <5>1. BlockOf(s) \notin PlacedBlocks
          BY <4>2, <3>3
        <5>2. HeldIn(bat, file, s) = Zero
          BY <5>1, <1>4, <1>5, HeldIs
        <5>3. HeldIn(bat', file, s) = Zero
          BY <5>1, <1>5, <3>5, HeldIs
        <5> QED
          BY <5>2, <5>3
      <4>3. CASE BlockOf(s) # b0
        <5>1. bat'[BlockOf(s)] = bat[BlockOf(s)]
          BY <4>1, <4>3, <3>2
        <5> QED
          BY <5>1 DEF HeldIn, SpotIn
      <4> QED
        BY <4>2, <4>3
    <3> QED
      BY <3>4, <3>5, <3>6
  <2> QED
    BY <1>3, <2>1, <2>2
<1>7. VhdTypeOK'
  <2>1. bat' \in [Block -> Nat] /\ file' \in Seq(Cell)
    BY <1>1, <1>6 DEF Sound
  <2>2. pc' \in {"block", "data"}
    BY <1>3
  <2> QED
    BY <2>1, <2>2, <1>1, <1>2 DEF ImageInv, VhdTypeOK
<1>8. TableInv'
  <2>1. Sound(bat', file', PlacedBlocks')
    BY <1>1, <1>6
  <2>2. pc' = "block" => bat'[BlockOf(offset')] = Len(file')
    BY <1>1, <1>2, <1>3, <1>4
  <2>3. pc' \in {"data", "bitmap"} => bat'[BlockOf(offset')] # Free
    BY <1>1, <1>3
  <2> QED
    BY <2>1, <2>2, <2>3 DEF TableInv
<1>9. ContentInv'
  <2>1. \A s \in Disk : HeldIn(bat', file', s) \in may'[s]
    BY <1>1, <1>6 DEF ImageInv, ContentInv
  <2> QED
    BY <2>1 DEF ContentInv
<1>10. StoredInv'
  <2>1. Start' = Start /\ Passed' = Passed
    BY <1>1, <1>3 DEF Start, Passed
  <2>2. pc # "idle" /\ pc' # "idle"
    BY <1>1, <1>3
  <2>3. StoredInv
    BY DEF ImageInv
  <2>4. \A s \in Start .. Start + Passed - 1 : s \in Disk
    BY <2>2, RequestFacts
  <2>5. \A s \in Disk : HeldIn(bat', file', s) = HeldIn(bat, file, s)
    BY <1>1, <1>6
  <2>6. offset' + size' - 1 = offset + size - 1 /\ size' >= 1 /\ size' <= total'
    BY <1>1, <1>2
  <2> QED
    BY <1>1, <2>1, <2>2, <2>3, <2>4, <2>5, <2>6, StoredSame
<1> QED
  BY <1>7, <1>8, <1>9, <1>10 DEF ImageInv

\* The new block takes the footer's place, and the footer goes behind it.
LEMMA StepBlock == ASSUME ImageInv, WriteBlock PROVE ImageInv'
<1> DEFINE b0 == BlockOf(offset)
           L  == Len(file)
<1>1. /\ pc = "block" /\ pc' = "data" /\ bat' = bat /\ offset' = offset /\ size' = size
      /\ value' = value /\ total' = total /\ writedone' = writedone /\ may' = may /\ torn' = torn
  BY DEF WriteBlock
<1>2. b0 \in Block /\ offset + size - 1 \in Disk /\ size >= 1 /\ size <= total
  BY <1>1, RequestFacts
<1>3. /\ Sound(bat, file, PlacedBlocks) /\ bat \in [Block -> Nat] /\ file \in Seq(Cell)
      /\ L \in Nat /\ L >= 1 /\ bat[b0] = L
  BY <1>1 DEF ImageInv, TableInv, Sound
<1>4. PlacedBlocks \in SUBSET Block /\ b0 \notin PlacedBlocks
  BY <1>1 DEF PlacedBlocks, Placed
<1>5. /\ file' \in Seq(Cell) /\ Len(file') = L + BlockSize + 1 /\ file'[Len(file')] = Footer
      /\ \A i \in 1 .. L - 1 : file'[i] = file[i]
      /\ \A i \in L .. L + BlockSize : file'[i] = Zero
  <2> DEFINE end == L + Len(NewBlock) - 1
  <2>1. file' = Stored(L, NewBlock)
    BY <1>1, <1>3 DEF WriteBlock
  <2>2. L \in 1 .. Len(file) /\ Len(NewBlock) >= 1 /\ NewBlock \in Seq(Cell)
    BY <1>3, NewBlockFacts, BlockSizes
  <2>3. /\ file' \in Seq(Cell) /\ Len(file') = IF end > L THEN end ELSE L
        /\ \A i \in 1 .. Len(file') :
              file'[i] = IF i \in L .. end THEN NewBlock[i - L + 1] ELSE file[i]
    BY <2>1, <2>2, <1>3, StoredFacts
  <2>4. end = L + BlockSize + 1
    BY <1>3, NewBlockFacts, BlockSizes
  <2> HIDE DEF L, end
  <2>5. Len(file') = L + BlockSize + 1
    BY <2>3, <2>4, <1>3, BlockSizes
  <2>6. ASSUME NEW i \in 1 .. L - 1 PROVE file'[i] = file[i]
    <3>1. i \in 1 .. Len(file') /\ i \notin L .. end
      BY <2>4, <2>5, <1>3, BlockSizes
    <3> QED
      BY <3>1, <2>3
  <2>7. ASSUME NEW i \in L .. L + BlockSize PROVE file'[i] = Zero
    <3>1. i \in 1 .. Len(file') /\ i \in L .. end /\ i - L + 1 \in 1 .. BlockSize + 1
      BY <2>4, <2>5, <1>3, BlockSizes
    <3> QED
      BY <3>1, <2>3, NewBlockFacts
  <2>8. file'[Len(file')] = Footer
    <3>1. /\ end \in 1 .. Len(file') /\ end \in L .. end /\ end - L + 1 = BlockSize + 2
          /\ Len(file') = end
      BY <2>4, <2>5, <1>3, BlockSizes
    <3>2. file'[end] = NewBlock[end - L + 1]
      BY <3>1, <2>3
    <3> QED
      BY <3>1, <3>2, NewBlockFacts
  <2> QED
    BY <2>3, <2>5, <2>6, <2>7, <2>8
<1> HIDE DEF L
<1>6. bat[b0] # Free
  BY <1>3 DEF Free
<1>7. PlacedBlocks' = PlacedBlocks \cup {b0}
  <2>1. ASSUME NEW b \in Block PROVE Placed(b)' <=> Placed(b) \/ b = b0
    BY <1>1, <1>6 DEF Placed
  <2> QED
    BY <2>1, <1>2 DEF PlacedBlocks
<1>8. Sound(bat, file', PlacedBlocks \cup {b0})
  <2>1. \A b \in PlacedBlocks : bat[b] # Free /\ bat[b] \in Nat /\ bat[b] + BlockSize < L
    BY <1>3, <1>4 DEF Sound, L
  <2>2. \A b \in PlacedBlocks \cup {b0} : bat[b] # Free /\ bat[b] + BlockSize < Len(file')
    BY <2>1, <1>3, <1>5, <1>6, BlockSizes
  <2>3. \A b, c \in PlacedBlocks : b # c => bat[b] + BlockSize < bat[c] \/ bat[c] + BlockSize < bat[b]
    BY <1>3 DEF Sound
  <2>4. \A b, c \in PlacedBlocks \cup {b0} :
           b # c => bat[b] + BlockSize < bat[c] \/ bat[c] + BlockSize < bat[b]
    BY <2>1, <2>3, <1>3
  <2>5. \A b \in Block \ (PlacedBlocks \cup {b0}) : bat[b] = Free
    BY <1>1 DEF PlacedBlocks, Placed
  <2>6. Len(file') >= 1
    BY <1>3, <1>5, BlockSizes
  <2> QED
    BY <2>2, <2>4, <2>5, <2>6, <1>3, <1>5 DEF Sound
<1>9. ASSUME NEW s \in Disk PROVE HeldIn(bat, file', s) = HeldIn(bat, file, s)
  <2> DEFINE p == SpotIn(bat, s)
  <2>1. BlockOf(s) \in Block
    BY SectorPlace
  <2>2. PlacedBlocks \cup {b0} \in SUBSET Block
    BY <1>2, <1>4
  <2>3. CASE BlockOf(s) = b0
    <3>1. HeldIn(bat, file, s) = Zero
      BY <2>3, <1>3, <1>4, HeldIs
    <3>2. p \in bat[b0] + 1 .. bat[b0] + BlockSize /\ HeldIn(bat, file', s) = file'[p]
      BY <2>2, <2>3, <1>8, HeldIs
    <3>3. p \in L .. L + BlockSize
      <4> HIDE DEF p
      <4> QED
        BY <3>2, <1>3, BlockSizes
    <3> QED
      BY <3>1, <3>2, <3>3, <1>5
  <2>4. CASE BlockOf(s) \in PlacedBlocks
    <3>1. /\ bat[BlockOf(s)] \in Nat /\ p \in bat[BlockOf(s)] + 1 .. bat[BlockOf(s)] + BlockSize
          /\ p < L /\ HeldIn(bat, file, s) = file[p]
      BY <2>4, <1>3, <1>4, HeldIs DEF L
    <3>2. HeldIn(bat, file', s) = file'[p]
      BY <2>2, <2>4, <1>8, HeldIs
    <3>3. p \in 1 .. L - 1
      <4> HIDE DEF p
      <4> QED
        BY <3>1, <1>3, BlockSizes
    <3> QED
      BY <3>1, <3>2, <3>3, <1>5
  <2>5. CASE BlockOf(s) \notin PlacedBlocks \cup {b0}
    <3>1. HeldIn(bat, file, s) = Zero
      BY <2>5, <1>3, <1>4, HeldIs
    <3>2. HeldIn(bat, file', s) = Zero
      BY <2>2, <2>5, <1>8, HeldIs
    <3> QED
      BY <3>1, <3>2
  <2> QED
    BY <2>3, <2>4, <2>5
<1>10. VhdTypeOK'
  BY <1>1, <1>2, <1>5 DEF ImageInv, VhdTypeOK
<1>11. TableInv'
  <2>1. Sound(bat', file', PlacedBlocks')
    BY <1>1, <1>7, <1>8
  <2>2. pc' # "block" /\ bat'[BlockOf(offset')] # Free
    BY <1>1, <1>6
  <2> QED
    BY <2>1, <2>2 DEF TableInv
<1>12. ContentInv'
  <2>1. \A s \in Disk : HeldIn(bat', file', s) \in may'[s]
    BY <1>1, <1>9 DEF ImageInv, ContentInv
  <2> QED
    BY <2>1 DEF ContentInv
<1>13. StoredInv'
  <2>1. Start' = Start /\ Passed' = Passed
    BY <1>1 DEF Start, Passed
  <2>2. pc # "idle" /\ pc' # "idle"
    BY <1>1
  <2>3. StoredInv
    BY DEF ImageInv
  <2>4. \A s \in Start .. Start + Passed - 1 : s \in Disk
    BY <2>2, RequestFacts
  <2>5. \A s \in Disk : HeldIn(bat', file', s) = HeldIn(bat, file, s)
    BY <1>1, <1>9
  <2>6. offset' + size' - 1 = offset + size - 1 /\ size' >= 1 /\ size' <= total'
    BY <1>1, <1>2
  <2> QED
    BY <1>1, <2>1, <2>2, <2>3, <2>4, <2>5, <2>6, StoredSame
<1> QED
  BY <1>10, <1>11, <1>12, <1>13 DEF ImageInv

\* The first n sectors of the request, and no other ones, hold the new value.
LEMMA DataStored ==
    ASSUME ImageInv, pc = "data", NEW n \in 0 .. First,
           file' = IF n = 0 THEN file ELSE Stored(Place(offset), Copies(n, value))
    PROVE  /\ Sound(bat, file', PlacedBlocks)
           /\ \A s \in Disk : HeldIn(bat, file', s) =
                 IF s \in offset .. offset + n - 1 THEN value ELSE HeldIn(bat, file, s)
<1> DEFINE b0 == BlockOf(offset)
           p  == SpotIn(bat, offset)
           r  == offset % BlockSize
           x  == bat[b0]
<1>1. /\ offset \in Disk /\ offset \in Nat /\ size \in Nat /\ b0 \in Block /\ First \in 1 .. size
      /\ r + First <= BlockSize /\ value \in Value /\ offset + size - 1 \in 0 .. DiskSize - 1
      /\ DiskSize \in Nat
  BY RequestFacts
<1>2. /\ Sound(bat, file, PlacedBlocks) /\ file \in Seq(Cell) /\ x # Free
      /\ file[Len(file)] = Footer
  BY DEF ImageInv, TableInv, Sound
<1>3. PlacedBlocks \in SUBSET Block /\ b0 \in PlacedBlocks
  BY <1>1, <1>2 DEF PlacedBlocks, Placed
<1>4. x \in Nat /\ Len(file) \in Nat /\ x + BlockSize < Len(file)
  BY <1>1, <1>2, <1>3, HeldIs DEF Sound
<1>5. p = x + 1 + r /\ r \in 0 .. BlockSize - 1 /\ Place(offset) = p
  BY <1>1, SectorPlace DEF SpotIn, Place
<1>6. n \in Nat /\ n <= size /\ r + n <= BlockSize
  <2> HIDE DEF r
  <2>1. r \in Nat /\ First \in Nat
    BY <1>1, <1>5, BlockSizes
  <2> QED
    BY <2>1, <1>1, BlockSizes
<1>7. /\ file' \in Seq(Cell) /\ Len(file') = Len(file)
      /\ \A i \in 1 .. Len(file) : file'[i] = IF i \in p .. p + n - 1 THEN value ELSE file[i]
      /\ p \in Nat /\ p >= 1 /\ p + n - 1 < Len(file)
  <2> DEFINE c == Copies(n, value)
  <2>1. p \in Nat /\ p >= 1 /\ p <= Len(file) /\ p + n - 1 < Len(file)
    <3> HIDE DEF p, r, x
    <3> QED
      BY <1>4, <1>5, <1>6, BlockSizes
  <2>2. CASE n = 0
    <3>1. file' = file
      BY <2>2
    <3>2. p .. p + n - 1 = {}
      <4> HIDE DEF p
      <4> QED
        BY <2>1, <2>2
    <3> QED
      BY <3>1, <3>2, <2>1, <1>2
  <2>3. CASE n >= 1
    <3>1. c \in Seq(Cell) /\ Len(c) = n /\ \A i \in 1 .. n : c[i] = value
      <4>1. value \in Cell
        BY <1>1 DEF Cell
      <4> QED
        BY <4>1, <1>6, CopiesFacts
    <3>2. file' = Stored(p, c)
      BY <2>3, <1>5, <1>6
    <3> HIDE DEF c, p
    <3>3. p \in 1 .. Len(file) /\ Len(c) >= 1
      BY <2>1, <2>3, <3>1, <1>4
    <3>4. /\ file' \in Seq(Cell)
          /\ Len(file') = IF p + Len(c) - 1 > Len(file) THEN p + Len(c) - 1 ELSE Len(file)
          /\ \A i \in 1 .. Len(file') :
                file'[i] = IF i \in p .. p + Len(c) - 1 THEN c[i - p + 1] ELSE file[i]
      <4> DEFINE end == p + Len(c) - 1
      <4>1. /\ Stored(p, c) \in Seq(Cell)
            /\ Len(Stored(p, c)) = IF end > Len(file) THEN end ELSE Len(file)
            /\ \A i \in 1 .. Len(Stored(p, c)) :
                  Stored(p, c)[i] = IF i \in p .. end THEN c[i - p + 1] ELSE file[i]
        BY <3>1, <3>3, <1>2, StoredFacts
      <4> QED
        BY <3>2, <4>1
    <3>5. Len(file') = Len(file)
      BY <3>1, <3>4, <2>1, <1>4, <1>6
    <3>6. ASSUME NEW i \in 1 .. Len(file)
          PROVE  file'[i] = IF i \in p .. p + n - 1 THEN value ELSE file[i]
      <4>1. CASE i \in p .. p + n - 1
        <5>1. i - p + 1 \in 1 .. n
          BY <4>1, <2>1, <1>4, <1>6
        <5>2. file'[i] = c[i - p + 1]
          BY <4>1, <3>1, <3>4, <3>5
        <5> QED
          BY <4>1, <5>1, <5>2, <3>1
      <4>2. CASE i \notin p .. p + n - 1
        BY <4>2, <3>1, <3>4, <3>5
      <4> QED
        BY <4>1, <4>2
    <3> QED
      BY <3>4, <3>5, <3>6, <2>1
  <2> QED
    BY <2>2, <2>3, <1>6
<1>8. Sound(bat, file', PlacedBlocks)
  <2>1. Len(file) \in 1 .. Len(file) /\ Len(file) \notin p .. p + n - 1
    <3> HIDE DEF p
    <3> QED
      BY <1>4, <1>6, <1>7, BlockSizes
  <2>2. file'[Len(file)] = file[Len(file)]
    BY <2>1, <1>7
  <2> QED
    BY <2>2, <1>2, <1>3, <1>7, SoundKept
<1>9. ASSUME NEW s \in offset .. offset + n - 1, s \in Disk PROVE HeldIn(bat, file', s) = value
  <2> DEFINE j == s - offset
  <2>1. j \in Nat /\ j < n /\ s = offset + j
    BY <1>1, <1>6, <1>9
  <2>2. r + j < BlockSize
    <3> HIDE DEF r, j
    <3> QED
      BY <2>1, <1>5, <1>6, BlockSizes
  <2>3. BlockOf(s) = b0 /\ s % BlockSize = r + j
    <3> HIDE DEF j
    <3>1. offset + j \in Disk
      BY <2>1, <1>9
    <3>2. BlockOf(offset + j) = b0 /\ (offset + j) % BlockSize = r + j
      BY <3>1, <2>1, <2>2, <1>1, NextPlace
    <3> QED
      BY <3>2, <2>1
  <2>4. SpotIn(bat, s) = x + 1 + (r + j)
    BY <2>3 DEF SpotIn
  <2>5. SpotIn(bat, s) \in p .. p + n - 1
    <3> HIDE DEF p, r, x, j
    <3> QED
      BY <2>1, <2>4, <1>4, <1>5, <1>6, BlockSizes
  <2>6. SpotIn(bat, s) \in 1 .. Len(file)
    <3> HIDE DEF p
    <3> QED
      BY <2>5, <1>4, <1>6, <1>7
  <2>7. HeldIn(bat, file', s) = file'[SpotIn(bat, s)]
    BY <2>3, <1>3, <1>8, <1>9, HeldIs
  <2> QED
    BY <2>5, <2>6, <2>7, <1>7
<1>10. ASSUME NEW s \in Disk, s \notin offset .. offset + n - 1
       PROVE  HeldIn(bat, file', s) = HeldIn(bat, file, s)
  <2> DEFINE u == SpotIn(bat, s)
  <2>1. CASE BlockOf(s) \notin PlacedBlocks
    <3>1. HeldIn(bat, file, s) = Zero
      BY <2>1, <1>2, <1>3, HeldIs
    <3>2. HeldIn(bat, file', s) = Zero
      BY <2>1, <1>3, <1>8, HeldIs
    <3> QED
      BY <3>1, <3>2
  <2>2. CASE BlockOf(s) \in PlacedBlocks
    <3>1. /\ bat[BlockOf(s)] \in Nat /\ u \in bat[BlockOf(s)] + 1 .. bat[BlockOf(s)] + BlockSize
          /\ u < Len(file) /\ HeldIn(bat, file, s) = file[u]
      BY <2>2, <1>2, <1>3, HeldIs
    <3>2. HeldIn(bat, file', s) = file'[u]
      BY <2>2, <1>3, <1>8, HeldIs
    <3>3. u \in 1 .. Len(file)
      <4> HIDE DEF u
      <4> QED
        BY <3>1, <1>4, BlockSizes
    <3>4. u \notin p .. p + n - 1
      <4> SUFFICES ASSUME u \in p .. p + n - 1 PROVE FALSE
        OBVIOUS
      <4> DEFINE j == u - p
                 v == offset + j
      <4>1. j \in Nat /\ j < n /\ u = p + j
        <5> HIDE DEF u, p
        <5> QED
          BY <3>3, <1>4, <1>6, <1>7
      <4>2. v \in Disk /\ v \in offset .. offset + n - 1
        <5> HIDE DEF j
        <5> QED
          BY <4>1, <1>1, <1>6 DEF Disk
      <4>3. r + j < BlockSize
        <5> HIDE DEF r, j
        <5> QED
          BY <4>1, <1>5, <1>6, BlockSizes
      <4>4. BlockOf(v) = b0 /\ v % BlockSize = r + j
        <5> HIDE DEF j
        <5>1. offset + j \in Disk
          BY <4>2
        <5> QED
          BY <5>1, <4>1, <4>3, <1>1, NextPlace
      <4>5. SpotIn(bat, v) = u
        <5>1. SpotIn(bat, v) = x + 1 + (r + j)
          <6> HIDE DEF v
          <6> QED
            BY <4>4 DEF SpotIn
        <5> HIDE DEF x, r, p, j, v, u
        <5> QED
          BY <5>1, <4>1, <1>4, <1>5, <1>7, BlockSizes
      <4>6. BlockOf(v) \in PlacedBlocks
        BY <4>4, <1>3
      <4>7. v = s
        <5> HIDE DEF v
        <5> QED
          BY <4>2, <4>5, <4>6, <2>2, <1>2, <1>3, SpotsApart
      <4> QED
        BY <4>2, <4>7, <1>10
    <3> QED
      BY <3>1, <3>2, <3>3, <3>4, <1>7
  <2> QED
    BY <2>1, <2>2
<1> QED
  BY <1>8, <1>9, <1>10

LEMMA StepData == ASSUME ImageInv, WriteData PROVE ImageInv'
<1>1. /\ pc = "data" /\ pc' = "bitmap" /\ bat' = bat /\ offset' = offset /\ size' = size
      /\ value' = value /\ total' = total /\ may' = may /\ torn' = torn
  BY DEF WriteData
<1>2. PICK n \in 0 .. First :
         /\ file' = IF n = 0 THEN file ELSE Stored(Place(offset), Copies(n, value))
         /\ writedone' = writedone + n
  BY DEF WriteData
<1>3. /\ Sound(bat, file', PlacedBlocks)
      /\ \A s \in Disk : HeldIn(bat, file', s) =
            IF s \in offset .. offset + n - 1 THEN value ELSE HeldIn(bat, file, s)
  BY <1>1, <1>2, DataStored
<1>4. /\ offset \in Nat /\ size \in Nat /\ total \in Nat /\ writedone \in Nat /\ First \in 1 .. size
      /\ size >= 1 /\ size <= total /\ Start \in Nat /\ offset + size - 1 \in Disk
      /\ \A s \in Start .. offset + size - 1 : s \in Disk /\ value \in may[s]
  BY <1>1, RequestFacts
<1>5. Start = offset + size - total /\ Passed = total - size
  BY <1>1, <1>4 DEF Start, Passed
<1>6. Start' = Start /\ Passed' = Passed + First
  <2>1. First' = First
    BY <1>1 DEF First
  <2>2. Passed' = total - size + First
    BY <1>1, <2>1 DEF Passed
  <2> QED
    BY <2>2, <1>1, <1>4, <1>5 DEF Start
<1>7. writedone <= Passed
  BY <1>1 DEF ImageInv, StoredInv
<1>8. n \in Nat /\ n <= First /\ First \in Nat
  BY <1>4
<1>9. VhdTypeOK'
  <2>1. file' \in Seq(Cell)
    BY <1>3 DEF Sound
  <2>2. writedone' \in 0 .. total
    BY <1>2, <1>4, <1>5, <1>7, <1>8
  <2> QED
    BY <2>1, <2>2, <1>1, <1>4 DEF ImageInv, VhdTypeOK
<1>10. TableInv'
  <2>1. PlacedBlocks' = PlacedBlocks
    BY <1>1, SamePlaced
  <2>2. Sound(bat', file', PlacedBlocks')
    BY <2>1, <1>1, <1>3
  <2>3. pc' # "block" /\ bat'[BlockOf(offset')] # Free
    BY <1>1 DEF ImageInv, TableInv
  <2> QED
    BY <2>2, <2>3 DEF TableInv
<1>11. ContentInv'
  <2>1. ASSUME NEW s \in Disk PROVE HeldIn(bat', file', s) \in may'[s]
    <3>1. CASE s \in offset .. offset + n - 1
      <4>1. s \in Start .. offset + size - 1
        BY <3>1, <1>4, <1>5, <1>8
      <4> QED
        BY <3>1, <4>1, <1>1, <1>3, <1>4
    <3>2. CASE s \notin offset .. offset + n - 1
      BY <3>2, <1>1, <1>3 DEF ImageInv, ContentInv
    <3> QED
      BY <3>1, <3>2
  <2> QED
    BY <2>1 DEF ContentInv
<1>12. StoredInv'
  <2>1. size' >= 1 /\ size' <= total' /\ Start' >= 0 /\ pc' # "idle"
    BY <1>1, <1>4, <1>6
  <2>2. writedone' <= Passed'
    BY <1>2, <1>4, <1>5, <1>6, <1>7, <1>8
  <2>3. \A s \in Start' .. offset' + size' - 1 : value' \in may'[s]
    BY <1>1, <1>4, <1>6
  <2>4. ASSUME writedone' = Passed', NEW s \in Start' .. Start' + Passed' - 1
        PROVE  HeldIn(bat', file', s) = value'
    <3>1. n = First /\ writedone = Passed
      <4>1. writedone + n = Passed + First
        BY <2>4, <1>2, <1>6
      <4>2. writedone \in Nat /\ Passed \in Int /\ First \in Nat /\ n \in Nat
        BY <1>4, <1>5, <1>8
      <4> QED
        BY ONLY <4>1, <4>2, <1>7, <1>8
    <3>2. Start + Passed = offset
      BY <1>4, <1>5
    <3>3. s \in Start .. offset + n - 1 /\ s \in Start .. offset + size - 1
      BY <3>1, <3>2, <2>4, <1>4, <1>5, <1>6, <1>8
    <3>4. s \in Disk
      BY <3>3, <1>4
    <3>5. CASE s \in offset .. offset + n - 1
      BY <3>4, <3>5, <1>1, <1>3
    <3>6. CASE s \notin offset .. offset + n - 1
      <4>1. s \in Start .. Start + Passed - 1
        BY <3>2, <3>3, <3>6, <1>4, <1>5, <1>8
      <4>2. HeldIn(bat, file, s) = value
        BY <4>1, <3>1, <1>1 DEF ImageInv, StoredInv
      <4> QED
        BY <4>2, <3>4, <3>6, <1>1, <1>3
    <3> QED
      BY <3>5, <3>6
  <2> QED
    BY <2>1, <2>2, <2>3, <2>4 DEF StoredInv
<1> QED
  BY <1>9, <1>10, <1>11, <1>12 DEF ImageInv

\* The bitmap's place is no sector's.
LEMMA BitmapStored ==
    ASSUME ImageInv, pc = "bitmap", file' = Stored(bat[BlockOf(offset)], <<Marked>>)
    PROVE  /\ Sound(bat, file', PlacedBlocks)
           /\ \A s \in Disk : HeldIn(bat, file', s) = HeldIn(bat, file, s)
<1> DEFINE b0 == BlockOf(offset)
           x  == bat[b0]
           c  == <<Marked>>
<1>1. b0 \in Block
  BY RequestFacts
<1>2. /\ Sound(bat, file, PlacedBlocks) /\ file \in Seq(Cell) /\ x # Free
      /\ bat \in [Block -> Nat]
  BY DEF ImageInv, TableInv, Sound
<1>3. PlacedBlocks \in SUBSET Block /\ b0 \in PlacedBlocks
  BY <1>1, <1>2 DEF PlacedBlocks, Placed
<1>4. x \in Nat /\ x >= 1 /\ Len(file) \in Nat /\ x < Len(file)
  <2>1. x \in Nat /\ Len(file) \in Nat /\ x + BlockSize < Len(file)
    BY <1>1, <1>2, <1>3 DEF Sound
  <2> HIDE DEF x
  <2> QED
    BY <2>1, <1>2, BlockSizes DEF Free
<1>5. /\ file' \in Seq(Cell) /\ Len(file') = Len(file)
      /\ \A i \in 1 .. Len(file) : i # x => file'[i] = file[i]
  <2> DEFINE end == x + Len(c) - 1
  <2>1. c \in Seq(Cell) /\ Len(c) = 1
    BY DEF Cell
  <2>2. file' = Stored(x, c)
    OBVIOUS
  <2> HIDE DEF c, x
  <2>3. x \in 1 .. Len(file) /\ Len(c) >= 1
    BY <2>1, <1>4
  <2>4. /\ Stored(x, c) \in Seq(Cell)
        /\ Len(Stored(x, c)) = IF end > Len(file) THEN end ELSE Len(file)
        /\ \A i \in 1 .. Len(Stored(x, c)) :
              Stored(x, c)[i] = IF i \in x .. end THEN c[i - x + 1] ELSE file[i]
    BY <2>1, <2>3, <1>2, StoredFacts
  <2>5. end = x
    BY <2>1, <1>4
  <2> HIDE DEF end
  <2>6. Len(file') = Len(file)
    BY <2>2, <2>4, <2>5, <1>4
  <2>7. ASSUME NEW i \in 1 .. Len(file), i # x PROVE file'[i] = file[i]
    <3>1. i \notin x .. end
      BY <2>5, <2>7, <1>4
    <3> QED
      BY <3>1, <2>2, <2>4, <2>6
  <2> QED
    BY <2>2, <2>4, <2>6, <2>7
<1>6. Sound(bat, file', PlacedBlocks)
  <2>1. Len(file) \in 1 .. Len(file) /\ Len(file) # x
    BY <1>4
  <2>2. file'[Len(file)] = file[Len(file)]
    BY <2>1, <1>5
  <2> QED
    BY <2>2, <1>2, <1>3, <1>5, SoundKept
<1>7. ASSUME NEW s \in Disk PROVE HeldIn(bat, file', s) = HeldIn(bat, file, s)
  <2> DEFINE u == SpotIn(bat, s)
  <2>1. CASE BlockOf(s) \notin PlacedBlocks
    <3>1. HeldIn(bat, file, s) = Zero
      BY <2>1, <1>2, <1>3, HeldIs
    <3>2. HeldIn(bat, file', s) = Zero
      BY <2>1, <1>3, <1>6, HeldIs
    <3> QED
      BY <3>1, <3>2
  <2>2. CASE BlockOf(s) \in PlacedBlocks
    <3>1. /\ bat[BlockOf(s)] \in Nat /\ u \in bat[BlockOf(s)] + 1 .. bat[BlockOf(s)] + BlockSize
          /\ u < Len(file) /\ HeldIn(bat, file, s) = file[u]
      BY <2>2, <1>2, <1>3, HeldIs
    <3>2. HeldIn(bat, file', s) = file'[u]
      BY <2>2, <1>3, <1>6, HeldIs
    <3>3. u \in 1 .. Len(file)
      <4> HIDE DEF u
      <4> QED
        BY <3>1, <1>4, BlockSizes
    <3>4. u # x
      BY <2>2, <1>2, <1>3, SpotsApart
    <3> QED
      BY <3>1, <3>2, <3>3, <3>4, <1>5
  <2> QED
    BY <2>1, <2>2
<1> QED
  BY <1>6, <1>7

\* What is left of the request goes on in the next block, or the request is answered: when
\* all of it was stored, the disk reads as it says.
LEMMA StepBitmap == ASSUME ImageInv, WriteBitmap PROVE ImageInv'
<1>1. /\ pc = "bitmap" /\ bat' = bat /\ torn' = torn
      /\ file' = Stored(bat[BlockOf(offset)], <<Marked>>)
  BY DEF WriteBitmap
<1>2. /\ Sound(bat, file', PlacedBlocks)
      /\ \A s \in Disk : HeldIn(bat, file', s) = HeldIn(bat, file, s)
  BY <1>1, BitmapStored
<1>3. /\ offset \in Nat /\ size \in Nat /\ total \in Nat /\ writedone \in Nat /\ First \in 1 .. size
      /\ size >= 1 /\ size <= total /\ Start \in Nat /\ offset + size - 1 \in 0 .. DiskSize - 1
      /\ DiskSize \in Nat /\ value \in Value
      /\ \A s \in Start .. offset + size - 1 : s \in Disk /\ value \in may[s]
  BY <1>1, RequestFacts
<1>4. Start = offset + size - total /\ Passed = total - size + First
  BY <1>1 DEF Start, Passed
<1>5. /\ VhdTypeOK /\ torn' \in BOOLEAN /\ may \in [Disk -> SUBSET Value]
      /\ ContentInv /\ StoredInv
  BY <1>1 DEF ImageInv, VhdTypeOK
<1>6. CASE size > First
  <2>1. /\ pc' = "table" /\ offset' = offset + First /\ size' = size - First
        /\ value' = value /\ total' = total /\ writedone' = writedone /\ may' = may
    BY <1>6 DEF WriteBitmap
  <2>2. First \in Nat /\ size' \in Nat /\ size' >= 1 /\ size' <= total' /\ offset' \in Nat
    BY <2>1, <1>3, <1>6
  <2>3. offset' + size' - 1 = offset + size - 1 /\ offset' \in Disk
    BY <2>1, <2>2, <1>3 DEF Disk
  <2>4. Start' = Start /\ Passed' = Passed
    <3>1. Passed' = total' - size' + 0
      BY <2>1 DEF Passed
    <3>2. Start' = offset' + size' - total'
      BY DEF Start
    <3> QED
      BY <3>1, <3>2, <2>1, <2>2, <1>3, <1>4
  <2>5. VhdTypeOK'
    <3>1. file' \in Seq(Cell)
      BY <1>2 DEF Sound
    <3>2. size' \in 0 .. MaxRequest
      BY <2>1, <2>2, <1>3, <1>5, SizeAssumption DEF VhdTypeOK
    <3>3. offset' + size' - 1 \in Disk
      BY <2>3, <1>3 DEF Disk
    <3> QED
      BY <3>1, <3>2, <3>3, <2>1, <2>3, <1>1, <1>5 DEF VhdTypeOK
  <2>6. TableInv'
    <3>1. PlacedBlocks' = PlacedBlocks
      BY <1>1, <2>1, SamePlaced
    <3>2. Sound(bat', file', PlacedBlocks')
      BY <3>1, <1>1, <1>2
    <3>3. pc' = "table"
      BY <2>1
    <3> QED
      BY <3>2, <3>3 DEF TableInv
  <2>7. ContentInv'
    <3>1. \A s \in Disk : HeldIn(bat', file', s) \in may'[s]
      BY <1>1, <1>2, <1>5, <2>1 DEF ContentInv
    <3> QED
      BY <3>1 DEF ContentInv
  <2>8. StoredInv'
    <3>1. \A s \in Start .. Start + Passed - 1 : s \in Disk
      BY <1>1, RequestFacts
    <3>2. \A s \in Disk : HeldIn(bat', file', s) = HeldIn(bat, file, s)
      BY <1>1, <1>2
    <3>3. pc # "idle" /\ pc' # "idle"
      BY <1>1, <2>1
    <3> QED
      BY <3>1, <3>2, <3>3, <2>1, <2>2, <2>3, <2>4, <1>5, StoredSame
  <2> QED
    BY <2>5, <2>6, <2>7, <2>8 DEF ImageInv
<1>7. CASE ~(size > First)
  <2>1. WriteAnswer(writedone)
    BY <1>7 DEF WriteBitmap
  <2>2. Idle
    BY <2>1 DEF WriteAnswer
  <2>3. First = size /\ Passed = total /\ Start + Passed - 1 = offset + size - 1
    BY <1>3, <1>4, <1>7
  <2>4. /\ may' \in [Disk -> SUBSET Value]
        /\ \A s \in Disk : HeldIn(bat, file, s) \in may'[s]
    <3>1. CASE writedone # total
      <4>1. may' = may
        BY <2>1, <3>1 DEF WriteAnswer
      <4> QED
        BY <4>1, <1>5 DEF ContentInv
    <3>2. CASE writedone = total
      <4>1. may' = [s \in Disk |-> IF s \in Start .. offset + size - 1 THEN {value} ELSE may[s]]
        BY <2>1, <3>2 DEF WriteAnswer, Start
      <4>2. may' \in [Disk -> SUBSET Value]
        BY <4>1, <1>3, <1>5
      <4>3. \A s \in Start .. Start + Passed - 1 : HeldIn(bat, file, s) = value
        BY <3>2, <2>3, <1>1, <1>5 DEF StoredInv
      <4>4. ASSUME NEW s \in Disk PROVE HeldIn(bat, file, s) \in may'[s]
        <5>1. CASE s \in Start .. offset + size - 1
          <6>1. HeldIn(bat, file, s) = value
            BY <5>1, <4>3, <2>3
          <6> QED
            BY <6>1, <5>1, <4>1
        <5>2. CASE s \notin Start .. offset + size - 1
          BY <5>2, <4>1, <1>5 DEF ContentInv
        <5> QED
          BY <5>1, <5>2
      <4> QED
        BY <4>2, <4>4
    <3> QED
      BY <3>1, <3>2
  <2>5. \A s \in Disk : HeldIn(bat, file', s) \in may'[s]
    BY <2>4, <1>2
  <2> QED
    BY <2>2, <2>4, <2>5, <1>1, <1>2, <1>5, BackToIdle
<1> QED
  BY <1>6, <1>7

-----------------------------------------------------------------------------
LEMMA VhdStepInv == VhdInv /\ [VhdNext]_vhdVars => VhdInv'
<1> SUFFICES ASSUME VhdInv, [VhdNext]_vhdVars PROVE VhdInv'
  OBVIOUS
<1>1. torn \in BOOLEAN
  BY DEF VhdInv
<1>2. torn' \in BOOLEAN /\ (torn => torn')
  <2>1. CASE UNCHANGED vhdVars
    BY <2>1, <1>1 DEF vhdVars
  <2>2. CASE VhdNext
    <3>1. torn' = torn \/ torn' = TRUE \/ torn' = (torn \/ pc = "block")
      <4>1. ASSUME NEW o \in Disk, NEW n \in 1 .. MaxRequest, NEW v \in Value, Write(o, n, v)
            PROVE  torn' = torn
        BY <4>1 DEF Write
      <4>2. WriteTable \/ WriteBlock \/ WriteData \/ WriteBitmap \/ Fails => torn' = torn
        BY DEF WriteTable, WriteBlock, WriteData, WriteBitmap, Fails
      <4>3. BlockFails => torn' = TRUE
        BY DEF BlockFails
      <4>4. Stop => torn' = (torn \/ pc = "block")
        BY DEF Stop
      <4> QED
        BY <2>2, <4>1, <4>2, <4>3, <4>4 DEF VhdNext
    <3>2. CASE torn' = (torn \/ pc = "block")
      BY <3>2, <1>1, Zenon
    <3>3. CASE torn' = torn
      BY <3>3, <1>1
    <3>4. CASE torn' = TRUE
      BY <3>4
    <3> QED
      BY <3>1, <3>2, <3>3, <3>4
  <2> QED
    BY <2>1, <2>2
<1>3. SUFFICES ASSUME ~torn' PROVE ImageInv'
  BY <1>2 DEF VhdInv
<1>4. ~torn /\ ImageInv
  BY <1>2, <1>3 DEF VhdInv
<1>5. CASE UNCHANGED vhdVars
  BY <1>4, <1>5 DEF vhdVars, ImageInv, VhdTypeOK, TableInv, ContentInv, StoredInv, PlacedBlocks,
                    Placed, Start, Passed, First
<1>6. ASSUME NEW o \in Disk, NEW n \in 1 .. MaxRequest, NEW v \in Value, Write(o, n, v)
      PROVE  ImageInv'
  BY <1>2, <1>4, <1>6, StepWrite
<1>7. CASE WriteTable
  BY <1>4, <1>7, StepTable
<1>8. CASE WriteBlock
  BY <1>4, <1>8, StepBlock
<1>9. CASE BlockFails
  BY <1>3, <1>9 DEF BlockFails
<1>10. CASE WriteData
  BY <1>4, <1>10, StepData
<1>11. CASE WriteBitmap
  BY <1>4, <1>11, StepBitmap
<1>12. CASE Fails
  BY <1>4, <1>12, StepFails
<1>13. CASE Stop
  BY <1>3, <1>4, <1>13, StepStop
<1> QED
  BY <1>5, <1>6, <1>7, <1>8, <1>9, <1>10, <1>11, <1>12, <1>13 DEF VhdNext

(* Whatever fails, is cut short or is lost, as long as no new block is torn: the table gives
   each block a place of its own before the footer, and every sector holds what an answer
   or a request in progress allows (vhd_write, devio.c:795). *)
THEOREM VhdInductive == VhdSpec => []VhdInv
<1>1. VhdInit => VhdInv
  BY VhdInitInv
<1>2. VhdInv /\ [VhdNext]_vhdVars => VhdInv'
  BY VhdStepInv
<1> QED
  BY <1>1, <1>2, PTL DEF VhdSpec

(* The disk reads back what the answers to its writes promised (vhd_read and vhd_write). *)
THEOREM VhdReadsBack == VhdSpec => []ReadsBack
<1>1. VhdInv => ReadsBack
  <2> SUFFICES ASSUME VhdInv, ~torn, NEW o \in Disk, NEW n \in 1 .. MaxRequest,
                      o + n - 1 \in Disk, NEW i \in 1 .. n
               PROVE  Read(o, n)[i] \in may[o + i - 1]
    BY DEF ReadsBack
  <2>1. ContentInv
    BY DEF VhdInv, ImageInv
  <2>2. o \in Nat /\ MaxRequest \in Nat /\ DiskSize \in Nat
    BY SectorPlace, SizeAssumption, BlockSizes
  <2>3. o + i - 1 \in Disk
    BY <2>2 DEF Disk
  <2>4. Read(o, n)[i] = Sector(o + i - 1)
    BY DEF Read
  <2> DEFINE s == o + i - 1
  <2>5. Sector(s) = HeldIn(bat, file, s)
    BY DEF Sector, Place, HeldIn, SpotIn
  <2>6. HeldIn(bat, file, s) \in may[s]
    BY <2>1, <2>3 DEF ContentInv
  <2> QED
    BY <2>4, <2>5, <2>6
<1> QED
  BY <1>1, VhdInductive, PTL

(* No two blocks share a place and the footer ends the file: a failed or stopped write leaves
   an image that can be opened again (vhd_write, devio.c:881). *)
THEOREM VhdStaysWhole == VhdSpec => []ImageWhole
<1>1. VhdInv => ImageWhole
  <2> SUFFICES ASSUME VhdInv, ~torn PROVE ImageWhole
    BY DEF ImageWhole
  <2>1. Sound(bat, file, PlacedBlocks)
    BY DEF VhdInv, ImageInv, TableInv
  <2>2. ASSUME NEW b \in Block, NEW c \in Block, Placed(b), Placed(c), b # c
        PROVE  Taken(b) \cap Taken(c) = {}
    <3>1. bat[b] \in Nat /\ bat[c] \in Nat
      BY <2>1 DEF Sound
    <3>2. bat[b] + BlockSize < bat[c] \/ bat[c] + BlockSize < bat[b]
      BY <2>1, <2>2 DEF Sound, PlacedBlocks
    <3> QED
      BY <3>1, <3>2, BlockSizes DEF Taken
  <2>3. file[Len(file)] = Footer
    BY <2>1 DEF Sound
  <2>4. ASSUME NEW b \in Block, Placed(b) PROVE bat[b] + BlockSize < Len(file)
    BY <2>1, <2>4 DEF Sound, PlacedBlocks
  <2> QED
    BY <2>2, <2>3, <2>4 DEF ImageWhole
<1> QED
  BY <1>1, VhdInductive, PTL

=============================================================================
