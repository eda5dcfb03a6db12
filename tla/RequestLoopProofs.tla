------------------------- MODULE RequestLoopProofs -------------------------
(* Machine-checked proofs about RequestLoop, for every set of ids, every   *)
(* concurrency limit and every answer of the host.                         *)
EXTENDS RequestLoop, FiniteSetTheorems, SequenceTheorems, TLAPS

-----------------------------------------------------------------------------
(* The three things the executor does to its queue. *)

(* Moving the front task to the back keeps the tasks, each once. *)
LEMMA RotateKeepsTasks ==
  ASSUME NEW S, NEW q \in Seq(S), q # <<>>, IsInjective(q)
  PROVE  /\ Append(Tail(q), Head(q)) \in Seq(S)
         /\ Len(Append(Tail(q), Head(q))) = Len(q)
         /\ Range(Append(Tail(q), Head(q))) = Range(q)
         /\ IsInjective(Append(Tail(q), Head(q)))
<1> DEFINE r == Append(Tail(q), Head(q))
           n == Len(q)
<1>1. /\ Head(q) \in S /\ Tail(q) \in Seq(S) /\ Len(Tail(q)) = n - 1
      /\ \A i \in 1..Len(Tail(q)) : Tail(q)[i] = q[i+1]
      /\ n \in Nat \ {0} /\ DOMAIN q = 1..n /\ Head(q) = q[1]
  BY HeadTailProperties, EmptySeq, LenProperties
<1>2. /\ r \in Seq(S) /\ Len(r) = n
      /\ \A i \in 1..(n - 1) : r[i] = q[i+1]
      /\ r[n] = q[1]
  BY <1>1, AppendProperties
<1>3. DOMAIN r = 1..n
  BY <1>2, LenProperties
<1> HIDE DEF r, n
<1>4. Range(r) = Range(q)
  <2>1. ASSUME NEW i \in 1..n PROVE \E j \in 1..n : r[i] = q[j]
    BY <1>1, <1>2
  <2>2. ASSUME NEW i \in 1..n PROVE \E j \in 1..n : q[i] = r[j]
    <3>1. CASE i = 1
      BY <3>1, <1>1, <1>2
    <3>2. CASE i # 1
      <4>1. i - 1 \in 1..(n - 1) /\ (i - 1) + 1 = i /\ i - 1 \in 1..n
        BY <3>2, <1>1
      <4> QED BY <4>1, <1>2
    <3> QED BY <3>1, <3>2
  <2>3. Range(r) = {r[i] : i \in 1..n} /\ Range(q) = {q[i] : i \in 1..n}
    BY <1>1, <1>3, Zenon DEF Range
  <2> QED BY <2>1, <2>2, <2>3
<1>5. IsInjective(r)
  <2> SUFFICES ASSUME NEW i \in 1..n, NEW j \in 1..n, r[i] = r[j]
               PROVE  i = j
    BY <1>3 DEF IsInjective
  <2>1. \A k, l \in 1..n : q[k] = q[l] => k = l
    BY <1>1 DEF IsInjective
  <2> QED BY <1>1, <1>2, <2>1
<1> QED BY <1>2, <1>4, <1>5 DEF r, n

(* Dropping the front task removes that task and no other. *)
LEMMA TailDropsOneTask ==
  ASSUME NEW S, NEW q \in Seq(S), q # <<>>, IsInjective(q)
  PROVE  /\ Tail(q) \in Seq(S)
         /\ Len(Tail(q)) = Len(q) - 1
         /\ Range(Tail(q)) = Range(q) \ {Head(q)}
         /\ IsInjective(Tail(q))
<1>1. /\ Tail(q) \in Seq(S) /\ Len(Tail(q)) = Len(q) - 1
      /\ \A i \in 1..(Len(q) - 1) : Tail(q)[i] = q[i+1]
      /\ Len(q) \in Nat \ {0} /\ DOMAIN q = 1..Len(q) /\ Head(q) = q[1]
  BY HeadTailProperties, EmptySeq, LenProperties
<1>2. DOMAIN Tail(q) = 1..(Len(q) - 1)
  BY <1>1, LenProperties
<1>3. Range(Tail(q)) = Range(q) \ {Head(q)}
  <2>1. ASSUME NEW i \in 1..(Len(q) - 1) PROVE Tail(q)[i] \in Range(q) \ {Head(q)}
    BY <1>1 DEF Range, IsInjective
  <2>2. ASSUME NEW i \in 1..Len(q), q[i] # Head(q) PROVE q[i] \in Range(Tail(q))
    <3>1. i - 1 \in 1..(Len(q) - 1) /\ (i - 1) + 1 = i
      BY <1>1, <2>2
    <3> QED BY <3>1, <1>1, <1>2 DEF Range
  <2> QED BY <2>1, <2>2, <1>1, <1>2 DEF Range
<1>4. IsInjective(Tail(q))
  BY <1>1, <1>2 DEF IsInjective
<1> QED BY <1>1, <1>3, <1>4

(* Adding a task that is not in the queue adds exactly that task. *)
LEMMA AppendAddsOneTask ==
  ASSUME NEW S, NEW q \in Seq(S), NEW x \in S, x \notin Range(q), IsInjective(q)
  PROVE  /\ Append(q, x) \in Seq(S)
         /\ Len(Append(q, x)) = Len(q) + 1
         /\ Range(Append(q, x)) = Range(q) \cup {x}
         /\ IsInjective(Append(q, x))
<1>1. /\ Append(q, x) \in Seq(S) /\ Len(Append(q, x)) = Len(q) + 1
      /\ \A i \in 1..Len(q) : Append(q, x)[i] = q[i]
      /\ Append(q, x)[Len(q) + 1] = x
      /\ Len(q) \in Nat /\ DOMAIN q = 1..Len(q)
  BY AppendProperties, LenProperties
<1>2. DOMAIN Append(q, x) = 1..(Len(q) + 1)
  BY <1>1, LenProperties
<1>3. Range(Append(q, x)) = Range(q) \cup {x}
  BY <1>1, <1>2 DEF Range
<1>4. IsInjective(Append(q, x))
  BY <1>1, <1>2 DEF Range, IsInjective
<1> QED BY <1>1, <1>3, <1>4

-----------------------------------------------------------------------------
(* The inductive invariant.  CapacityRespected alone is not inductive: the *)
(* limit is checked at the gate and used after an await, so the invariant  *)
(* must say that the room the gate saw is still there while the wait task  *)
(* is past it.  OneOwnerPerRequest needs to know which tasks have a        *)
(* request, and that the pending slot is free when an id is accepted.      *)

ServedWhenLive == \A t \in Tasks : taskPc[t] = "none" <=> taskReq[t] = None

IInv ==
  /\ TypeOK
  /\ ServedWhenLive
  /\ QueueHoldsEveryTask
  /\ OneOwnerPerRequest
  /\ RoomKeptWhileWaiting
  /\ CapacityRespected

-----------------------------------------------------------------------------
(* What the steps have in common *)

(* A task is only polled from a non-empty queue. *)
LEMMA PolledFacts ==
  ASSUME NEW t, TypeOK, Polled(t)
  PROVE  /\ queue \in Seq(Tasks \cup {Wait}) /\ queue # <<>>
         /\ Len(queue) \in Nat /\ left \in 1..Len(queue)
         /\ main = "sweep" /\ Head(queue) = t
BY EmptySeq, LenProperties DEF TypeOK, Polled

(* A poll that ends Pending keeps the queue well-formed. *)
LEMMA PushBackKeepsQueue ==
  ASSUME NEW t, TypeOK, QueueHoldsEveryTask, Polled(t), PushBack, UNCHANGED taskPc
  PROVE  /\ queue' \in Seq(Tasks \cup {Wait}) /\ left' \in 0..Len(queue')
         /\ main' \in {"sweep", "sleep"}
         /\ QueueHoldsEveryTask'
<1>1. /\ queue' \in Seq(Tasks \cup {Wait}) /\ Len(queue') = Len(queue)
      /\ Range(queue') = Range(queue) /\ IsInjective(queue')
  BY PolledFacts, RotateKeepsTasks DEF QueueHoldsEveryTask, PushBack
<1> QED BY <1>1, PolledFacts DEF QueueHoldsEveryTask, PushBack, Live

(* A poll that goes on leaves the queue as it is. *)
LEMMA KeepPollingKeepsQueue ==
  ASSUME TypeOK, QueueHoldsEveryTask, KeepPolling, UNCHANGED taskPc
  PROVE  /\ queue' \in Seq(Tasks \cup {Wait}) /\ left' \in 0..Len(queue')
         /\ main' \in {"sweep", "sleep"}
         /\ QueueHoldsEveryTask'
BY DEF TypeOK, QueueHoldsEveryTask, KeepPolling, Live

(* Steps that accept and release nothing keep every owner. *)
LEMMA OwnersUntouched ==
  ASSUME IInv, UNCHANGED <<REQUESTS, PENDING_REQUEST, taskPc, taskReq>>
  PROVE  ServedWhenLive' /\ OneOwnerPerRequest' /\ CapacityRespected'
BY DEF IInv, ServedWhenLive, OneOwnerPerRequest, CapacityRespected, Live

(* A request parse_request accepts carries an id. *)
LEMMA AcceptedHasId ==
  /\ \A b \in Accepted : b # None /\ b.id \in Ids
  /\ \A b \in Answers \cup {None} : ParseRequest(b) = "Accept" => b \in Accepted
<1>1. \A b \in Answers : b # None /\ b.id \in Ids
  BY RequestLoopAssumption DEF Buffers
<1>2. ParseRequest(None) # "Accept"
  BY DEF ParseRequest
<1> QED BY <1>1, <1>2 DEF Accepted

-----------------------------------------------------------------------------
(* Initial states *)

LEMMA InitIInv == Init => IInv
<1> SUFFICES ASSUME Init PROVE IInv
  OBVIOUS
<1>1. queue \in Seq(Tasks \cup {Wait}) /\ Len(queue) = 1 /\ queue[1] = Wait
  BY DEF Init
<1>2. DOMAIN queue = {1}
  BY <1>1, LenProperties
<1>3. Live = {}
  BY DEF Init, Live
<1>4. QueueHoldsEveryTask
  BY <1>1, <1>2, <1>3 DEF QueueHoldsEveryTask, Range, IsInjective
<1>5. Cardinality(REQUESTS) = 0
  BY FS_EmptySet DEF Init
<1>6. TypeOK
  <2>1. left \in 0..Len(queue)
    BY <1>1 DEF Init
  <2>2. queue \in Seq(Tasks \cup {Wait})
    BY <1>1
  <2> QED BY <2>1, <2>2, Zenon DEF Init, TypeOK
<1>7. CapacityRespected /\ RoomKeptWhileWaiting
  BY <1>5, RequestLoopAssumption DEF Init, CapacityRespected, RoomKeptWhileWaiting
<1>8. ServedWhenLive /\ OneOwnerPerRequest
  BY <1>3 DEF Init, ServedWhenLive, OneOwnerPerRequest, Live
<1> QED BY <1>4, <1>6, <1>7, <1>8 DEF IInv

-----------------------------------------------------------------------------
(* Steps of the wait task *)

LEMMA WaitStepIInv ==
  ASSUME IInv, WaitStep
  PROVE  IInv'
<1>1. CASE GatePending
  BY <1>1, PushBackKeepsQueue, OwnersUntouched
     DEF IInv, TypeOK, RoomKeptWhileWaiting, GatePending, taskVars, hostVars
<1>2. CASE GateReady
  BY <1>2, KeepPollingKeepsQueue, OwnersUntouched
     DEF IInv, TypeOK, RoomKeptWhileWaiting, GateReady, GateOpen, taskVars, hostVars
<1>3. CASE WaitIssue
  BY <1>3, KeepPollingKeepsQueue, OwnersUntouched
     DEF IInv, TypeOK, RoomKeptWhileWaiting, WaitIssue, taskVars, hostVars
<1>4. CASE WaitIssueFails
  BY <1>4, KeepPollingKeepsQueue, OwnersUntouched
     DEF IInv, TypeOK, RoomKeptWhileWaiting, WaitIssueFails, taskVars, hostVars
<1>5. CASE ListenNoFlag
  BY <1>5, PushBackKeepsQueue, OwnersUntouched
     DEF IInv, TypeOK, RoomKeptWhileWaiting, ListenNoFlag, taskVars, hostVars
<1>6. CASE ListenCopyFails
  BY <1>6, KeepPollingKeepsQueue, OwnersUntouched
     DEF IInv, TypeOK, RoomKeptWhileWaiting, ListenCopyFails, TakeFlag, taskVars, hostVars
<1>7. CASE ListenPending
  BY <1>7, PushBackKeepsQueue, OwnersUntouched
     DEF IInv, TypeOK, RoomKeptWhileWaiting, ListenPending, TakeFlag, taskVars, hostVars
<1>8. CASE ListenAccept
  <2>1. /\ data_buffer \in Accepted /\ data_buffer.id \in Ids /\ data_buffer # None
        /\ data_buffer.id \notin REQUESTS
    BY <1>8, AcceptedHasId DEF IInv, TypeOK, ListenAccept, TryAcceptRequest
  <2>2. PENDING_REQUEST = None /\ Cardinality(REQUESTS) < MaxRequests
    BY <1>8 DEF IInv, RoomKeptWhileWaiting, ListenAccept, TakeFlag
  <2>3. TypeOK' /\ QueueHoldsEveryTask' /\ ServedWhenLive' /\ RoomKeptWhileWaiting'
    BY <1>8, <2>1, KeepPollingKeepsQueue
       DEF IInv, TypeOK, ListenAccept, TakeFlag, ServedWhenLive,
           RoomKeptWhileWaiting, taskVars, hostVars
  <2>4. OneOwnerPerRequest'
    BY <1>8, <2>1, <2>2 DEF IInv, OneOwnerPerRequest, ListenAccept, Live, taskVars
  <2>5. CapacityRespected'
    <3>1. IsFiniteSet(REQUESTS)
      BY FS_Subset, RequestLoopAssumption DEF IInv, TypeOK
    <3>2. Cardinality(REQUESTS') = Cardinality(REQUESTS) + 1 /\ Cardinality(REQUESTS) \in Nat
      BY <1>8, <2>1, <3>1, FS_AddElement, FS_CardinalityType DEF ListenAccept
    <3> QED BY <2>2, <3>2, RequestLoopAssumption DEF CapacityRespected
  <2> QED BY <2>3, <2>4, <2>5 DEF IInv
<1>9. CASE ListenReject
  BY <1>9, KeepPollingKeepsQueue, OwnersUntouched
     DEF IInv, TypeOK, RoomKeptWhileWaiting, ListenReject, TakeFlag, taskVars, hostVars
<1>10. CASE WaitReport
  BY <1>10, KeepPollingKeepsQueue, OwnersUntouched
     DEF IInv, TypeOK, RoomKeptWhileWaiting, WaitReport, taskVars, hostVars
<1>11. CASE WaitUnconfirmed
  BY <1>11, PushBackKeepsQueue, OwnersUntouched
     DEF IInv, TypeOK, RoomKeptWhileWaiting, WaitUnconfirmed, taskVars, hostVars
<1>12. CASE WaitConfirmed
  BY <1>12, KeepPollingKeepsQueue, OwnersUntouched
     DEF IInv, TypeOK, RoomKeptWhileWaiting, WaitConfirmed, taskVars, hostVars
<1> QED
  BY <1>1, <1>2, <1>3, <1>4, <1>5, <1>6, <1>7, <1>8, <1>9, <1>10, <1>11, <1>12
     DEF WaitStep

-----------------------------------------------------------------------------
(* Steps of a serving task *)

(* The end of a task frees its id and nothing else. *)
LEMMA TaskEndsIInv ==
  ASSUME NEW t \in Tasks, IInv, Polled(t), taskPc[t] # "none", TaskEnds(t)
  PROVE  IInv'
<1> DEFINE id == taskReq[t].id
<1>1. /\ taskReq[t] \in Accepted /\ id \in Ids /\ id \in REQUESTS
      /\ REQUESTS' = REQUESTS \ {id}
  BY AcceptedHasId DEF IInv, TypeOK, ServedWhenLive, OneOwnerPerRequest, TaskEnds,
     RemoveRequest, Live
<1>2. Live' = Live \ {t}
  BY DEF IInv, TypeOK, TaskEnds, Live
<1>3. /\ queue' \in Seq(Tasks \cup {Wait}) /\ Len(queue') = Len(queue) - 1
      /\ Range(queue') = Range(queue) \ {t} /\ IsInjective(queue')
  BY PolledFacts, TailDropsOneTask DEF IInv, QueueHoldsEveryTask, TaskEnds, DropFront
<1>4. QueueHoldsEveryTask'
  BY <1>2, <1>3, RequestLoopAssumption DEF IInv, QueueHoldsEveryTask
<1>5. left' \in 0..Len(queue') /\ main' \in {"sweep", "sleep"}
  BY <1>3, PolledFacts DEF IInv, TaskEnds, DropFront
<1>6. TypeOK'
  BY <1>1, <1>3, <1>5 DEF IInv, TypeOK, TaskEnds, hostVars
<1>7. ServedWhenLive'
  BY DEF IInv, TypeOK, ServedWhenLive, TaskEnds
<1>8. OneOwnerPerRequest'
  <2>1. \A u \in Live \ {t} : taskReq'[u] = taskReq[u] /\ taskReq[u].id # id
    BY DEF IInv, TypeOK, OneOwnerPerRequest, TaskEnds, Live
  <2>2. PENDING_REQUEST' = PENDING_REQUEST
        /\ (PENDING_REQUEST # None => PENDING_REQUEST.id # id)
    BY DEF IInv, OneOwnerPerRequest, TaskEnds, Live
  <2> QED BY <1>1, <1>2, <2>1, <2>2 DEF IInv, OneOwnerPerRequest
<1>9. CapacityRespected' /\ RoomKeptWhileWaiting'
  <2>1. IsFiniteSet(REQUESTS)
    BY FS_Subset, RequestLoopAssumption DEF IInv, TypeOK
  <2>2. Cardinality(REQUESTS') = Cardinality(REQUESTS) - 1 /\ Cardinality(REQUESTS) \in Nat
    BY <1>1, <2>1, FS_RemoveElement, FS_CardinalityType
  <2> QED BY <2>2, RequestLoopAssumption
          DEF IInv, CapacityRespected, RoomKeptWhileWaiting, TaskEnds
<1> QED BY <1>4, <1>6, <1>7, <1>8, <1>9 DEF IInv

LEMMA TaskStepIInv ==
  ASSUME NEW t \in Tasks, IInv, TaskStep(t)
  PROVE  IInv'
<1>1. CASE TaskAwaits(t)
  BY <1>1, PushBackKeepsQueue, OwnersUntouched
     DEF IInv, TypeOK, RoomKeptWhileWaiting, TaskAwaits, taskVars, hostVars
<1>2. CASE TaskReports(t)
  <2>1. Live' = Live /\ (\A u \in Tasks : taskPc'[u] = "none" <=> taskPc[u] = "none")
    BY <1>2 DEF IInv, TypeOK, TaskReports, Live
  <2>2. TypeOK' /\ QueueHoldsEveryTask'
    BY <1>2, <2>1 DEF IInv, TypeOK, QueueHoldsEveryTask, TaskReports, KeepPolling, hostVars
  <2>3. ServedWhenLive' /\ OneOwnerPerRequest' /\ CapacityRespected' /\ RoomKeptWhileWaiting'
    BY <1>2, <2>1 DEF IInv, ServedWhenLive, OneOwnerPerRequest, CapacityRespected,
       RoomKeptWhileWaiting, TaskReports
  <2> QED BY <2>2, <2>3 DEF IInv
<1>3. CASE TaskUnconfirmed(t)
  BY <1>3, PushBackKeepsQueue, OwnersUntouched
     DEF IInv, TypeOK, RoomKeptWhileWaiting, TaskUnconfirmed, taskVars, hostVars
<1>4. CASE TaskConfirmed(t)
  BY <1>4, TaskEndsIInv DEF TaskConfirmed
<1>5. CASE TaskReportFails(t)
  BY <1>5, TaskEndsIInv DEF TaskReportFails
<1>6. CASE TaskDelays(t)
  <2>1. Live' = Live
    BY <1>6 DEF TaskDelays, taskVars, Live
  <2>2. TypeOK' /\ QueueHoldsEveryTask'
    BY <1>6, <2>1 DEF IInv, TypeOK, QueueHoldsEveryTask, TaskDelays, KeepPolling, taskVars
  <2>3. ServedWhenLive' /\ OneOwnerPerRequest' /\ CapacityRespected' /\ RoomKeptWhileWaiting'
    BY <1>6, <2>1 DEF IInv, ServedWhenLive, OneOwnerPerRequest, CapacityRespected,
       RoomKeptWhileWaiting, TaskDelays, taskVars
  <2> QED BY <2>2, <2>3 DEF IInv
<1> QED
  BY <1>1, <1>2, <1>3, <1>4, <1>5, <1>6 DEF TaskStep

-----------------------------------------------------------------------------
(* Steps of the main loop and of the host *)

(* The pending request becomes the request of a task that served none. *)
LEMMA SpawnTaskIInv ==
  ASSUME IInv, SpawnTask
  PROVE  IInv'
<1> PICK t \in Tasks :
      /\ taskPc[t] = "none"
      /\ taskPc' = [taskPc EXCEPT ![t] = "run"]
      /\ taskReq' = [taskReq EXCEPT ![t] = PENDING_REQUEST]
      /\ queue' = Append(queue, t)
  BY DEF SpawnTask
<1>1. Live' = Live \cup {t} /\ t \notin Live
  BY DEF IInv, TypeOK, Live
<1>2. /\ queue' \in Seq(Tasks \cup {Wait}) /\ Len(queue') = Len(queue) + 1
      /\ Range(queue') = Range(queue) \cup {t} /\ IsInjective(queue')
  BY <1>1, AppendAddsOneTask, RequestLoopAssumption DEF IInv, TypeOK, QueueHoldsEveryTask
<1>3. QueueHoldsEveryTask'
  BY <1>1, <1>2 DEF IInv, QueueHoldsEveryTask
<1>4. left' \in 0..Len(queue') /\ main' \in {"sweep", "sleep"}
  BY <1>2, LenProperties DEF IInv, TypeOK, SpawnTask
<1>5. TypeOK'
  BY <1>2, <1>4 DEF IInv, TypeOK, SpawnTask, hostVars
<1>6. ServedWhenLive'
  BY DEF IInv, TypeOK, ServedWhenLive, SpawnTask
<1>7. OneOwnerPerRequest'
  <2>1. taskReq'[t] = PENDING_REQUEST /\ \A u \in Live : taskReq'[u] = taskReq[u]
    BY <1>1 DEF IInv, TypeOK, Live
  <2> QED BY <1>1, <2>1 DEF IInv, OneOwnerPerRequest, SpawnTask
<1>8. CapacityRespected' /\ RoomKeptWhileWaiting'
  BY DEF IInv, CapacityRespected, RoomKeptWhileWaiting, SpawnTask
<1> QED BY <1>3, <1>5, <1>6, <1>7, <1>8 DEF IInv

LEMMA MainStepIInv ==
  ASSUME IInv, MainStep
  PROVE  IInv'
<1>1. CASE SpawnTask
  BY <1>1, SpawnTaskIInv
<1>2. CASE NothingToSpawn
  BY <1>2, OwnersUntouched DEF IInv, TypeOK, RoomKeptWhileWaiting, QueueHoldsEveryTask,
     Live, NothingToSpawn, taskVars, hostVars
<1>3. CASE SleepWakes
  <2>1. left' \in 0..Len(queue')
    BY <1>3, LenProperties DEF IInv, TypeOK, SleepWakes, SweepLength
  <2>2. VMCALL_SERVICE_FLAG' \in BOOLEAN
    BY <1>3 DEF IInv, TypeOK, SleepWakes
  <2> QED BY <1>3, <2>1, <2>2, OwnersUntouched DEF IInv, TypeOK, RoomKeptWhileWaiting,
     QueueHoldsEveryTask, Live, SleepWakes, taskVars
<1> QED
  BY <1>1, <1>2, <1>3 DEF MainStep

LEMMA HostStepIInv ==
  ASSUME IInv, HostStep
  PROVE  IInv'
<1> USE OwnersUntouched DEF IInv, TypeOK, RoomKeptWhileWaiting, QueueHoldsEveryTask, Live,
      taskVars
<1>1. CASE HostAnswers
  BY <1>1 DEF HostAnswers
<1>2. ASSUME NEW t \in Tasks \cup {Wait}, HostConfirms(t)
      PROVE  IInv'
  BY <1>2 DEF HostConfirms
<1>3. CASE HostInterrupts
  BY <1>3 DEF HostInterrupts
<1> QED
  BY <1>1, <1>2, <1>3 DEF HostStep

-----------------------------------------------------------------------------
(* The invariant is kept by every step of the CPU and of the host. *)
LEMMA NextIInv == IInv /\ [Next]_vars => IInv'
<1> SUFFICES ASSUME IInv, [Next]_vars PROVE IInv'
  OBVIOUS
<1>1. CASE WaitStep
  BY <1>1, WaitStepIInv
<1>2. ASSUME NEW t \in Tasks, TaskStep(t) PROVE IInv'
  BY <1>2, TaskStepIInv
<1>3. CASE MainStep
  BY <1>3, MainStepIInv
<1>4. CASE HostStep
  BY <1>4, HostStepIInv
<1>5. CASE UNCHANGED vars
  BY <1>5 DEF vars, IInv, TypeOK, ServedWhenLive, QueueHoldsEveryTask, OneOwnerPerRequest,
     RoomKeptWhileWaiting, CapacityRespected, Live
<1> QED
  BY <1>1, <1>2, <1>3, <1>4, <1>5 DEF Next, CpuStep

(* The inductive invariant holds in every reachable state of the loop. *)
THEOREM Invariance == Spec => []IInv
<1> QED BY InitIInv, NextIInv, PTL DEF Spec

(* Every variable of the loop keeps its type. *)
THEOREM TypeCorrect == Spec => []TypeOK
<1>1. IInv => TypeOK
  BY DEF IInv
<1> QED BY <1>1, Invariance, PTL

(* However the host times its answers, REQUESTS never outgrows             *)
(* MAX_CONCURRENCY_REQUESTS: the check handle_pre_mig makes before         *)
(* awaiting wait_for_request is not stale when the id is inserted.         *)
THEOREM Capacity == Spec => [](CapacityRespected /\ RoomKeptWhileWaiting)
<1>1. IInv => CapacityRespected /\ RoomKeptWhileWaiting
  BY DEF IInv
<1> QED BY <1>1, Invariance, PTL

(* Every id in REQUESTS is served by exactly one task or is about to be,   *)
(* also when the host repeats the id of a request in flight.               *)
THEOREM Ownership == Spec => []OneOwnerPerRequest
<1>1. IInv => OneOwnerPerRequest
  BY DEF IInv
<1> QED BY <1>1, Invariance, PTL

(* The executor never loses or duplicates a task; the wait task stays in   *)
(* the queue for ever.                                                     *)
THEOREM QueueComplete == Spec => []QueueHoldsEveryTask
<1>1. IInv => QueueHoldsEveryTask
  BY DEF IInv
<1> QED BY <1>1, Invariance, PTL

(* An accepted request waiting for a task is handed to one, never lost or  *)
(* overwritten by the next request.                                        *)
THEOREM HandOver == Spec => PendingHandedOver
<1> DEFINE A == PENDING_REQUEST # None /\ PENDING_REQUEST' # PENDING_REQUEST
                => /\ PENDING_REQUEST' = None
                   /\ \E t \in Tasks : taskPc[t] = "none" /\ taskReq'[t] = PENDING_REQUEST
<1>1. ASSUME IInv, [Next]_vars PROVE [A]_vars
  <2>1. CASE SpawnTask
    BY <1>1, <2>1 DEF SpawnTask, IInv, TypeOK
  <2>2. CASE ListenAccept
    BY <1>1, <2>2 DEF ListenAccept, TakeFlag, IInv, RoomKeptWhileWaiting
  <2>3. CASE ~SpawnTask /\ ~ListenAccept
    <3>1. UNCHANGED PENDING_REQUEST
      BY <1>1, <2>3 DEF Next, CpuStep, WaitStep, TaskStep, MainStep, HostStep, vars,
         GatePending, GateReady, WaitIssue, WaitIssueFails, ListenNoFlag, ListenCopyFails,
         ListenPending, ListenReject, WaitReport, WaitUnconfirmed, WaitConfirmed,
         TaskAwaits, TaskDelays, TaskReports, TaskUnconfirmed, TaskConfirmed, TaskReportFails, TaskEnds,
         NothingToSpawn, SleepWakes, HostAnswers, HostConfirms, HostInterrupts
    <3> QED BY <3>1
  <2> QED BY <2>1, <2>2, <2>3
<1> QED BY <1>1, Invariance, PTL DEF Spec, PendingHandedOver

(* An id is released by the task that serves it, after the host confirmed  *)
(* that task's report or the report could not be sent.                     *)
THEOREM Release == Spec => ReleasedByItsTask
<1> DEFINE A == \A id \in REQUESTS \ REQUESTS' : \E t \in Live :
                   /\ taskReq[t].id = id /\ taskPc'[t] = "none"
                   /\ taskPc[t] = "confirm" => t \in confirmed
<1>1. ASSUME IInv, [Next]_vars PROVE [A]_vars
  <2>1. ASSUME NEW t \in Tasks, TaskConfirmed(t) \/ TaskReportFails(t) PROVE A
    BY <1>1, <2>1 DEF TaskConfirmed, TaskReportFails, TaskEnds, RemoveRequest, IInv, TypeOK,
       Live
  <2>2. CASE \A t \in Tasks : ~TaskConfirmed(t) /\ ~TaskReportFails(t)
    <3>1. REQUESTS \subseteq REQUESTS'
      BY <1>1, <2>2 DEF Next, CpuStep, WaitStep, TaskStep, MainStep, HostStep, vars,
         GatePending, GateReady, WaitIssue, WaitIssueFails, ListenNoFlag, ListenCopyFails,
         ListenPending, ListenAccept, ListenReject, WaitReport, WaitUnconfirmed,
         WaitConfirmed, TaskAwaits, TaskDelays, TaskReports, TaskUnconfirmed,
         SpawnTask, NothingToSpawn, SleepWakes, HostAnswers, HostConfirms, HostInterrupts
    <3> QED BY <3>1
  <2> QED BY <2>1, <2>2
<1> QED BY <1>1, Invariance, PTL DEF Spec, ReleasedByItsTask

=============================================================================
