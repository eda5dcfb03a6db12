---------------------------- MODULE RequestLoop ----------------------------
(***************************************************************************)
(* The service loop of MigTD in its production build (features vmcall-raw  *)
(* and policy_v2): handle_pre_mig() of bin/migtd/main.rs, the request      *)
(* intake wait_for_request()/parse_request() and the completion            *)
(* report_status() of migration/session.rs, run by the round-robin         *)
(* executor of async_runtime, against a host (VMM) that answers, confirms  *)
(* and interrupts whenever it likes.                                       *)
(*                                                                         *)
(* One CPU runs everything: a poll of a task is never preempted, and       *)
(* interrupts are only delivered inside sleep() (enable_and_hlt), between  *)
(* two sweeps of the task queue, and while a session waits to ask again    *)
(* for its quote.  The host writes shared memory at any time, so an action *)
(* below is one stretch of a poll between two reads of shared memory; the  *)
(* poll goes on until the task yields.                                     *)
(***************************************************************************)
EXTENDS Integers, Sequences, FiniteSets, Functions

CONSTANTS
  Ids,            (* migration request ids a host uses                     *)
  MaxRequests,    (* MAX_CONCURRENCY_REQUESTS                              *)
  Tasks,          (* handles of the boxed futures that serve requests      *)
  Wait,           (* handle of the task that runs wait_for_request         *)
  None,           (* Option::None                                          *)
  Answers         (* contents the host may put in a wait-for-request buffer*)

(* The fields of a filled request buffer that parse_request looks at: the  *)
(* first two bytes of datastatus, what the length field says about the     *)
(* payload, and the first eight payload bytes (always readable: the buffer *)
(* holds at least one page).                                               *)
Buffers == [status : {0, 1, 2}, operation : 0..6,
            payload : {"absent", "valid", "malformed", "outOfBounds"},
            id : Ids]

ASSUME RequestLoopAssumption ==
  /\ IsFiniteSet(Ids) /\ Ids # {}
  /\ MaxRequests \in Nat \ {0}
  /\ IsFiniteSet(Tasks) /\ Cardinality(Tasks) >= MaxRequests
  /\ Wait \notin Tasks
  /\ Answers \subseteq Buffers
  /\ None \notin Answers

VARIABLES
  REQUESTS,            (* ids of accepted requests not yet completed       *)
  PENDING_REQUEST,     (* accepted request no task serves yet, or None     *)
  VMCALL_SERVICE_FLAG, (* set by the interrupt callback of vector 0x50     *)
  waitPc,              (* where the wait task is suspended or running      *)
  data_buffer,         (* the shared buffer of the outstanding tdvmcall    *)
  taskPc,              (* progress of each serving task                    *)
  taskReq,             (* the request it serves, or None                   *)
  confirmed,           (* tasks whose report buffer the host marked done   *)
  queue,               (* the executor's VecDeque of tasks                 *)
  left,                (* tasks still to be polled in this sweep           *)
  main,                (* "sweep": in poll_tasks; "sleep": about to halt   *)
  irq,                 (* vector 0x50 pending at the local APIC            *)
  owed                 (* the host wrote memory and has not interrupted yet*)

vars == <<REQUESTS, PENDING_REQUEST, VMCALL_SERVICE_FLAG, waitPc, data_buffer,
          taskPc, taskReq, confirmed, queue, left, main, irq, owed>>

taskVars == <<taskPc, taskReq>>
hostVars == <<irq, owed>>

(* Operation codes of DataStatusOperation. *)
StartMigration == 1
StartRebinding == 2
GetTDReport    == 3
EnableLogArea  == 4
GetMigtdData   == 5

-----------------------------------------------------------------------------
(* parse_request *)

(* What parse_request makes of a buffer, REQUESTS aside: keep waiting, the *)
(* error it rejects the request with, or "Accept".  None is the header     *)
(* wait_for_request wrote itself, all zero.                                *)
ParseRequest(buf) ==
  IF buf = None \/ (buf.status = 0 /\ buf.operation = 0 /\ buf.payload = "absent")
    THEN "Pending"
  ELSE IF buf.status # 1 THEN "VmmInternalError"
  ELSE IF buf.operation \notin StartMigration..GetMigtdData
    THEN "UnsupportedOperationError"
  ELSE IF buf.payload = "outOfBounds" THEN "InvalidParameter"
  ELSE IF buf.operation = GetTDReport THEN "UnsupportedOperationError"
  ELSE IF buf.payload # "valid" THEN "InvalidParameter"
  ELSE "Accept"

Rejections == {"VmmInternalError", "UnsupportedOperationError", "InvalidParameter"}

(* Requests whose handler awaits a peer; the others end in their first poll.*)
IsSession(req) == req.operation \in {StartMigration, StartRebinding}

-----------------------------------------------------------------------------
(* The executor: poll_tasks takes the front task, polls it, and puts it    *)
(* back at the end when it is still pending.                               *)

Polled(t) == main = "sweep" /\ left > 0 /\ Head(queue) = t

DropFront ==
  /\ queue' = Tail(queue)
  /\ left' = left - 1
  /\ UNCHANGED main

PushBack ==
  /\ queue' = Append(Tail(queue), Head(queue))
  /\ left' = left - 1
  /\ UNCHANGED main

KeepPolling == UNCHANGED <<queue, left, main>>

-----------------------------------------------------------------------------
(* The wait task: loop { gate; wait_for_request; publish }                 *)

(* Seeded fault: a limit off by one. *)
GateOpenOneMore == PENDING_REQUEST = None /\ Cardinality(REQUESTS) <= MaxRequests

GateOpen == PENDING_REQUEST = None /\ Cardinality(REQUESTS) < MaxRequests

GatePending ==
  /\ Polled(Wait) /\ waitPc = "gate"
  /\ ~GateOpen
  /\ PushBack
  /\ UNCHANGED <<REQUESTS, PENDING_REQUEST, VMCALL_SERVICE_FLAG, waitPc,
                 data_buffer, taskVars, confirmed, hostVars>>

GateReady ==
  /\ Polled(Wait) /\ waitPc = "gate"
  /\ GateOpen
  /\ waitPc' = "issue"
  /\ KeepPolling
  /\ UNCHANGED <<REQUESTS, PENDING_REQUEST, VMCALL_SERVICE_FLAG,
                 data_buffer, taskVars, confirmed, hostVars>>

(* wait_for_request up to its first await: size and allocate the shared    *)
(* buffer, zero its header, hand it to the host with the service vector.   *)
WaitIssue ==
  /\ Polled(Wait) /\ waitPc = "issue"
  /\ waitPc' = "listen"
  /\ data_buffer' = None
  /\ KeepPolling
  /\ UNCHANGED <<REQUESTS, PENDING_REQUEST, VMCALL_SERVICE_FLAG,
                 taskVars, confirmed, hostVars>>

(* No policy or event log, no shared memory, or a failing tdvmcall: the    *)
(* error goes back to the loop, which tries again without yielding.        *)
WaitIssueFails ==
  /\ Polled(Wait) /\ waitPc = "issue"
  /\ waitPc' = "gate"
  /\ KeepPolling
  /\ UNCHANGED <<REQUESTS, PENDING_REQUEST, VMCALL_SERVICE_FLAG,
                 data_buffer, taskVars, confirmed, hostVars>>

(* The poll_fn of wait_for_request before it looks at the buffer. *)
ListenNoFlag ==
  /\ Polled(Wait) /\ waitPc = "listen"
  /\ ~VMCALL_SERVICE_FLAG
  /\ PushBack
  /\ UNCHANGED <<REQUESTS, PENDING_REQUEST, VMCALL_SERVICE_FLAG, waitPc,
                 data_buffer, taskVars, confirmed, hostVars>>

TakeFlag ==
  /\ Polled(Wait) /\ waitPc = "listen"
  /\ VMCALL_SERVICE_FLAG
  /\ VMCALL_SERVICE_FLAG' = FALSE

(* copy_to_private_shadow fails: the request is dropped unreported.        *)
ListenCopyFails ==
  /\ TakeFlag
  /\ waitPc' = "gate"
  /\ data_buffer' = None
  /\ KeepPolling
  /\ UNCHANGED <<REQUESTS, PENDING_REQUEST, taskVars, confirmed, hostVars>>

(* Seeded fault: the answer of BTreeSet::insert is ignored. *)
TryAcceptAlways(id) == TRUE

(* try_accept_request inserts the id; BTreeSet::insert says if it was new. *)
TryAcceptRequest(id) == id \notin REQUESTS

(* Nothing there yet, or an id already being served: wait for the next     *)
(* interrupt, with the same buffer.                                        *)
ListenPending ==
  /\ TakeFlag
  /\ \/ ParseRequest(data_buffer) = "Pending"
     \/ /\ ParseRequest(data_buffer) = "Accept"
        /\ ~TryAcceptRequest(data_buffer.id)
  /\ PushBack
  /\ UNCHANGED <<REQUESTS, PENDING_REQUEST, waitPc, data_buffer, taskVars,
                 confirmed, hostVars>>

ListenAccept ==
  /\ TakeFlag
  /\ ParseRequest(data_buffer) = "Accept"
  /\ TryAcceptRequest(data_buffer.id)
  /\ REQUESTS' = REQUESTS \cup {data_buffer.id}
  /\ PENDING_REQUEST' = data_buffer
  /\ waitPc' = "gate"
  /\ data_buffer' = None
  /\ KeepPolling
  /\ UNCHANGED <<taskVars, confirmed, hostVars>>

(* Seeded fault: a rejected request does not end the wait. *)
ListenRejectWaits ==
  /\ TakeFlag
  /\ ParseRequest(data_buffer) \in Rejections
  /\ PushBack
  /\ UNCHANGED <<REQUESTS, PENDING_REQUEST, waitPc, data_buffer, taskVars,
                 confirmed, hostVars>>

ListenReject ==
  /\ TakeFlag
  /\ ParseRequest(data_buffer) \in Rejections
  /\ waitPc' = "report"
  /\ KeepPolling
  /\ UNCHANGED <<REQUESTS, PENDING_REQUEST, data_buffer, taskVars, confirmed,
                 hostVars>>

(* report_wait_for_request_error: the wait task itself calls report_status *)
(* and stays in it until the host confirms, or returns at once on failure. *)
WaitReport ==
  /\ Polled(Wait) /\ waitPc = "report"
  /\ \/ waitPc' = "confirm" /\ UNCHANGED data_buffer
     \/ waitPc' = "gate" /\ data_buffer' = None
  /\ KeepPolling
  /\ UNCHANGED <<REQUESTS, PENDING_REQUEST, VMCALL_SERVICE_FLAG, taskVars,
                 confirmed, hostVars>>

WaitUnconfirmed ==
  /\ Polled(Wait) /\ waitPc = "confirm"
  /\ Wait \notin confirmed
  /\ PushBack
  /\ UNCHANGED <<REQUESTS, PENDING_REQUEST, VMCALL_SERVICE_FLAG, waitPc,
                 data_buffer, taskVars, confirmed, hostVars>>

WaitConfirmed ==
  /\ Polled(Wait) /\ waitPc = "confirm"
  /\ Wait \in confirmed
  /\ waitPc' = "gate"
  /\ data_buffer' = None
  /\ confirmed' = confirmed \ {Wait}
  /\ KeepPolling
  /\ UNCHANGED <<REQUESTS, PENDING_REQUEST, VMCALL_SERVICE_FLAG, taskVars,
                 hostVars>>

-----------------------------------------------------------------------------
(* A serving task: handler; report_status; REQUESTS.remove                 *)

(* exchange_msk or start_rebinding is waiting for its peer. *)
TaskAwaits(t) ==
  /\ Polled(t) /\ taskPc[t] = "run"
  /\ IsSession(taskReq[t])
  /\ PushBack
  /\ UNCHANGED <<REQUESTS, PENDING_REQUEST, VMCALL_SERVICE_FLAG, waitPc,
                 data_buffer, taskVars, confirmed, hostVars>>

(* delay_milliseconds() between two requests for a quote halts inside the  *)
(* poll of the session, with interrupts enabled.                           *)
TaskDelays(t) ==
  /\ Polled(t) /\ taskPc[t] = "run"
  /\ IsSession(taskReq[t])
  /\ irq
  /\ irq' = FALSE
  /\ VMCALL_SERVICE_FLAG' = TRUE
  /\ KeepPolling
  /\ UNCHANGED <<REQUESTS, PENDING_REQUEST, waitPc, data_buffer, taskVars,
                 confirmed, owed>>

(* The handler returned Ok or Err: report_status sends its outcome. *)
TaskReports(t) ==
  /\ Polled(t) /\ taskPc[t] = "run"
  /\ taskPc' = [taskPc EXCEPT ![t] = "confirm"]
  /\ KeepPolling
  /\ UNCHANGED <<REQUESTS, PENDING_REQUEST, VMCALL_SERVICE_FLAG, waitPc,
                 data_buffer, taskReq, confirmed, hostVars>>

TaskUnconfirmed(t) ==
  /\ Polled(t) /\ taskPc[t] = "confirm"
  /\ t \notin confirmed
  /\ PushBack
  /\ UNCHANGED <<REQUESTS, PENDING_REQUEST, VMCALL_SERVICE_FLAG, waitPc,
                 data_buffer, taskVars, confirmed, hostVars>>

(* Seeded fault: the id is not removed. *)
RemoveNothing(id) == REQUESTS

(* What the last statement of the task does to REQUESTS. *)
RemoveRequest(id) == REQUESTS \ {id}

(* The future is done: its id is free again, its report buffer is freed    *)
(* and the executor drops it.                                              *)
TaskEnds(t) ==
  /\ REQUESTS' = RemoveRequest(taskReq[t].id)
  /\ taskPc' = [taskPc EXCEPT ![t] = "none"]
  /\ taskReq' = [taskReq EXCEPT ![t] = None]
  /\ confirmed' = confirmed \ {t}
  /\ DropFront
  /\ UNCHANGED <<PENDING_REQUEST, VMCALL_SERVICE_FLAG, waitPc, data_buffer,
                 hostVars>>

(* Seeded fault: any wake-up counts as the confirmation. *)
TaskConfirmedByWake(t) ==
  /\ Polled(t) /\ taskPc[t] = "confirm"
  /\ TaskEnds(t)

TaskConfirmed(t) ==
  /\ Polled(t) /\ taskPc[t] = "confirm"
  /\ t \in confirmed
  /\ TaskEnds(t)

(* report_status failed before the host saw it; the error is only logged.  *)
TaskReportFails(t) ==
  /\ Polled(t) /\ taskPc[t] = "run"
  /\ TaskEnds(t)

-----------------------------------------------------------------------------
(* The main loop around poll_tasks *)

SweepDone == main = "sweep" /\ left = 0

(* Seeded fault: the limit is checked again, counting the new request.     *)
SpawnTaskBelowLimit ==
  /\ SweepDone
  /\ PENDING_REQUEST # None
  /\ \E t \in Tasks :
       /\ taskPc[t] = "none"
       /\ IF Cardinality(REQUESTS) < MaxRequests
            THEN /\ taskPc' = [taskPc EXCEPT ![t] = "run"]
                 /\ taskReq' = [taskReq EXCEPT ![t] = PENDING_REQUEST]
                 /\ queue' = Append(queue, t)
            ELSE UNCHANGED <<taskPc, taskReq, queue>>
  /\ PENDING_REQUEST' = None
  /\ main' = "sleep"
  /\ UNCHANGED <<REQUESTS, VMCALL_SERVICE_FLAG, waitPc, data_buffer, confirmed,
                 left, hostVars>>

(* PENDING_REQUEST.take() found a request: a task is added for it.         *)
SpawnTask ==
  /\ SweepDone
  /\ PENDING_REQUEST # None
  /\ \E t \in Tasks :
       /\ taskPc[t] = "none"
       /\ taskPc' = [taskPc EXCEPT ![t] = "run"]
       /\ taskReq' = [taskReq EXCEPT ![t] = PENDING_REQUEST]
       /\ queue' = Append(queue, t)
  /\ PENDING_REQUEST' = None
  /\ main' = "sleep"
  /\ UNCHANGED <<REQUESTS, VMCALL_SERVICE_FLAG, waitPc, data_buffer, confirmed,
                 left, hostVars>>

NothingToSpawn ==
  /\ SweepDone
  /\ PENDING_REQUEST = None
  /\ main' = "sleep"
  /\ UNCHANGED <<REQUESTS, PENDING_REQUEST, VMCALL_SERVICE_FLAG, waitPc,
                 data_buffer, taskVars, confirmed, queue, left, hostVars>>

(* What the for loop of poll_tasks counts, and a fault that counts one more. *)
SweepLengthOneMore == Len(queue) + 1
SweepLength == Len(queue)

(* sleep(): halt with interrupts enabled until one arrives.  The service   *)
(* vector runs its callback; the periodic tick wakes the CPU without it.   *)
SleepWakes ==
  /\ main = "sleep"
  /\ VMCALL_SERVICE_FLAG' = (VMCALL_SERVICE_FLAG \/ irq)
  /\ irq' = FALSE
  /\ main' = "sweep"
  /\ left' = SweepLength
  /\ UNCHANGED <<REQUESTS, PENDING_REQUEST, waitPc, data_buffer, taskVars,
                 confirmed, queue, owed>>

-----------------------------------------------------------------------------
(* The host *)

(* It fills the buffer of the outstanding wait-for-request, once; the id   *)
(* may be one whose request is in flight.                                  *)
HostAnswers ==
  /\ waitPc = "listen" /\ data_buffer = None
  /\ data_buffer' \in Answers
  /\ owed' = TRUE
  /\ UNCHANGED <<REQUESTS, PENDING_REQUEST, VMCALL_SERVICE_FLAG, waitPc,
                 taskVars, confirmed, queue, left, main, irq>>

Reporting(t) == IF t = Wait THEN waitPc = "confirm" ELSE taskPc[t] = "confirm"

(* It marks a status report as received. *)
HostConfirms(t) ==
  /\ Reporting(t) /\ t \notin confirmed
  /\ confirmed' = confirmed \cup {t}
  /\ owed' = TRUE
  /\ UNCHANGED <<REQUESTS, PENDING_REQUEST, VMCALL_SERVICE_FLAG, waitPc,
                 data_buffer, taskVars, queue, left, main, irq>>

(* It raises the service vector, for what it wrote or for no reason.       *)
HostInterrupts ==
  /\ ~irq
  /\ irq' = TRUE
  /\ owed' = FALSE
  /\ UNCHANGED <<REQUESTS, PENDING_REQUEST, VMCALL_SERVICE_FLAG, waitPc,
                 data_buffer, taskVars, confirmed, queue, left, main>>

-----------------------------------------------------------------------------
Init ==
  /\ REQUESTS = {}
  /\ PENDING_REQUEST = None
  /\ VMCALL_SERVICE_FLAG = FALSE
  /\ waitPc = "gate"
  /\ data_buffer = None
  /\ taskPc = [t \in Tasks |-> "none"]
  /\ taskReq = [t \in Tasks |-> None]
  /\ confirmed = {}
  /\ queue = <<Wait>>
  /\ left = 1
  /\ main = "sweep"
  /\ irq = FALSE
  /\ owed = FALSE

WaitStep ==
  \/ GatePending \/ GateReady
  \/ WaitIssue \/ WaitIssueFails
  \/ ListenNoFlag \/ ListenCopyFails \/ ListenPending \/ ListenAccept \/ ListenReject
  \/ WaitReport \/ WaitUnconfirmed \/ WaitConfirmed

TaskStep(t) ==
  \/ TaskAwaits(t) \/ TaskDelays(t) \/ TaskReports(t)
  \/ TaskUnconfirmed(t) \/ TaskConfirmed(t) \/ TaskReportFails(t)

MainStep == SpawnTask \/ NothingToSpawn \/ SleepWakes

CpuStep == WaitStep \/ (\E t \in Tasks : TaskStep(t)) \/ MainStep

HostStep ==
  \/ HostAnswers
  \/ \E t \in Tasks \cup {Wait} : HostConfirms(t)
  \/ HostInterrupts

Next == CpuStep \/ HostStep

Spec == Init /\ [][Next]_vars

-----------------------------------------------------------------------------
(* Fairness.  The CPU keeps running (the tick ends every halt).  Handlers  *)
(* of sessions wait under with_timeout, so a handler polled again and      *)
(* again ends.  The host eventually accepts a wait-for-request, confirms   *)
(* the reports it receives and interrupts after writing.                   *)
Fairness ==
  /\ WF_vars(CpuStep)
  /\ \A t \in Tasks : SF_vars(TaskReports(t) \/ TaskReportFails(t))
  /\ SF_vars(WaitIssue)
  /\ \A t \in Tasks \cup {Wait} : WF_vars(HostConfirms(t))
  /\ WF_vars(owed /\ HostInterrupts)

FairSpec == Spec /\ Fairness

-----------------------------------------------------------------------------
(* Properties *)

Live == {t \in Tasks : taskPc[t] # "none"}

Accepted == {b \in Answers : ParseRequest(b) = "Accept"}

(* Every variable has the type its Rust declaration gives it. *)
TypeOK ==
  /\ REQUESTS \in SUBSET Ids
  /\ PENDING_REQUEST \in Accepted \cup {None}
  /\ VMCALL_SERVICE_FLAG \in BOOLEAN
  /\ waitPc \in {"gate", "issue", "listen", "report", "confirm"}
  /\ data_buffer \in Answers \cup {None}
  /\ taskPc \in [Tasks -> {"none", "run", "confirm"}]
  /\ taskReq \in [Tasks -> Accepted \cup {None}]
  /\ confirmed \in SUBSET (Tasks \cup {Wait})
  /\ queue \in Seq(Tasks \cup {Wait})
  /\ left \in 0..Len(queue)
  /\ main \in {"sweep", "sleep"}
  /\ irq \in BOOLEAN
  /\ owed \in BOOLEAN

(* handle_pre_mig checks REQUESTS.len() < MAX_CONCURRENCY_REQUESTS before  *)
(* it awaits wait_for_request, and the id is inserted only after that      *)
(* await: still no more than MAX_CONCURRENCY_REQUESTS are ever in flight.  *)
CapacityRespected == Cardinality(REQUESTS) <= MaxRequests

(* What the gate established still holds when wait_for_request inserts an  *)
(* id, however long it was suspended: the slot for the request is free and *)
(* there is room in REQUESTS.                                              *)
RoomKeptWhileWaiting ==
  waitPc # "gate" => PENDING_REQUEST = None /\ Cardinality(REQUESTS) < MaxRequests

(* REQUESTS holds exactly the ids that are served: every accepted id is    *)
(* owned by PENDING_REQUEST or by a live task, no two owners share an id,  *)
(* and no id outlives its owner.  A duplicate let in, a missed remove or a *)
(* remove by the wrong task each break it.                                 *)
OneOwnerPerRequest ==
  /\ REQUESTS = {taskReq[t].id : t \in Live}
                  \cup (IF PENDING_REQUEST = None THEN {} ELSE {PENDING_REQUEST.id})
  /\ \A t \in Live : PENDING_REQUEST # None => taskReq[t].id # PENDING_REQUEST.id
  /\ \A t, u \in Live : taskReq[t].id = taskReq[u].id => t = u

(* "The async task waiting for VMM response is always in the queue"        *)
(* (main.rs): the executor holds the wait task and every live task once,   *)
(* whatever was popped, pushed back or dropped.                            *)
QueueHoldsEveryTask ==
  /\ Range(queue) = Live \cup {Wait}
  /\ IsInjective(queue)

(* An accepted request waiting in PENDING_REQUEST is never overwritten:    *)
(* it only leaves to a task that serves that very request.                 *)
PendingHandedOver ==
  [][PENDING_REQUEST # None /\ PENDING_REQUEST' # PENDING_REQUEST
     => /\ PENDING_REQUEST' = None
        /\ \E t \in Tasks : taskPc[t] = "none" /\ taskReq'[t] = PENDING_REQUEST]_vars

(* An id leaves REQUESTS only when the task that serves it had its report  *)
(* confirmed by the host or could not send it: a confirmation meant for    *)
(* another report, or an interrupt alone, frees nothing.                   *)
ReleasedByItsTask ==
  [][\A id \in REQUESTS \ REQUESTS' : \E t \in Live :
       /\ taskReq[t].id = id /\ taskPc'[t] = "none"
       /\ taskPc[t] = "confirm" => t \in confirmed]_vars

(* Every accepted request is completed: its id is eventually released.     *)
EveryRequestCompletes == \A id \in Ids : id \in REQUESTS ~> id \notin REQUESTS

(* A request the host has put into the buffer is not being served yet.     *)
NewAnswer ==
  /\ waitPc = "listen"
  /\ ParseRequest(data_buffer) # "Pending"
  /\ data_buffer.id \notin REQUESTS

(* An answer of the host is looked at: with one flag for requests and      *)
(* report confirmations, no interleaving of their interrupts leaves        *)
(* wait_for_request parked on a filled buffer that was announced.          *)
AnswersArePickedUp ==
  (NewAnswer /\ (owed \/ irq \/ VMCALL_SERVICE_FLAG)) ~> (waitPc # "listen")

=============================================================================
