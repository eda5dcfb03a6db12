------------------------------ MODULE VmcallRaw ------------------------------
(***************************************************************************)
(* The vmcall-raw transport (crate vmcall_raw): sessions of two MigTDs     *)
(* exchange byte streams through the host.  send() cuts a buffer into      *)
(* chunks of one Service.MigTD.Send each, recv() refills data_queue with   *)
(* one Service.MigTD.Receive when it is empty and copies from it.  Both    *)
(* wait on a flag of their migration request id; one interrupt sets the    *)
(* flags of ALL ids of that MigTD.                                         *)
(*                                                                         *)
(* Bytes are numbered in the order a session's callers hand them to        *)
(* send(); a packet is the interval of the numbers it carries.  Interrupts *)
(* are delivered between any two polls, which includes what sleep() does.  *)
(***************************************************************************)
EXTENDS Integers, Sequences, SequencesExt

CONSTANTS
  Ends,        (* stream ends, one per session and MigTD                     *)
  PeerOf,      (* PeerOf[e]: the other end of e's session                    *)
  NodeOf,      (* NodeOf[e]: the MigTD that runs e                           *)
  Workloads,   (* plan[e]: the calls e's session makes, none if it is absent;*)
               (* faults: the host may cancel, misanswer, refuse, interrupt; *)
               (* room: packets it buffers for an end that is not receiving  *)
  MTU          (* VMCALL_RAW_SEND_PAYLOAD_MTU                                *)

Calls == [op : {"send", "recv"}, len : Nat \ {0}]

ASSUME VmcallRawAssumption ==
  /\ PeerOf \in [Ends -> Ends]
  /\ \A e \in Ends : PeerOf[e] # e /\ PeerOf[PeerOf[e]] = e
  /\ \A w \in Workloads :
       w.plan \in [Ends -> Seq(Calls)] /\ w.faults \in BOOLEAN /\ w.room \in Nat
  /\ MTU \in Nat \ {0}

VARIABLES
  workload,    (* what the sessions do, and whether the host is faulty       *)
  contexts,    (* keys of VMCALL_MIG_CONTEXT_FLAGS, by the end that owns them*)
  flags,       (* the keys whose AtomicBool is true                          *)
  pc,          (* where the session of an end is                             *)
  calls,       (* the calls it still makes, the current one first            *)
  sent,        (* `sent` of the current send()                               *)
  used,        (* `used` of the current recv()                               *)
  buffer,      (* the shared buffer of the outstanding vmcall                *)
  data_queue,  (* packets received and not yet read                          *)
  wire,        (* packets the host holds for an end                          *)
  submitted,   (* bytes handed to send() so far                              *)
  got,         (* byte numbers recv() returned so far                        *)
  irq,         (* nodes with vector 0x52 pending                             *)
  owed         (* nodes whose memory the host wrote without interrupting yet *)

vars == <<workload, contexts, flags, pc, calls, sent, used, buffer, data_queue, wire,
          submitted, got, irq, owed>>

hostVars == <<workload, wire, irq, owed>>

(* Buffer states: what the status bytes of the header say.  "malformed" is *)
(* success with a zero length or one past the buffer.                      *)
Statuses == {"inflight", "success", "canceled", "malformed"}
NoPacket == [lo |-> 1, hi |-> 0]
Size(p) == p.hi - p.lo + 1
Idle == [status |-> "inflight", data |-> NoPacket]

Call(e) == Head(calls[e])

Waiting(e) == pc[e] \in {"sendWait", "recvWait"}

-----------------------------------------------------------------------------
(* connect() and shutdown() *)

Connect(e) ==
  /\ pc[e] = "new"
  /\ pc' = [pc EXCEPT ![e] = "idle"]
  /\ contexts' = contexts \cup {e}
  /\ flags' = flags \ {e}
  /\ UNCHANGED <<calls, sent, used, buffer, data_queue, submitted, got, hostVars>>

(* Seeded fault: shutdown() clears the whole map. *)
RemoveAllContexts(e) == {}

(* reset() removes the key of this stream. *)
RemoveContext(e) == contexts \ {e}

Shutdown(e) ==
  /\ pc[e] = "idle" /\ calls[e] = <<>>
  /\ pc' = [pc EXCEPT ![e] = "closed"]
  /\ contexts' = RemoveContext(e)
  /\ flags' = flags \cap RemoveContext(e)
  /\ UNCHANGED <<calls, sent, used, buffer, data_queue, submitted, got, hostVars>>

(* An error, or a with_timeout() around the call that expires, ends the    *)
(* session: the future and its shared buffer are dropped, the key of the   *)
(* flag map stays.                                                         *)
Fail(e) ==
  /\ pc' = [pc EXCEPT ![e] = "failed"]
  /\ buffer' = [buffer EXCEPT ![e] = Idle]
  /\ UNCHANGED <<contexts, calls, sent, used, data_queue, submitted, got, hostVars>>

(* The host can do nothing for the outstanding vmcall of e: it has no room *)
(* for the chunk, or nothing to deliver.                                   *)
Blocked(e) ==
  /\ Waiting(e) /\ buffer[e].status = "inflight"
  /\ IF pc[e] = "sendWait" THEN Len(wire[PeerOf[e]]) >= workload.room ELSE wire[e] = <<>>

(* Nothing will end the wait of e but its timeout. *)
Stuck(e) == Blocked(e) /\ (Blocked(PeerOf[e]) \/ pc[PeerOf[e]] \in {"closed", "failed"})

(* Seeded fault: only the reads are under with_timeout(). *)
TimesOutReading(e) ==
  /\ pc[e] = "recvWait" /\ (workload.faults \/ Stuck(e))
  /\ Fail(e)
  /\ UNCHANGED flags

(* PRE_SESSION_TIMEOUT, TLS_TIMEOUT and SPDM_TIMEOUT are around the sends  *)
(* as well as the reads.  Without faults they are long enough for all that *)
(* the host can relay.                                                     *)
TimesOut(e) ==
  /\ Waiting(e) /\ (workload.faults \/ Stuck(e))
  /\ Fail(e)
  /\ UNCHANGED flags

(* SharedMemory::new or the tdvmcall itself fails. *)
VmcallFails(e) ==
  /\ workload.faults
  /\ pc[e] = "send" \/ pc[e] = "recv"
  /\ Fail(e)
  /\ UNCHANGED flags

-----------------------------------------------------------------------------
(* poll_vmcall_completion *)

(* The flag is consumed before the status is read.  A stream whose key is  *)
(* missing gets VmcallRawError::Illegal instead: ContextKept below says    *)
(* that this does not happen.                                              *)
Polls(e) ==
  /\ Waiting(e)
  /\ e \in contexts /\ e \in flags
  /\ flags' = flags \ {e}

(* The interrupt was another session's, or spurious. *)
PollPending(e) ==
  /\ Polls(e)
  /\ buffer[e].status = "inflight"
  /\ UNCHANGED <<contexts, pc, calls, sent, used, buffer, data_queue, submitted,
                 got, hostVars>>

PollError(e) ==
  /\ Polls(e)
  /\ \/ buffer[e].status = "canceled"
     \/ buffer[e].status = "malformed" /\ pc[e] = "recvWait"
  /\ Fail(e)

-----------------------------------------------------------------------------
(* send() *)

SendStart(e) ==
  /\ pc[e] = "idle" /\ calls[e] # <<>> /\ Call(e).op = "send"
  /\ pc' = [pc EXCEPT ![e] = "send"]
  /\ sent' = [sent EXCEPT ![e] = 0]
  /\ submitted' = [submitted EXCEPT ![e] = @ + Call(e).len]
  /\ UNCHANGED <<contexts, flags, calls, used, buffer, data_queue, got, hostVars>>

(* `end` of the chunk that starts at `sent`. *)
ChunkEnd(e) ==
  IF Call(e).len > sent[e] + MTU THEN sent[e] + MTU ELSE Call(e).len

(* Number of the last byte before the current send() buffer. *)
Base(e) == submitted[e] - Call(e).len

(* vmcall_raw_transport_enqueue: a shared buffer with header and chunk. *)
SendChunk(e) ==
  /\ pc[e] = "send"
  /\ pc' = [pc EXCEPT ![e] = "sendWait"]
  /\ buffer' = [buffer EXCEPT ![e] =
                  [status |-> "inflight",
                   data |-> [lo |-> Base(e) + sent[e] + 1,
                             hi |-> Base(e) + ChunkEnd(e)]]]
  /\ UNCHANGED <<contexts, flags, calls, sent, used, data_queue, submitted, got,
                 hostVars>>

(* Seeded fault: `sent` advances past the byte after the chunk. *)
NextSentSkips(e) == IF ChunkEnd(e) < Call(e).len THEN ChunkEnd(e) + 1 ELSE ChunkEnd(e)

(* sent = end *)
NextSent(e) == ChunkEnd(e)

(* The chunk went out: the next one in the same poll, or send() returns.   *)
(* The length the host left in the header is not looked at.                *)
SendDone(e) ==
  /\ Polls(e) /\ pc[e] = "sendWait"
  /\ buffer[e].status = "success"
  /\ buffer' = [buffer EXCEPT ![e] = Idle]
  /\ sent' = [sent EXCEPT ![e] = NextSent(e)]
  /\ IF NextSent(e) < Call(e).len
       THEN pc' = [pc EXCEPT ![e] = "send"] /\ UNCHANGED calls
       ELSE /\ pc' = [pc EXCEPT ![e] = "idle"]
            /\ calls' = [calls EXCEPT ![e] = Tail(@)]
  /\ UNCHANGED <<contexts, used, data_queue, submitted, got, hostVars>>

-----------------------------------------------------------------------------
(* recv() *)

RecvStart(e) ==
  /\ pc[e] = "idle" /\ calls[e] # <<>> /\ Call(e).op = "recv"
  /\ pc' = [pc EXCEPT ![e] = IF data_queue[e] = <<>> THEN "recv" ELSE "copy"]
  /\ used' = [used EXCEPT ![e] = 0]
  /\ UNCHANGED <<contexts, flags, calls, sent, buffer, data_queue, submitted, got,
                 hostVars>>

(* vmcall_raw_transport_dequeue: an empty shared buffer for the host. *)
RecvIssue(e) ==
  /\ pc[e] = "recv"
  /\ pc' = [pc EXCEPT ![e] = "recvWait"]
  /\ buffer' = [buffer EXCEPT ![e] = Idle]
  /\ UNCHANGED <<contexts, flags, calls, sent, used, data_queue, submitted, got,
                 hostVars>>

(* Seeded fault: a success without a payload is taken for a packet that    *)
(* recv_packet_connected has nothing to queue of.                          *)
RecvDoneEmpty(e) ==
  /\ Polls(e) /\ pc[e] = "recvWait"
  /\ buffer[e].status \in {"success", "malformed"}
  /\ pc' = [pc EXCEPT ![e] = "copy"]
  /\ data_queue' = IF buffer[e].status = "malformed" THEN data_queue
                   ELSE [data_queue EXCEPT ![e] = Append(@, buffer[e].data)]
  /\ buffer' = [buffer EXCEPT ![e] = Idle]
  /\ UNCHANGED <<contexts, calls, sent, used, submitted, got, hostVars>>

(* recv_packet_connected queues the payload; can_recv is always false, so  *)
(* one packet is fetched per refill.                                       *)
RecvDone(e) ==
  /\ Polls(e) /\ pc[e] = "recvWait"
  /\ buffer[e].status = "success"
  /\ pc' = [pc EXCEPT ![e] = "copy"]
  /\ data_queue' = [data_queue EXCEPT ![e] = Append(@, buffer[e].data)]
  /\ buffer' = [buffer EXCEPT ![e] = Idle]
  /\ UNCHANGED <<contexts, calls, sent, used, submitted, got, hostVars>>

(* The bytes of packet p, in order. *)
Bytes(p) == [i \in 1..Size(p) |-> p.lo + i - 1]

CopyWhole(e) ==
  /\ pc[e] = "copy" /\ data_queue[e] # <<>> /\ used[e] < Call(e).len
  /\ LET head == Head(data_queue[e]) IN
       /\ Size(head) <= Call(e).len - used[e]
       /\ got' = [got EXCEPT ![e] = @ \o Bytes(head)]
       /\ used' = [used EXCEPT ![e] = @ + Size(head)]
       /\ data_queue' = [data_queue EXCEPT ![e] = Tail(@)]
  /\ UNCHANGED <<contexts, flags, pc, calls, sent, buffer, submitted, hostVars>>

(* Seeded fault: what did not fit in the caller's buffer is dropped. *)
DrainAll(q, free) == Tail(q)

(* head.drain(..free) *)
Drain(q, free) == <<[lo |-> Head(q).lo + free, hi |-> Head(q).hi]>> \o Tail(q)

CopyPart(e) ==
  /\ pc[e] = "copy" /\ data_queue[e] # <<>> /\ used[e] < Call(e).len
  /\ LET head == Head(data_queue[e])
         free == Call(e).len - used[e] IN
       /\ Size(head) > free
       /\ got' = [got EXCEPT ![e] = @ \o Bytes([lo |-> head.lo, hi |-> head.lo + free - 1])]
       /\ used' = [used EXCEPT ![e] = @ + free]
       /\ data_queue' = [data_queue EXCEPT ![e] = Drain(@, free)]
  /\ UNCHANGED <<contexts, flags, pc, calls, sent, buffer, submitted, hostVars>>

(* recv() returns `used`; a reader with more to read calls it again. *)
RecvReturn(e) ==
  /\ pc[e] = "copy" /\ (data_queue[e] = <<>> \/ used[e] = Call(e).len)
  /\ pc' = [pc EXCEPT ![e] = "idle"]
  /\ calls' = [calls EXCEPT ![e] =
                 IF used[e] = Call(e).len THEN Tail(@)
                 ELSE <<[op |-> "recv", len |-> Call(e).len - used[e]]>> \o Tail(@)]
  /\ UNCHANGED <<contexts, flags, sent, used, buffer, data_queue, submitted, got,
                 hostVars>>

-----------------------------------------------------------------------------
(* The host *)

HostTakes(e) ==
  /\ pc[e] = "sendWait" /\ buffer[e].status = "inflight"
  /\ Len(wire[PeerOf[e]]) < workload.room
  /\ wire' = [wire EXCEPT ![PeerOf[e]] = Append(@, buffer[e].data)]
  /\ buffer' = [buffer EXCEPT ![e].status = "success"]
  /\ owed' = owed \cup {NodeOf[e]}
  /\ UNCHANGED <<workload, contexts, flags, pc, calls, sent, used, data_queue, submitted,
                 got, irq>>

HostDelivers(e) ==
  /\ pc[e] = "recvWait" /\ buffer[e].status = "inflight"
  /\ wire[e] # <<>>
  /\ buffer' = [buffer EXCEPT ![e] = [status |-> "success", data |-> Head(wire[e])]]
  /\ wire' = [wire EXCEPT ![e] = Tail(@)]
  /\ owed' = owed \cup {NodeOf[e]}
  /\ UNCHANGED <<workload, contexts, flags, pc, calls, sent, used, data_queue, submitted,
                 got, irq>>

(* It cancels the session, or marks success with a length nothing matches; *)
(* a chunk to send is not delivered then.                                  *)
HostMisanswers(e) ==
  /\ workload.faults
  /\ Waiting(e) /\ buffer[e].status = "inflight"
  /\ \E s \in {"canceled", "malformed"} :
       /\ s = "malformed" => pc[e] = "recvWait"
       /\ buffer' = [buffer EXCEPT ![e].status = s]
  /\ owed' = owed \cup {NodeOf[e]}
  /\ UNCHANGED <<workload, contexts, flags, pc, calls, sent, used, data_queue, wire,
                 submitted, got, irq>>

HostInterrupts(n) ==
  /\ n \notin irq
  /\ workload.faults \/ n \in owed
  /\ irq' = irq \cup {n}
  /\ owed' = owed \ {n}
  /\ UNCHANGED <<workload, contexts, flags, pc, calls, sent, used, buffer, data_queue, wire,
                 submitted, got>>

(* Seeded fault: the notification serves one waiting stream. *)
NotifiedOne(n) ==
  LET here == {e \in contexts : NodeOf[e] = n}
  IN  IF here = {} THEN {} ELSE {CHOOSE e \in here : TRUE}

(* Seeded fault: a flag is set for a stream that is not connected. *)
NotifiedEnds(n) == {e \in Ends : NodeOf[e] = n}

(* The streams whose flag vmcall_raw_intr_notification sets: all of them. *)
Notified(n) == {e \in contexts : NodeOf[e] = n}

Notification(n) ==
  /\ n \in irq
  /\ irq' = irq \ {n}
  /\ flags' = flags \cup Notified(n)
  /\ UNCHANGED <<workload, contexts, pc, calls, sent, used, buffer, data_queue, wire,
                 submitted, got, owed>>

-----------------------------------------------------------------------------
Init ==
  /\ contexts = {}
  /\ flags = {}
  /\ workload \in Workloads
  /\ pc = [e \in Ends |-> IF workload.plan[e] = <<>> THEN "closed" ELSE "new"]
  /\ calls = workload.plan
  /\ sent = [e \in Ends |-> 0]
  /\ used = [e \in Ends |-> 0]
  /\ buffer = [e \in Ends |-> Idle]
  /\ data_queue = [e \in Ends |-> <<>>]
  /\ wire = [e \in Ends |-> <<>>]
  /\ submitted = [e \in Ends |-> 0]
  /\ got = [e \in Ends |-> <<>>]
  /\ irq = {}
  /\ owed = {}

EndStep(e) ==
  \/ Connect(e) \/ Shutdown(e)
  \/ SendStart(e) \/ SendChunk(e) \/ SendDone(e)
  \/ RecvStart(e) \/ RecvIssue(e) \/ RecvDone(e)
  \/ CopyWhole(e) \/ CopyPart(e) \/ RecvReturn(e)
  \/ PollPending(e)

FaultStep(e) == TimesOut(e) \/ VmcallFails(e) \/ PollError(e) \/ HostMisanswers(e)

HostStep(e) == HostTakes(e) \/ HostDelivers(e)

Nodes == {NodeOf[e] : e \in Ends}

Next ==
  \/ \E e \in Ends : EndStep(e) \/ FaultStep(e) \/ HostStep(e)
  \/ \E n \in Nodes : HostInterrupts(n) \/ Notification(n)

Spec == Init /\ [][Next]_vars

(* Fairness.  Each MigTD polls its sessions in turn and takes interrupts   *)
(* in every sleep(); the host relays what it can and interrupts after      *)
(* writing; timers expire.                                                 *)
Fairness ==
  /\ \A e \in Ends : WF_vars(Stuck(e) /\ TimesOut(e))
  /\ \A e \in Ends : WF_vars(EndStep(e)) /\ WF_vars(HostTakes(e)) /\ WF_vars(HostDelivers(e))
  /\ \A n \in Nodes : WF_vars(n \in owed /\ HostInterrupts(n)) /\ WF_vars(Notification(n))

FairSpec == Spec /\ Fairness

-----------------------------------------------------------------------------
(* Properties *)

Packets == [lo : Nat, hi : Nat]

(* Every variable has the type its Rust declaration gives it. *)
TypeOK ==
  /\ workload \in Workloads
  /\ contexts \in SUBSET Ends
  /\ flags \in SUBSET contexts
  /\ pc \in [Ends -> {"new", "idle", "send", "sendWait", "recv", "recvWait",
                      "copy", "closed", "failed"}]
  /\ calls \in [Ends -> Seq(Calls)]
  /\ sent \in [Ends -> Nat]
  /\ used \in [Ends -> Nat]
  /\ buffer \in [Ends -> [status : Statuses, data : Packets]]
  /\ data_queue \in [Ends -> Seq(Packets)]
  /\ wire \in [Ends -> Seq(Packets)]
  /\ submitted \in [Ends -> Nat]
  /\ got \in [Ends -> Seq(Nat)]
  /\ irq \in SUBSET Nodes
  /\ owed \in SUBSET Nodes

(* What recv() returned, over all its calls, is a prefix of what the peer  *)
(* handed to send(): chunking, partial reads, shared interrupts and failed *)
(* sessions never lose, repeat or reorder a byte in the middle.            *)
StreamIntegrity ==
  \A e \in Ends :
    /\ Len(got[e]) <= submitted[PeerOf[e]]
    /\ \A i \in 1..Len(got[e]) : got[e][i] = i

(* Packets on their way to e, oldest first. *)
Pipeline(e) ==
  data_queue[e]
  \o (IF pc[e] = "recvWait" /\ buffer[e].status = "success" THEN <<buffer[e].data>> ELSE <<>>)
  \o wire[e]
  \o (IF pc[PeerOf[e]] = "sendWait" /\ buffer[PeerOf[e]].status = "inflight"
        THEN <<buffer[PeerOf[e]].data>> ELSE <<>>)

(* Number of the last byte e has put into a vmcall. *)
Issued(e) ==
  CASE pc[e] = "send" -> Base(e) + sent[e]
    [] pc[e] = "sendWait" -> Base(e) + ChunkEnd(e)
    [] OTHER -> submitted[e]

Broken(e) == pc[e] = "failed" \/ buffer[e].status \in {"canceled", "malformed"}

(* While neither end of a session failed, every byte the sender issued has *)
(* been read or is in exactly one place on the way, and the places hold    *)
(* them in order: data_queue, the receive buffer, the host, the send       *)
(* buffer.                                                                 *)
NoByteLost ==
  \A e \in Ends :
    ~Broken(e) /\ ~Broken(PeerOf[e]) =>
      LET line == Pipeline(e) IN
        /\ \A i \in 1..Len(line) :
             /\ line[i].lo <= line[i].hi
             /\ line[i].lo = 1 + (IF i = 1 THEN Len(got[e]) ELSE line[i - 1].hi)
        /\ Issued(PeerOf[e]) = IF line = <<>> THEN Len(got[e]) ELSE Last(line).hi

(* A stream that waits for a vmcall has its key in the flag map, whatever  *)
(* other sessions connect, fail or shut down meanwhile: otherwise its poll *)
(* would end with VmcallRawError::Illegal.                                 *)
ContextKept == \A e \in Ends : Waiting(e) => e \in contexts

(* recv() never reports success without a byte: its callers would take     *)
(* Ok(0) for the end of the stream.                                        *)
EveryReadAdvances ==
  [][\A e \in Ends : pc[e] = "copy" /\ pc'[e] = "idle" => used[e] > 0]_vars

(* With a host that relays, every session ends.  It runs to its shutdown:  *)
(* no completion is missed although all streams of a MigTD share one       *)
(* vector and each poll consumes its flag.  The only exception is a host   *)
(* whose room both sides fill before they read, as in                      *)
(* pre_session_data_exchange(): there the timeouts end both waits.         *)
EverySessionEnds ==
  ~workload.faults ~>
    \A e \in Ends :
      \/ pc[e] = "closed"
      \/ pc[e] = "failed" /\ \A d \in {e, PeerOf[e]} : Len(wire[d]) = workload.room

=============================================================================
