# MigTD: models, checks and proofs

MigTD is a service TD (a virtual machine protected by Intel TDX) without an
operating system. The host asks it, over shared memory, to migrate a user TD to
another platform or to rebind one to a new MigTD. For each request it finds the
MigTD at the other end, both attest each other, exchange key material and write
the result into metadata fields of a TD through the TDX module. The host relays
every byte, decides when anything happens, and writes shared memory at any time.

This directory models that system in TLA+. TLC checks small instances of every
module; TLAPS proves the main safety properties of three of them for every value
of the constants.

Reading order: `RequestLoop`, `VmcallRaw`, `ExchangeMsk` with `MskTransfer`,
`Rebinding`, `SpdmSession`, `Virtqueue` with `DescriptorChains`, then the
`...Proofs` modules. `PROJECT.json` maps every definition to the source lines it
models and lists runs, seeded faults, findings and hazards.

## 1. The system

All paths are below `src/src/`. The build that is modelled has the features `main`,
`vmcall-raw` and `policy_v2`, with and without `spdm_attestation`.

| Part | Source | State | Operations | What makes it hard |
|---|---|---|---|---|
| Service loop | `migtd/src/bin/migtd/main.rs` | `REQUESTS`, `PENDING_REQUEST`, the task queue | take in, hand over, serve, report, release | the limit is checked before an await and used after it; the host repeats ids |
| Executor, timers | `async/async_runtime`, `migtd/src/driver/ticks.rs`, `timer.rs` | queue of tasks, tick counter | `poll_tasks`, `with_timeout`, `sleep` | tasks push back, end and appear during a sweep |
| Intake and reports | `migtd/src/migration/session.rs`, `event.rs` | one interrupt flag, shared buffers | `wait_for_request`, `parse_request`, `report_status` | one flag for requests and confirmations, consumed by the reader |
| vmcall-raw transport | `devices/vmcall_raw` | a flag per session, the queue of received packets | `connect`, `send`, `recv`, `shutdown` | one interrupt for all sessions, chunks, partial reads, cancellation |
| Key exchange | `migtd/src/migration/session.rs`, `pre_session_data.rs`, `servtd_ext.rs` | peer data, exchanged information, `MIG_VERSION`, `MIG_DEC_KEY` | `exchange_msk` | unprotected messages first, writes of several fields, one-sided failure, retries |
| RA-TLS | `migtd/src/ratls`, `crypto/src/rustls_impl/tls.rs` | handshake state, buffers | handshake, `read`, `write` | a verdict arrives later than the data that depends on it |
| Rebinding | `migtd/src/migration/rebinding.rs` | token, attributes and hash of the new MigTD | `start_rebinding` | all requests of a MigTD share the fields; approval without an answer, a token that arrives although its write fails |
| SPDM | `migtd/src/spdm` | transcripts, session, responder context | requester, `rsp_handle_message`, vendor-defined handlers | messages outside the session can be altered or repeated |
| Virtqueue | `devices/virtio/src/virtqueue.rs` | free list, chains, shadow table | `add`, `pop_used` | the device writes the rings between any two steps |
| vsock | `devices/vsock` | connection state, credit, packet queues | connect, send, receive, shutdown | packets split in two, counters that wrap |
| virtio-serial | `devices/virtio_serial` | ports and their queues | control messages, allocate, send, receive | queues replaced or never refilled |
| PCI, MMIO | `devices/pci` | allocation cursors | size and place BARs | ends of the address ranges |
| Log area | `migtd/src/migration/logging.rs` | a ring of entries per CPU | create, enable, write | wrap and eviction |
| Event log | `migtd/src/event_log.rs` | log and RTMRs | append, replay | log and RTMR change in two steps |
| Policy | `policy`, `migtd/src/mig_policy.rs` | none | evaluate evidence against a policy | many rules, two policies, missing fields |
| Attestation, crypto | `attestation`, `crypto`, `migtd/src/quote.rs` | none | quote, certificate | external; a retry blocks the CPU |

How they interact: the host's interrupt ends `sleep()`; the executor polls the
wait task, which takes a request in; the main loop starts a task for it; the task
runs `exchange_msk` or `start_rebinding`, whose messages travel through
`VmcallRawStream`; its result goes to `report_status`, and the id is released
when the host has confirmed the report. Everything runs on one CPU. A poll is not
preempted, interrupts are taken in `sleep()` and during the wait between two
requests for a quote, and the tick of 1 ms ends every halt.

What has to be right:

* no more requests than the limit, one owner per id, none lost between intake and task;
* streams without gaps, repetition or reordering, whatever the other sessions do;
* a key only for an accepted peer; success only with the whole key and the agreed version;
* rebinding fields of one request and from accepted peers only; approval only of what was installed (SPDM) or sent to an accepted peer (TLS); success never of what the other end refused;
* descriptors and buffers never lost or shared;
* with a host that does its part, every request is answered, and two MigTDs that accept each other succeed.

## 2. Modules

| Module | Models | State and actions against the code |
|---|---|---|
| `RequestLoop` | `handle_pre_mig`, `wait_for_request`, `report_status`, `poll_tasks`, `sleep` | Variables keep the names of the statics. An action is the stretch of a poll between two reads of shared memory; `Polled(t)` says whose turn it is, `PushBack` and `DropFront` end a poll. `HostAnswers`, `HostConfirms`, `HostInterrupts` are the host. |
| `VmcallRaw` | `VmcallRawStream` and its transport | One action per vmcall issued, per poll of its flag and per packet copied. Bytes are numbered, a packet is an interval of numbers. `TimesOut`, `VmcallFails`, `PollError`, `HostMisanswers` are the error paths; without faults `TimesOut` only ends a wait that the host can do nothing about (`Stuck`). |
| `ExchangeMsk` | `exchange_msk` of source and destination over TLS | One action per message received; from the last await on a side runs without suspension, so its writes are one step, and `InstallFails` stops inside them. `Again` is the host requesting the migration once more. |
| `MskTransfer` | what `exchange_msk` promises | A side ends with Success only in one step that writes the peer's whole key of this round and the agreed version. |
| `Rebinding` | `rebinding_old_prepare`, `rebinding_new_prepare` over TLS | Several requests that share the three fields of the new MigTD. A message counts as sent when its write is issued: `OldVerifies` issues the certificate, `OldSendsToken` the token, `OldApproves` follows the completed write, and `OldGivesUp` may come before any of them with the message on its way. |
| `SpdmSession` | requester, responder loop and vendor-defined handlers | `Kind` selects rebinding or migration. `HostAlters` and `HostRepeats` act on messages outside the session. |
| `Virtqueue` | `VirtQueue` | `add` and `recycle_descriptors` descriptor by descriptor, interleaved with `DeviceReturns`, `HostForges`, `HostScribbles`. |
| `DescriptorChains` | what the queue promises | Tokens for chains of buffers: given, kept, returned once and in order. |
| `MC...` | instances for TLC | Constants; `MCVirtqueue` also holds the refinement mapping. |
| `...Proofs` | TLAPS proofs | One for `RequestLoop`, `Rebinding`, `Virtqueue`. |

The session modules rest on each other by assumption, stated in their headers:
`ExchangeMsk` and `Rebinding` use a stream that is in order and loses nothing until
an end fails, which is `StreamIntegrity` and `NoByteLost` of `VmcallRaw`; `RequestLoop` sees a handler
as something that awaits and ends, which is `EveryRequestAnswered`,
`EveryRebindingEnds` and `BothSidesEnd`.

Abstractions. Names, payloads and cryptographic values are model values or tagged
records. The verdict of a policy on the evidence of a peer is a parameter chosen in
the initial state. `spdmlib`, `rustls` and the TDX module are external: they are
modelled by the calls the code makes and the results it handles. Two facts about
`spdmlib` matter: `teardown()` removes a session from what `get_session_via_id()`
finds, and the data of an ERROR response is what the comment at
`migtd/src/spdm/mod.rs:395` says.

Definitions commented "Seeded fault" are variants of the definition after them,
which TLC uses to confirm that a property can fail. No specification uses them.

## 3. Runs

`tlc -config X.cfg M` in this directory.

| Run | Config, module | Distinct states | What it shows |
|---|---|---|---|
| `request_loop` | `RequestLoop.cfg`, `MCRequestLoop` | 12,337 | Limit, ownership, queue and hand-over in every interleaving; every accepted request completes, every announced answer is read. |
| `vmcall_raw` | `VmcallRaw.cfg`, `MCVmcallRaw` | 126,210 | What is read is a prefix of what was written; no byte is lost while both ends work; no completion is missed; two sends that the host has no room for end by their timeouts. |
| `exchange_msk` | `ExchangeMsk.cfg`, `MCExchangeMsk` | 50,103 | The exchange implements `MskTransfer`; keys go to accepted peers; every request is answered; compatible sides succeed. |
| `spdm_rebind` | `SpdmRebind.cfg`, `MCSpdmSession` | 14,384 | Approval and installation are backed; both sides end; compatible sides complete. |
| `rebinding` | `Rebinding.cfg`, `MCRebinding` | 95,293 | Two concurrent requests never mix; a Success never goes with a refusal, and only a fault separates it from the approval; a faultless one completes whatever happens to the other. |
| `virtqueue_host` | `VirtqueueHost.cfg`, `MCVirtqueue` | 133,096 | Free list and chains survive forged entries and links; the queue implements `DescriptorChains`. |
| `virtqueue_full` | `VirtqueueFull.cfg`, `MCVirtqueue` | 528 | A full queue loses nothing, and every buffer returns. |
| `spdm_rebind_refused` | `SpdmRebindRefused.cfg` | violation | Finding 1. |
| `spdm_migration_report` | `SpdmMigrationReport.cfg` | violation | Finding 2. |
| `spdm_migration_completes` | `SpdmMigrationCompletes.cfg` | violation | Finding 3. |

Bounds, and why they are enough:

* `RequestLoop`: two slots and three ids, so that the limit is reached with a request waiting and ids are reused in flight; one request whose handler never waits and one rejected buffer. There is no bound on the length of a behaviour.
* `VmcallRaw`: chunks of two bytes; sends of up to four and reads of one to three, so that sends span chunks and reads end inside packets and span two. Two sessions in opposite directions share the vectors. Faults run with one session: two faulty sessions have 1.2 million states, too many for a routine check. The host has room for the two packets that each side sends before it reads, or for one. With one, both sides wait for the other to read, as they would in `pre_session_data_exchange` with such a host, until their timeouts end the session.
* `ExchangeMsk`: two rounds, so that the leftovers of a failed one meet the next; two of the four key fields, which suffices for a mixture; ranges that overlap, touch, are disjoint or empty.
* `SpdmSession`: two interferences: one to change something and one to undo or repeat it.
* `Rebinding`: two requests, the smallest number that can mix.
* `Virtqueue`: four descriptors with chains of two and one forgery; two descriptors with three buffers for the full queue. Symmetry of the buffers is used for the safety run only.

Faults (timeouts, failing calls, alterations) are part of the initial setting, so
that one run has both kinds of behaviour and the outcome properties speak of the
faultless ones.

Fairness. `RequestLoop`: the CPU runs on (the tick ends every halt); a handler that
is polled again and again ends, because it waits under `with_timeout`; a host that
accepts a call in the end, confirms reports and interrupts after writing. The last
two are the host's part of the protocol, not something MigTD can enforce.
`VmcallRaw`: each MigTD polls its sessions in turn, the host relays and interrupts,
and a timer around a wait that nothing else ends expires.
Session modules: a side with a message or an expired timer is polled. `Virtqueue`:
the driver polls until a chain is used, the device serves what it was given.
`EveryRebindingEnds` also needs the host to confirm `shutdown_transport`, which has
no timeout.

## 4. Proofs

`tlapm M.tla` checks a module. Proofs assume only the `ASSUME`s of the module they
are about.

**`RequestLoopProofs`**: `TypeCorrect`, `Capacity`, `Ownership`, `QueueComplete`,
`HandOver`, `Release`. For every limit, id set, set of task handles and set of
answers. The limit alone is not inductive: nothing in `CapacityRespected` says that
there is room when the id is inserted. The invariant adds `RoomKeptWhileWaiting`
(what the gate saw still holds in all later states of the wait task; tasks can only
make room, and only the wait task uses it), `OneOwnerPerRequest`,
`QueueHoldsEveryTask` and that a live task has a request. `HandOver` and `Release`
are action properties that follow from the same invariant.

**`RebindingProofs`**: `TypeCorrect`, `NeverMixed`, `FromAccepted`, `SuccessOffered`,
`ApprovalUsed`. For any set of requests, of any size. The invariant ties the position
of each end to the messages sent: an old MigTD that sent the token has accepted its
peer and read the expected attributes, a new one that waits for it has accepted its
peer. `Apart` says how the ends of one request come apart: an old MigTD that ended
without approving while its token is on the way met a fault, or the new one had
ended without success before; a new one that ended without success met a fault,
refused its peer, or faces an old one that ended without approving.

What is not true, and therefore not claimed, is that both ends report the same. The
token may be read although `tls_send_rebind_token` times out or fails, and
`approve_rebinding` may fail after it: the new MigTD then reports Success and holds
the token of a rebinding that nobody approved. The old MigTD approves without an
answer, so a new one that refuses it leaves an approval unused. No document of the
repository says what should happen in these cases.

**`VirtqueueProofs`**: `TypeCorrect`, `FreeListSafe`, `RecycleTotal`, `Accounted`.
For every queue size, set of buffers, chain length and number of writes of the host.
The invariant says, besides the types: the descriptors that are not outstanding form
a list from `free_head` (from `origin` while a chain is recycled), the links inside a
chain lead through outstanding descriptors, each has one predecessor at most, heads
have none, and the descriptors not yet recycled are those that `num_used` counts.
That a chain ends in time, so that `recycle_descriptors` never fails, follows from
the count; nothing the host writes appears in it.

Only model-checked: everything about liveness; the two refinements `Transferred`
and `ImplementsChains`; the safety properties of `VmcallRaw`, `ExchangeMsk` and
`SpdmSession`; `Mirrored`.

## 5. Findings

1. `migtd/src/spdm/spdm_rsp.rs:210`: the loop of the responder ends with `Ok` when
   the session is gone, which is also the case after a refusal tore it down. The new
   MigTD then reports Success with nothing written (`EndsUponEndSession`).
2. `migtd/src/spdm/mod.rs:409`: application code 0 of an ERROR response is decoded
   as `MigrationResult::Success`, and it is what the dispatcher sends for an error
   that is not a `MigrationResult` (`FailureIsReported`).
3. `migtd/src/spdm/spdm_rsp.rs:375`: a migration over SPDM needs
   `ResponderContextExInfo::MigrationInformation`, which no code sets, so it never
   completes (`MigrationCompletes`).

## 6. Not modelled, and the plan

In this order:

1. `LogArea`: the ring of `logging.rs` with a reader.
2. `VsockStream`: connection states, credit with counters that wrap, split packets, for both transports.
3. `EventLog`: append against RTMRs, and replay.
4. `PolicyRules`: the evaluation of policy v1 and v2 as operators, against a reference definition; the four authentication paths of `mig_policy.rs`.
5. `SecureChannel`: buffers and record handling of `tls.rs`, below `ExchangeMsk` and `Rebinding`.
6. `VirtioSerial`: ports, control messages, queues.
7. `MmioAllocation`: BARs and MMIO windows.
8. An abstract `RebindTransfer` implemented by both `Rebinding` and `SpdmSession`.
9. Proofs: `ContextKept` of `VmcallRaw`, `DisclosedToAccepted` and the refinement of `ExchangeMsk`, `InstalledIsAttested` of `SpdmSession`.

Left out for good: JSON, X.509 and quote parsing and verification (functions of
bytes in external libraries), register sequences of device initialisation, the
emulation layer, tools and build scripts.
