------------------------------ MODULE Virtqueue ------------------------------
(***************************************************************************)
(* VirtQueue of the virtio crate: the descriptor free list and the chains  *)
(* lent to the device, kept in a private shadow of the descriptor table.   *)
(* The device works on the rings at the same time, one memory access at a  *)
(* time, so that the loops of add() and of recycle_descriptors() are       *)
(* interleaved with it descriptor by descriptor.                           *)
(*                                                                         *)
(* A descriptor's addr, len and WRITE flag are one value, its buffer.  The *)
(* available ring is the set of the chains the device was given: it works  *)
(* on them in any order.  The used ring is the sequence of the entries     *)
(* between its two indices, u16 counters that wrap at a multiple of the    *)
(* ring's size.                                                            *)
(***************************************************************************)
EXTENDS Integers, Sequences, FiniteSets, Functions

CONSTANTS
  QueueSize,   (* descriptors of the queue: a power of two                   *)
  Buffers,     (* DMA buffers of the driver                                  *)
  NoBuffer,    (* a descriptor that was never used                           *)
  MaxChain,    (* buffers in a chain                                         *)
  Forgeries    (* writes of the host that the device protocol does not allow *)

ASSUME VirtqueueAssumption ==
  /\ QueueSize \in Nat \ {0} /\ MaxChain \in Nat \ {0} /\ Forgeries \in Nat

Slots == 0 .. QueueSize - 1

VARIABLES
  op,             (* "idle", in "add" or in "pop"                            *)
  todo, size,     (* buffers add() has not placed yet, and all it was given  *)
  head, last,     (* locals of add(); head is the chain of a pop, too        *)
  cursor,         (* recycle_descriptors(): head                             *)
  origin,         (* recycle_descriptors(): origin_free_head                 *)
  got,            (* recycle_descriptors(): g2h and h2g                      *)
  free_head, num_used, in_use, is_head,
  buf, more, next,       (* desc_shadow: addr and len, NEXT flag, next       *)
  desc_next,             (* next fields of the shared descriptor table       *)
  device,                (* heads of the chains the device was given         *)
  used,                  (* entries of the used ring that were not read yet  *)
  lent,                  (* buffers the driver gave and did not get back     *)
  forged                 (* writes of the host outside the protocol          *)

local == <<todo, size, head, last, cursor, origin, got>>
shadow == <<buf, more, next>>
vars == <<op, local, free_head, num_used, in_use, is_head, shadow, desc_next,
          device, used, lent, forged>>

(* the locals of add() and pop_used(), which end with the call *)
NoLocal == todo' = <<>> /\ size' = 0 /\ head' = 0 /\ last' = 0 /\ cursor' = 0 /\ origin' = 0
           /\ got' = <<>>

Chains == {c \in UNION {[1 .. n -> Buffers] : n \in 1 .. MaxChain} : IsInjective(c)}

-----------------------------------------------------------------------------
(* The driver *)

(* add(), up to its loops, with as many descriptors in use as it allows *)
StartAdd(c, limit) ==
  /\ op = "idle"
  /\ Len(c) + num_used <= limit
  /\ Range(c) \cap lent = {}
  /\ op' = "add" /\ todo' = c /\ size' = Len(c)
  /\ lent' = lent \cup Range(c)
  /\ head' = free_head /\ last' = free_head
  /\ UNCHANGED <<cursor, origin, got, free_head, num_used, in_use, is_head, shadow, desc_next,
                 device, used, forged>>

(* Seeded fault: the check of the free descriptors is off by one. *)
AddStartsFull(c) == StartAdd(c, QueueSize + 1)

(* BufferTooSmall, and InvalidParameter for no buffer, leave the queue alone *)
AddStarts(c) == StartAdd(c, QueueSize)

(* add_descriptor(), with the link it follows *)
Place(follow) ==
  /\ op = "add" /\ todo # <<>>
  /\ buf' = [buf EXCEPT ![free_head] = Head(todo)]
  /\ more' = [more EXCEPT ![free_head] = TRUE]
  /\ last' = free_head /\ free_head' = follow[free_head]
  /\ in_use' = in_use \cup {free_head}
  /\ todo' = Tail(todo)
  /\ UNCHANGED <<op, size, head, cursor, origin, got, num_used, is_head, next, desc_next,
                 device, used, lent, forged>>

(* Seeded fault: the free list is followed in the shared table. *)
AddDescriptorShared == Place(desc_next)

AddDescriptor == Place(next)

(* add(), after its loops: the last descriptor ends the chain, which becomes *)
(* available                                                               *)
Publish(count) ==
  /\ op = "add" /\ todo = <<>>
  /\ more' = [more EXCEPT ![last] = FALSE]
  /\ num_used' = num_used + count
  /\ is_head' = is_head \cup {head}
  /\ device' = device \cup {head}
  /\ op' = "idle" /\ NoLocal
  /\ UNCHANGED <<free_head, in_use, buf, next, desc_next, used, lent, forged>>

(* Seeded fault: num_used counts chains. *)
AddPublishesOne == Publish(1)

AddPublishes == Publish(size)

CanPop == used # <<>>

(* Seeded fault: any outstanding descriptor may be completed. *)
AcceptableInUse(i) == i \in in_use

(* pop_used(): in range, outstanding and the head of a chain *)
Acceptable(i) == i \in Slots /\ i \in in_use /\ i \in is_head

(* pop_used(), up to the loop of recycle_descriptors().  An id that is not *)
(* acceptable is an error that changes nothing: the entry stays the next.  *)
PopStarts ==
  /\ op = "idle" /\ CanPop /\ Acceptable(Head(used))
  /\ op' = "pop" /\ head' = Head(used) /\ cursor' = Head(used)
  /\ origin' = free_head /\ free_head' = Head(used)
  /\ UNCHANGED <<todo, size, last, got, num_used, in_use, is_head, shadow, desc_next,
                 device, used, lent, forged>>

(* Seeded fault: free_head is saved after it was set to the chain. *)
EndOfChainLate ==
  /\ next' = [next EXCEPT ![cursor] = free_head]
  /\ desc_next' = [desc_next EXCEPT ![cursor] = free_head]

(* Seeded fault: it is linked in the shadow only. *)
EndOfChainPrivate == next' = [next EXCEPT ![cursor] = origin] /\ UNCHANGED desc_next

(* recycle_descriptors(): the last descriptor takes over the old free list *)
EndOfChain ==
  /\ next' = [next EXCEPT ![cursor] = origin]
  /\ desc_next' = [desc_next EXCEPT ![cursor] = origin]

(* Seeded fault: the bit of the head stays. *)
ConsumeKeepsHead ==
  /\ in_use' = in_use \ {cursor} /\ num_used' = num_used - 1
  /\ buf' = [buf EXCEPT ![cursor] = NoBuffer] /\ more' = [more EXCEPT ![cursor] = FALSE]
  /\ UNCHANGED is_head

(* recycle_descriptors(): consume the slot.  The code leaves its buffer and *)
(* its flags in the shadow, and writes both again before it reads them.    *)
Consume ==
  /\ in_use' = in_use \ {cursor} /\ num_used' = num_used - 1
  /\ is_head' = is_head \ {cursor}
  /\ buf' = [buf EXCEPT ![cursor] = NoBuffer] /\ more' = [more EXCEPT ![cursor] = FALSE]

(* One round of the loop of recycle_descriptors(), and what pop_used() does *)
(* after the last one.  A state of the loop that no round leaves is one of *)
(* its error returns: RecycleNeverFails says that there is none.           *)
Recycle ==
  /\ op = "pop" /\ num_used > 0 /\ cursor \in in_use
  /\ Consume
  /\ lent' = lent \ {buf[cursor]}
  /\ \/ /\ more[cursor] /\ num_used > 1
        /\ got' = Append(got, buf[cursor]) /\ cursor' = next[cursor]
        /\ UNCHANGED <<op, todo, size, head, last, origin, next, desc_next, used>>
     \/ /\ ~more[cursor]
        /\ EndOfChain
        /\ used' = Tail(used)
        /\ op' = "idle" /\ NoLocal
  /\ UNCHANGED <<free_head, device, forged>>

-----------------------------------------------------------------------------
(* The device, and the host behind it *)

driver == <<op, local, free_head, num_used, in_use, is_head, shadow, lent>>

DeviceReturns(h) ==
  /\ h \in device
  /\ used' = Append(used, h) /\ device' = device \ {h}
  /\ UNCHANGED <<driver, desc_next, forged>>

(* A used entry the device never worked on: QueueSize is out of range *)
HostForges ==
  /\ forged < Forgeries /\ forged' = forged + 1
  /\ \E i \in 0 .. QueueSize : used' = Append(used, i)
  /\ UNCHANGED <<driver, desc_next, device>>

HostScribbles ==
  /\ forged < Forgeries /\ forged' = forged + 1
  /\ \E i, j \in Slots : desc_next' = [desc_next EXCEPT ![i] = j]
  /\ UNCHANGED <<driver, used, device>>

-----------------------------------------------------------------------------
(* VirtQueue::new(); the shared table is what the memory held, but for its *)
(* links                                                                   *)
Init ==
  /\ op = "idle" /\ todo = <<>> /\ size = 0 /\ head = 0 /\ last = 0
  /\ cursor = 0 /\ origin = 0 /\ got = <<>>
  /\ free_head = 0 /\ num_used = 0 /\ in_use = {} /\ is_head = {}
  /\ buf = [i \in Slots |-> NoBuffer]
  /\ more = [i \in Slots |-> FALSE]
  /\ next = [i \in Slots |-> IF i = QueueSize - 1 THEN 0 ELSE i + 1]
  /\ \E j \in Slots : desc_next = [next EXCEPT ![QueueSize - 1] = j]
  /\ used = <<>> /\ lent = {} /\ device = {} /\ forged = 0

Add == AddDescriptor \/ AddPublishes
Pop == PopStarts \/ Recycle

Next ==
  \/ \E c \in Chains : AddStarts(c)
  \/ Add \/ Pop \/ HostForges \/ HostScribbles
  \/ \E h \in Slots : DeviceReturns(h)

(* A driver polls until its chain is used, and the device serves every     *)
(* chain it was given.                                                     *)
Spec ==
  /\ Init /\ [][Next]_vars
  /\ WF_vars(Add) /\ WF_vars(Pop)
  /\ \A h \in Slots : WF_vars(DeviceReturns(h))

-----------------------------------------------------------------------------
(* Every component stays in its domain. *)
TypeOK ==
  /\ op \in {"idle", "add", "pop"}
  /\ todo \in Seq(Buffers) /\ size \in Nat
  /\ head \in Slots /\ last \in Slots /\ cursor \in Slots /\ origin \in Slots
  /\ got \in Seq(Buffers)
  /\ free_head \in Slots /\ num_used \in 0 .. QueueSize
  /\ in_use \subseteq Slots /\ is_head \subseteq Slots
  /\ buf \in [Slots -> Buffers \cup {NoBuffer}] /\ more \in [Slots -> BOOLEAN]
  /\ next \in [Slots -> Slots] /\ desc_next \in [Slots -> Slots]
  /\ used \in Seq(0 .. QueueSize)
  /\ lent \subseteq Buffers /\ device \subseteq Slots /\ forged \in Nat

(* f lists the first n descriptors that the links reach from i. *)
Linked(f, n, i) ==
  /\ IsInjective(f)
  /\ n > 0 => f[1] = i
  /\ \A k \in 1 .. n - 1 : next[f[k]] = f[k + 1]

(* The descriptors that are not outstanding are on the free list, each     *)
(* once, whatever the host wrote: add_descriptor() never hands out a       *)
(* descriptor the device still has, and none is lost.                      *)
FreeListIntact ==
  op \in {"idle", "add"} =>
    \E n \in 0 .. QueueSize : \E f \in [1 .. n -> Slots] :
      Linked(f, n, free_head) /\ Range(f) = Slots \ in_use

(* Once pop_used() accepted a head, recycle_descriptors() comes to the end *)
(* of the chain: its own checks never fail, whatever the host wrote.       *)
RecycleNeverFails ==
  op = "pop" => num_used > 0 /\ cursor \in in_use /\ (more[cursor] => num_used > 1)

(* No buffer is lost and none is in two descriptors: the driver gets back  *)
(* what it gave, once, and num_used counts the descriptors.                *)
EveryBufferAccounted ==
  /\ lent = {buf[i] : i \in in_use} \cup Range(todo)
  /\ \A i, j \in in_use : buf[i] = buf[j] => i = j
  /\ Cardinality(in_use) = num_used + (IF op = "add" THEN size - Len(todo) ELSE 0)

(* The device follows the links of the driver: as long as the host wrote   *)
(* nothing else there, the shared table has the shadow's link wherever a   *)
(* chain goes on, although add_descriptor() does not write it.             *)
Mirrored ==
  forged = 0 =>
    \A i \in in_use : more[i] /\ ~(op = "add" /\ i = last) => desc_next[i] = next[i]

(* Every buffer comes back, if the host keeps to the protocol. *)
EveryBufferReturns == \A b \in Buffers : b \in lent ~> b \notin lent
=============================================================================
