--------------------------- MODULE VirtqueueProofs ---------------------------
(***************************************************************************)
(* Proofs about Virtqueue, for every size of the queue, every set of       *)
(* buffers and any number of writes of the host.                           *)
(*                                                                         *)
(* FreeListIntact alone is not inductive: the slots that recycling returns *)
(* are on the free list again only if the chain is apart from it and from  *)
(* every other chain.  Links says so with facts about single links, and    *)
(* FreeList follows the list through the rounds of recycle_descriptors().  *)
(***************************************************************************)
EXTENDS Virtqueue, FiniteSetTheorems, TLAPS

-----------------------------------------------------------------------------
(* The inductive invariant *)

Placed == IF op = "add" THEN size - Len(todo) ELSE 0

(* the descriptor that add() links to the next one it takes *)
Growing == IF op = "add" /\ Len(todo) < size THEN {last} ELSE {}

Counts ==
  /\ Cardinality(in_use) = num_used + Placed
  /\ op = "add" => size > 0 /\ Len(todo) <= size /\ num_used + size <= QueueSize

Bufs ==
  /\ lent = {buf[i] : i \in in_use} \cup Range(todo)
  /\ \A i, j \in in_use : buf[i] = buf[j] => i = j
  /\ \A i \in in_use : buf[i] \in Buffers \ Range(todo)
  /\ IsInjective(todo)
  /\ op # "add" => todo = <<>>

Links ==
  /\ is_head \subseteq in_use
  /\ \A i \in in_use \ Growing : more[i] => next[i] \in in_use \ is_head
  /\ \A i, j \in in_use \ Growing : more[i] /\ more[j] /\ next[i] = next[j] => i = j

Cursor ==
  op = "pop" => cursor \in in_use /\ \A i \in in_use : more[i] => next[i] # cursor

NewChain ==
  op = "add" =>
    /\ Len(todo) = size => head = free_head
    /\ Len(todo) < size =>
         /\ last \in in_use /\ head \in in_use /\ next[last] = free_head
         /\ \A i \in in_use \ {last} : more[i] => next[i] # head

(* While a chain is recycled: m descriptors from its head to the cursor,   *)
(* and the n descriptors of the old free list.                             *)
Recycling(m, r, n, g) ==
  /\ Linked(r, m, free_head) /\ r[m] = cursor
  /\ Linked(g, n, origin)
  /\ Range(r) \cap Range(g) = {}
  /\ (Range(r) \ {cursor}) \cup Range(g) = Slots \ in_use

FreeList ==
  /\ FreeListIntact
  /\ op = "pop" =>
       \E m \in 1 .. QueueSize, n \in 0 .. QueueSize :
         \E r \in [1 .. m -> Slots], g \in [1 .. n -> Slots] : Recycling(m, r, n, g)

(* pop_used() moves past the entry it read only when the chain is recycled *)
Pending == op = "pop" => used # <<>>

IInv == TypeOK /\ Pending /\ Counts /\ Bufs /\ Links /\ Cursor /\ NewChain /\ FreeList

-----------------------------------------------------------------------------
(* Sequences and paths *)

(* What is left of an injective sequence after its head. *)
LEMMA TailOf ==
  ASSUME NEW S, NEW c \in Seq(S), c # <<>>, IsInjective(c)
  PROVE  /\ Tail(c) \in Seq(S) /\ IsInjective(Tail(c)) /\ Len(Tail(c)) = Len(c) - 1
         /\ Head(c) \in S /\ Head(c) \notin Range(Tail(c))
         /\ Range(c) = {Head(c)} \cup Range(Tail(c))
<1>1. /\ Tail(c) \in Seq(S) /\ Len(Tail(c)) = Len(c) - 1 /\ Head(c) \in S /\ Head(c) = c[1]
      /\ Len(c) \in Nat \ {0} /\ DOMAIN c = 1 .. Len(c) /\ DOMAIN Tail(c) = 1 .. Len(c) - 1
      /\ \A i \in 1 .. Len(c) - 1 : Tail(c)[i] = c[i + 1]
  OBVIOUS
<1>2. IsInjective(Tail(c))
  BY <1>1 DEF IsInjective
<1>3. Head(c) \notin Range(Tail(c))
  BY <1>1 DEF IsInjective, Range
<1>4. Range(c) = {Head(c)} \cup Range(Tail(c))
  <2>1. ASSUME NEW x \in Range(c) PROVE x \in {Head(c)} \cup Range(Tail(c))
    <3>1. PICK i \in 1 .. Len(c) : x = c[i]
      BY <1>1 DEF Range
    <3>2. CASE i = 1
      BY <3>1, <3>2, <1>1
    <3>3. CASE i # 1
      <4>1. i - 1 \in 1 .. Len(c) - 1 /\ x = Tail(c)[i - 1]
        BY <3>1, <3>3, <1>1
      <4> QED BY <4>1, <1>1 DEF Range
    <3> QED BY <3>2, <3>3
  <2>2. ASSUME NEW x \in {Head(c)} \cup Range(Tail(c)) PROVE x \in Range(c)
    <3>1. CASE x = Head(c)
      BY <3>1, <1>1 DEF Range
    <3>2. CASE x \in Range(Tail(c))
      <4>1. PICK i \in 1 .. Len(c) - 1 : x = Tail(c)[i]
        BY <3>2, <1>1 DEF Range
      <4>2. i + 1 \in 1 .. Len(c) /\ x = c[i + 1]
        BY <4>1, <1>1
      <4> QED BY <4>2, <1>1 DEF Range
    <3> QED BY <2>2, <3>1, <3>2
  <2> QED BY <2>1, <2>2
<1> QED BY <1>1, <1>2, <1>3, <1>4

(* A chain is a non-empty injective sequence of buffers. *)
LEMMA ChainIs ==
  ASSUME NEW c \in Chains
  PROVE  c \in Seq(Buffers) /\ Len(c) \in Nat \ {0} /\ IsInjective(c) /\ c # <<>>
<1>1. PICK n \in 1 .. MaxChain : c \in [1 .. n -> Buffers]
  BY DEF Chains
<1>2. n \in Nat \ {0}
  BY <1>1, VirtqueueAssumption
<1>3. c \in Seq(Buffers) /\ Len(c) = n
  BY <1>1, <1>2
<1> QED BY <1>2, <1>3 DEF Chains

(* The descriptors are QueueSize many. *)
LEMMA SlotsFinite == IsFiniteSet(Slots) /\ Cardinality(Slots) = QueueSize
  BY FS_Interval, VirtqueueAssumption DEF Slots

(* No path is longer than the table. *)
LEMMA PathBound ==
  ASSUME NEW n \in Nat, NEW f \in [1 .. n -> Slots], IsInjective(f)
  PROVE  n <= QueueSize
<1>1. f \in Injection(1 .. n, Slots)
  BY DEF IsInjective, Injection
<1>2. IsFiniteSet(1 .. n) /\ Cardinality(1 .. n) = n
  BY FS_Interval
<1>3. Cardinality(1 .. n) <= Cardinality(Slots)
  BY <1>1, <1>2, SlotsFinite, FS_Injection
<1> QED BY <1>2, <1>3, SlotsFinite

(* The descriptors in use are finitely many. *)
LEMMA InUseFinite ==
  ASSUME TypeOK
  PROVE  IsFiniteSet(in_use) /\ Cardinality(in_use) \in Nat
<1>1. in_use \in SUBSET Slots
  BY DEF TypeOK
<1>2. IsFiniteSet(in_use)
  BY <1>1, SlotsFinite, FS_Subset
<1> QED BY <1>2, FS_CardinalityType

-----------------------------------------------------------------------------
(* What the invariant says of the two loops *)

(* add_descriptor() takes a descriptor that is free. *)
LEMMA TakesFree ==
  ASSUME IInv, op = "add", todo # <<>>
  PROVE  free_head \in Slots \ in_use
<1>1. todo \in Seq(Buffers) /\ Len(todo) > 0 /\ size \in Nat /\ num_used \in Nat
  BY DEF IInv, TypeOK
<1>2. Cardinality(in_use) < QueueSize
  BY <1>1, VirtqueueAssumption DEF IInv, Counts, Placed
<1>3. in_use # Slots
  BY <1>2, SlotsFinite, VirtqueueAssumption
<1>4. PICK x \in Slots \ in_use : TRUE
  BY <1>3 DEF IInv, TypeOK
<1>5. PICK n \in 0 .. QueueSize : \E f \in [1 .. n -> Slots] :
        Linked(f, n, free_head) /\ Range(f) = Slots \ in_use
  BY DEF IInv, FreeList, FreeListIntact
<1>f. PICK f \in [1 .. n -> Slots] : Linked(f, n, free_head) /\ Range(f) = Slots \ in_use
  BY <1>5
<1>6. PICK k \in 1 .. n : x = f[k]
  BY <1>4, <1>f DEF Range
<1>7. n > 0 /\ 1 \in 1 .. n /\ f[1] = free_head
  BY <1>f, <1>6, VirtqueueAssumption DEF Linked
<1>8. free_head \in Range(f)
  BY <1>7 DEF Range
<1> QED BY <1>f, <1>8

(* The loop of recycle_descriptors() comes to another descriptor of its    *)
(* chain or to its end, and num_used is large enough for it.               *)
LEMMA Recycles ==
  ASSUME IInv, op = "pop"
  PROVE  /\ num_used > 0 /\ cursor \in in_use
         /\ more[cursor] => num_used > 1 /\ next[cursor] \in in_use \ {cursor}
<1>1. cursor \in in_use /\ num_used \in Nat
  BY VirtqueueAssumption DEF IInv, Cursor, TypeOK
<1>2. Cardinality(in_use) = num_used
  BY <1>1 DEF IInv, Counts, Placed
<1>3. /\ IsFiniteSet(in_use \ {cursor})
      /\ Cardinality(in_use \ {cursor}) = num_used - 1
      /\ Cardinality(in_use \ {cursor}) \in Nat
  BY <1>1, <1>2, InUseFinite, FS_RemoveElement, FS_CardinalityType DEF IInv
<1>4. num_used > 0
  BY <1>1, <1>3
<1>5. ASSUME more[cursor] PROVE num_used > 1 /\ next[cursor] \in in_use \ {cursor}
  <2>1. next[cursor] \in in_use \ {cursor}
    BY <1>1, <1>5 DEF IInv, Links, Cursor, Growing
  <2>2. Cardinality(in_use \ {cursor}) # 0
    BY <2>1, <1>3, FS_EmptySet
  <2> QED BY <2>1, <2>2, <1>1, <1>3
<1> QED BY <1>1, <1>4, <1>5

-----------------------------------------------------------------------------
(* Each conjunct is preserved *)

(* A step of the device, of the host or of nobody. *)
Outside == (\E h \in Slots : DeviceReturns(h)) \/ HostForges \/ HostScribbles \/ UNCHANGED vars

(* Nobody else changes what the driver keeps to itself. *)
LEMMA OutsideLeaves == ASSUME Outside PROVE UNCHANGED driver
  BY DEF Outside, DeviceReturns, HostForges, HostScribbles, vars, driver

(* The initial state satisfies the invariant. *)
LEMMA InitInv == ASSUME Init PROVE IInv
<1> USE VirtqueueAssumption
<1>1. TypeOK
  BY DEF Init, TypeOK, Slots
<1>2. Counts
  BY FS_EmptySet DEF Init, Counts, Placed
<1>3. Bufs
  BY DEF Init, Bufs, Range, IsInjective
<1>4. Links /\ Cursor /\ NewChain
  BY DEF Init, Links, Cursor, NewChain
<1>6. Pending
  BY DEF Init, Pending
<1>5. FreeList
  <2> DEFINE f == [k \in 1 .. QueueSize |-> k - 1]
  <2>1. f \in [1 .. QueueSize -> Slots]
    BY DEF Slots
  <2>2. Linked(f, QueueSize, free_head)
    BY DEF Init, Linked, IsInjective, Slots
  <2>3. Range(f) = Slots \ in_use
    <3>1. ASSUME NEW x \in Slots PROVE x \in Range(f)
      <4>1. x + 1 \in 1 .. QueueSize /\ f[x + 1] = x
        BY DEF Slots
      <4> QED BY <4>1 DEF Range
    <3>2. Range(f) \subseteq Slots
      BY <2>1 DEF Range
    <3> QED BY <3>1, <3>2 DEF Init
  <2> HIDE DEF f
  <2>4. QueueSize \in 0 .. QueueSize
    OBVIOUS
  <2>5. FreeListIntact
    BY <2>1, <2>2, <2>3, <2>4 DEF FreeListIntact
  <2> QED BY <2>5 DEF FreeList, Init
<1> QED BY <1>1, <1>2, <1>3, <1>4, <1>5, <1>6 DEF IInv

(* Types are preserved. *)
LEMMA TypeStep == ASSUME IInv, [Next]_vars PROVE TypeOK'
<1> USE VirtqueueAssumption
<1>0. TypeOK
  BY DEF IInv
<1>1. ASSUME NEW c \in Chains, AddStarts(c) PROVE TypeOK'
  <2>1. c \in Seq(Buffers) /\ Len(c) \in Nat /\ Range(c) \subseteq Buffers
    BY ChainIs DEF Range
  <2> QED BY <1>0, <1>1, <2>1 DEF TypeOK, AddStarts, StartAdd, shadow
<1>2. CASE AddDescriptor
  <2>1. op = "add" /\ todo # <<>>
    BY <1>2 DEF AddDescriptor, Place
  <2>2. Head(todo) \in Buffers /\ Tail(todo) \in Seq(Buffers)
    BY <1>0, <2>1 DEF TypeOK
  <2> QED BY <1>0, <1>2, <2>2 DEF TypeOK, AddDescriptor, Place, shadow
<1>3. CASE AddPublishes
  <2>1. num_used + size \in 0 .. QueueSize
    BY <1>0, <1>3 DEF IInv, Counts, TypeOK, AddPublishes, Publish
  <2>2. more' \in [Slots -> BOOLEAN] /\ is_head' \subseteq Slots /\ device' \subseteq Slots
    BY <1>0, <1>3 DEF TypeOK, AddPublishes, Publish
  <2>3. /\ todo' = <<>> /\ size' = 0 /\ got' = <<>> /\ op' = "idle"
        /\ head' \in Slots /\ last' \in Slots /\ cursor' \in Slots /\ origin' \in Slots
    BY <1>3 DEF AddPublishes, Publish, NoLocal, Slots
  <2>4. UNCHANGED <<free_head, in_use, buf, next, desc_next, used, lent, forged>> /\ num_used' = num_used + size
    BY <1>3 DEF AddPublishes, Publish
  <2> QED BY <1>0, <2>1, <2>2, <2>3, <2>4 DEF TypeOK
<1>4. CASE PopStarts
  BY <1>0, <1>4 DEF TypeOK, PopStarts, Acceptable, shadow
<1>5. CASE Recycle
  <2>1. num_used' \in 0 .. QueueSize /\ buf[cursor] \in Buffers
    BY <1>0, <1>5 DEF IInv, Bufs, TypeOK, Recycle, Consume
  <2>2. more' \in [Slots -> BOOLEAN] /\ buf' \in [Slots -> Buffers \cup {NoBuffer}]
    BY <1>0, <1>5 DEF TypeOK, Recycle, Consume
  <2>3. is_head' \subseteq Slots /\ in_use' \subseteq Slots /\ lent' \subseteq Buffers
    BY <1>0, <1>5 DEF TypeOK, Recycle, Consume
  <2>4. UNCHANGED <<free_head, device, forged>>
    BY <1>5 DEF Recycle
  <2>5. CASE more[cursor]
    <3>1. UNCHANGED <<op, todo, size, head, last, origin, next, desc_next, used>>
      BY <1>5, <2>5 DEF Recycle
    <3>2. got' \in Seq(Buffers) /\ cursor' \in Slots
      <4>1. got' = Append(got, buf[cursor]) /\ cursor' = next[cursor]
        BY <1>5, <2>5 DEF Recycle
      <4>2. got \in Seq(Buffers) /\ next \in [Slots -> Slots] /\ cursor \in Slots
        BY <1>0 DEF TypeOK
      <4> QED BY <4>1, <4>2, <2>1
    <3> QED BY <1>0, <2>1, <2>2, <2>3, <2>4, <3>1, <3>2 DEF TypeOK
  <2>6. CASE ~more[cursor]
    <3>1. used' = Tail(used) /\ used # <<>> /\ op' = "idle" /\ NoLocal /\ EndOfChain
      BY <1>5, <2>6 DEF Recycle, IInv, Pending
    <3>2. used' \in Seq(0 .. QueueSize)
      <4> used \in Seq(0 .. QueueSize)
        BY <1>0 DEF TypeOK
      <4> QED BY <3>1
    <3>3. next' \in [Slots -> Slots] /\ desc_next' \in [Slots -> Slots]
      BY <1>0, <3>1 DEF TypeOK, EndOfChain
    <3>4. /\ todo' = <<>> /\ size' = 0 /\ got' = <<>>
          /\ head' \in Slots /\ last' \in Slots /\ cursor' \in Slots /\ origin' \in Slots
      BY <3>1 DEF NoLocal, Slots
    <3> QED BY <1>0, <2>1, <2>2, <2>3, <2>4, <3>1, <3>2, <3>3, <3>4 DEF TypeOK
  <2> QED BY <2>5, <2>6
<1>6. ASSUME NEW h \in Slots, DeviceReturns(h) PROVE TypeOK'
  <2>1. h \in 0 .. QueueSize
    BY DEF Slots
  <2>2. used' \in Seq(0 .. QueueSize) /\ device' \subseteq Slots
    BY <1>0, <1>6, <2>1 DEF TypeOK, DeviceReturns
  <2>3. UNCHANGED <<driver, desc_next, forged>>
    BY <1>6 DEF DeviceReturns
  <2> QED BY <1>0, <2>2, <2>3 DEF TypeOK, driver, local, shadow
<1>7. CASE HostForges
  BY <1>0, <1>7 DEF TypeOK, HostForges, driver, local, shadow
<1>8. CASE HostScribbles
  BY <1>0, <1>8 DEF TypeOK, HostScribbles, driver, local, shadow
<1>9. CASE UNCHANGED vars
  BY <1>0, <1>9 DEF TypeOK, vars, local, shadow
<1> QED BY <1>1, <1>2, <1>3, <1>4, <1>5, <1>6, <1>7, <1>8, <1>9 DEF Next, Add, Pop

(* The used entry of a chain stays until the chain is recycled. *)
LEMMA PendingStep == ASSUME IInv, [Next]_vars PROVE Pending'
<1>0. Pending /\ used \in Seq(0 .. QueueSize)
  BY DEF IInv, TypeOK
<1>1. ASSUME NEW c \in Chains, AddStarts(c) PROVE Pending'
  BY <1>1 DEF AddStarts, StartAdd, Pending
<1>2. CASE Add
  BY <1>2 DEF Add, AddDescriptor, Place, AddPublishes, Publish, Pending
<1>3. CASE PopStarts
  BY <1>3 DEF PopStarts, CanPop, Pending
<1>4. CASE Recycle
  BY <1>0, <1>4 DEF Recycle, Pending
<1>5. ASSUME NEW h \in Slots, DeviceReturns(h) PROVE Pending'
  BY <1>0, <1>5 DEF DeviceReturns, driver, Pending
<1>6. CASE HostForges
  BY <1>0, <1>6 DEF HostForges, driver, Pending
<1>7. CASE HostScribbles
  BY <1>0, <1>7 DEF HostScribbles, driver, Pending
<1>8. CASE UNCHANGED vars
  BY <1>0, <1>8 DEF vars, Pending
<1> QED BY <1>1, <1>2, <1>3, <1>4, <1>5, <1>6, <1>7, <1>8 DEF Next, Pop

(* num_used counts the descriptors in use, but for those of an add(). *)
LEMMA CountsStep == ASSUME IInv, [Next]_vars PROVE Counts'
<1> USE VirtqueueAssumption
<1>0. Counts /\ IsFiniteSet(in_use) /\ Cardinality(in_use) \in Nat
      /\ num_used \in Nat /\ size \in Nat /\ todo \in Seq(Buffers)
  BY InUseFinite DEF IInv, TypeOK
<1>1. ASSUME NEW c \in Chains, AddStarts(c) PROVE Counts'
  BY <1>0, <1>1, ChainIs DEF AddStarts, StartAdd, Counts, Placed
<1>2. CASE AddDescriptor
  <2>1. op = "add" /\ op' = "add" /\ todo # <<>> /\ todo' = Tail(todo)
        /\ in_use' = in_use \cup {free_head} /\ UNCHANGED <<num_used, size>>
    BY <1>2 DEF AddDescriptor, Place
  <2>2. Cardinality(in_use') = Cardinality(in_use) + 1
    BY <1>0, <2>1, TakesFree, FS_AddElement
  <2>3. Len(todo') = Len(todo) - 1 /\ Len(todo) \in Nat
    BY <1>0, <2>1
  <2> QED BY <1>0, <2>1, <2>2, <2>3 DEF Counts, Placed
<1>3. CASE AddPublishes
  <2>1. op = "add" /\ op' = "idle" /\ todo = <<>> /\ num_used' = num_used + size
        /\ UNCHANGED in_use
    BY <1>3 DEF AddPublishes, Publish
  <2> QED BY <1>0, <2>1 DEF Counts, Placed
<1>4. CASE PopStarts
  BY <1>0, <1>4 DEF PopStarts, Counts, Placed
<1>5. CASE Recycle
  <2>1. op = "pop" /\ op' # "add" /\ num_used' = num_used - 1 /\ in_use' = in_use \ {cursor}
        /\ cursor \in in_use
    BY <1>5 DEF Recycle, Consume
  <2>2. Cardinality(in_use') = Cardinality(in_use) - 1
    BY <1>0, <2>1, FS_RemoveElement
  <2> QED BY <1>0, <2>1, <2>2 DEF Counts, Placed
<1>6. CASE Outside
  BY <1>0, <1>6, OutsideLeaves DEF driver, local, Counts, Placed
<1> QED BY <1>1, <1>2, <1>3, <1>4, <1>5, <1>6 DEF Next, Add, Pop, Outside

(* A buffer is lent exactly while a descriptor or an add() has it. *)
LEMMA BufsStep == ASSUME IInv, [Next]_vars PROVE Bufs'
<1>0. Bufs /\ TypeOK
  BY DEF IInv
<1>1. ASSUME NEW c \in Chains, AddStarts(c) PROVE Bufs'
  <2>1. op = "idle" /\ op' = "add" /\ todo' = c /\ lent' = lent \cup Range(c)
        /\ Range(c) \cap lent = {} /\ UNCHANGED <<buf, in_use>>
    BY <1>1 DEF AddStarts, StartAdd, shadow
  <2>2. Range(todo) = {} /\ lent = {buf[i] : i \in in_use}
    BY <1>0, <2>1 DEF Bufs, Range
  <2> QED BY <1>0, <2>1, <2>2, ChainIs DEF Bufs
<1>2. CASE AddDescriptor
  <2>1. /\ op = "add" /\ op' = "add" /\ todo # <<>> /\ todo' = Tail(todo)
        /\ in_use' = in_use \cup {free_head} /\ UNCHANGED lent
        /\ buf' = [buf EXCEPT ![free_head] = Head(todo)]
    BY <1>2 DEF AddDescriptor, Place
  <2>2. /\ Tail(todo) \in Seq(Buffers) /\ IsInjective(Tail(todo))
        /\ Head(todo) \in Buffers /\ Head(todo) \notin Range(Tail(todo))
        /\ Range(todo) = {Head(todo)} \cup Range(Tail(todo))
    <3>1. todo \in Seq(Buffers) /\ IsInjective(todo)
      BY <1>0 DEF TypeOK, Bufs
    <3> QED BY <3>1, <2>1, TailOf
  <2>3. free_head \in Slots \ in_use
    BY <2>1, TakesFree
  <2>4. buf'[free_head] = Head(todo) /\ \A i \in in_use : buf'[i] = buf[i]
    BY <1>0, <2>1, <2>3 DEF TypeOK
  <2>5. {buf'[i] : i \in in_use'} = {buf[i] : i \in in_use} \cup {Head(todo)}
    BY <2>1, <2>4
  <2>6. lent' = {buf'[i] : i \in in_use'} \cup Range(todo')
    BY <1>0, <2>1, <2>2, <2>5 DEF Bufs
  <2>7. \A i, j \in in_use' : buf'[i] = buf'[j] => i = j
    BY <1>0, <2>1, <2>2, <2>4 DEF Bufs
  <2>8. \A i \in in_use' : buf'[i] \in Buffers \ Range(todo')
    BY <1>0, <2>1, <2>2, <2>4 DEF Bufs
  <2> QED BY <2>1, <2>2, <2>6, <2>7, <2>8 DEF Bufs
<1>3. CASE AddPublishes
  <2>1. todo = <<>> /\ todo' = <<>> /\ UNCHANGED <<lent, buf, in_use>>
    BY <1>3 DEF AddPublishes, Publish, NoLocal
  <2> QED BY <1>0, <2>1 DEF Bufs
<1>4. CASE PopStarts
  BY <1>0, <1>4 DEF PopStarts, shadow, Bufs
<1>5. CASE Recycle
  <2>1. /\ op = "pop" /\ todo = <<>> /\ todo' = <<>> /\ in_use' = in_use \ {cursor}
        /\ cursor \in in_use /\ lent' = lent \ {buf[cursor]}
        /\ buf' = [buf EXCEPT ![cursor] = NoBuffer]
    BY <1>0, <1>5 DEF Recycle, Consume, NoLocal, Bufs
  <2>2. \A i \in in_use' : buf'[i] = buf[i]
    BY <1>0, <2>1 DEF TypeOK
  <2>3. Range(todo) = {} /\ Range(todo') = {} /\ IsInjective(todo')
    BY <2>1 DEF Range, IsInjective
  <2>4. {buf'[i] : i \in in_use'} = {buf[i] : i \in in_use} \ {buf[cursor]}
    BY <1>0, <2>1, <2>2 DEF Bufs
  <2>5. lent' = {buf'[i] : i \in in_use'} \cup Range(todo')
    BY <1>0, <2>1, <2>3, <2>4 DEF Bufs
  <2> QED BY <1>0, <2>1, <2>2, <2>3, <2>5 DEF Bufs
<1>6. CASE Outside
  BY <1>0, <1>6, OutsideLeaves DEF driver, local, shadow, Bufs
<1> QED BY <1>1, <1>2, <1>3, <1>4, <1>5, <1>6 DEF Next, Add, Pop, Outside

(* Chains link descriptors in use, never two to one and none to a head. *)
LEMMA LinksStep == ASSUME IInv, [Next]_vars PROVE Links'
<1>0. Links /\ TypeOK
  BY DEF IInv
<1>1. ASSUME NEW c \in Chains, AddStarts(c) PROVE Links'
  <2>1. op = "idle" /\ op' = "add" /\ Len(todo') = size' /\ UNCHANGED <<in_use, is_head, more, next>>
    BY <1>1 DEF AddStarts, StartAdd, shadow
  <2>2. Growing = {} /\ Growing' = {}
    BY <2>1, ChainIs, <1>1 DEF Growing, AddStarts, StartAdd
  <2> QED BY <1>0, <2>1, <2>2 DEF Links
<1>2. CASE AddDescriptor
  <2>1. /\ op = "add" /\ op' = "add" /\ todo # <<>> /\ todo' = Tail(todo)
        /\ in_use' = in_use \cup {free_head} /\ last' = free_head
        /\ more' = [more EXCEPT ![free_head] = TRUE]
        /\ UNCHANGED <<size, is_head, next>>
    BY <1>2 DEF AddDescriptor, Place
  <2>2. free_head \in Slots \ in_use
    BY <2>1, TakesFree
  <2>3. Growing' = {free_head}
    <3>1. Len(todo') = Len(todo) - 1 /\ Len(todo) \in Nat /\ Len(todo) <= size /\ size \in Nat
      BY <1>0, <2>1 DEF TypeOK, IInv, Counts
    <3> QED BY <2>1, <3>1 DEF Growing
  <2>4. \A i \in in_use : more'[i] = more[i]
    BY <1>0, <2>1, <2>2 DEF TypeOK
  <2>5. Growing = {} \/ (Growing = {last} /\ next[last] = free_head)
    BY <2>1 DEF Growing, IInv, NewChain
  <2>6. in_use' \ Growing' = in_use
    BY <2>1, <2>2, <2>3
  <2>7. \A i \in in_use : more[i] => next[i] \in in_use' \ is_head'
    BY <1>0, <2>1, <2>2, <2>5 DEF Links
  <2>8. \A i, j \in in_use : more[i] /\ more[j] /\ next[i] = next[j] => i = j
    BY <1>0, <2>2, <2>5 DEF Links
  <2> QED BY <1>0, <2>1, <2>4, <2>6, <2>7, <2>8 DEF Links
<1>3. CASE AddPublishes
  <2>1. /\ op = "add" /\ op' = "idle" /\ todo = <<>> /\ UNCHANGED <<in_use, next>>
        /\ more' = [more EXCEPT ![last] = FALSE] /\ is_head' = is_head \cup {head}
    BY <1>3 DEF AddPublishes, Publish
  <2>2. Len(todo) = 0 /\ size > 0
    BY <2>1 DEF IInv, Counts
  <2>3. Growing = {last} /\ Growing' = {}
    BY <2>1, <2>2 DEF Growing
  <2>4. last \in in_use /\ head \in in_use /\ \A i \in in_use \ {last} : more[i] => next[i] # head
    BY <2>1, <2>2 DEF IInv, NewChain
  <2>5. ~more'[last] /\ \A i \in in_use \ {last} : more'[i] = more[i]
    BY <1>0, <2>1, <2>4 DEF TypeOK
  <2> QED BY <1>0, <2>1, <2>3, <2>4, <2>5 DEF Links
<1>4. CASE PopStarts
  <2>1. op = "idle" /\ op' = "pop" /\ UNCHANGED <<in_use, is_head, more, next>>
    BY <1>4 DEF PopStarts, shadow
  <2> QED BY <1>0, <2>1 DEF Links, Growing
<1>5. CASE Recycle
  <2>1. /\ op = "pop" /\ op' # "add" /\ in_use' = in_use \ {cursor} /\ cursor \in in_use
        /\ more' = [more EXCEPT ![cursor] = FALSE] /\ is_head' = is_head \ {cursor}
    BY <1>5 DEF Recycle, Consume
  <2>2. Growing = {} /\ Growing' = {}
    BY <2>1 DEF Growing
  <2>3. \A i \in in_use' : more'[i] = more[i] /\ next'[i] = next[i]
    <3>1. next' = next \/ next' = [next EXCEPT ![cursor] = origin]
      BY <1>5 DEF Recycle, EndOfChain
    <3> QED BY <1>0, <2>1, <3>1 DEF TypeOK
  <2>4. \A i \in in_use : more[i] => next[i] # cursor
    BY <2>1 DEF IInv, Cursor
  <2> QED BY <1>0, <2>1, <2>2, <2>3, <2>4 DEF Links
<1>6. CASE Outside
  BY <1>0, <1>6, OutsideLeaves DEF driver, local, shadow, Links, Growing
<1> QED BY <1>1, <1>2, <1>3, <1>4, <1>5, <1>6 DEF Next, Add, Pop, Outside

(* The descriptor to be recycled next is in use, and no chain leads to it. *)
LEMMA CursorStep == ASSUME IInv, [Next]_vars PROVE Cursor'
<1>0. Cursor /\ Links /\ TypeOK
  BY DEF IInv
<1>1. ASSUME NEW c \in Chains, AddStarts(c) PROVE Cursor'
  BY <1>1 DEF AddStarts, StartAdd, Cursor
<1>2. CASE Add
  BY <1>2 DEF Add, AddDescriptor, Place, AddPublishes, Publish, Cursor
<1>3. CASE PopStarts
  <2>1. op = "idle" /\ cursor' \in is_head /\ UNCHANGED <<in_use, more, next>>
    BY <1>3 DEF PopStarts, Acceptable, shadow
  <2> QED BY <1>0, <2>1 DEF Links, Growing, Cursor
<1>4. CASE Recycle
  <2>1. CASE ~more[cursor]
    BY <1>4, <2>1 DEF Recycle, Cursor
  <2>2. CASE more[cursor]
    <3>1. /\ op = "pop" /\ op' = "pop" /\ cursor' = next[cursor] /\ in_use' = in_use \ {cursor}
          /\ more' = [more EXCEPT ![cursor] = FALSE] /\ UNCHANGED next
      BY <1>4, <2>2 DEF Recycle, Consume
    <3>2. next[cursor] \in in_use \ {cursor} /\ cursor \in in_use
      BY <2>2, <3>1, Recycles
    <3>3. \A i \in in_use' : more'[i] = more[i]
      BY <1>0, <3>1 DEF TypeOK
    <3> QED BY <1>0, <2>2, <3>1, <3>2, <3>3 DEF Links, Growing, Cursor
  <2> QED BY <2>1, <2>2
<1>5. CASE Outside
  BY <1>0, <1>5, OutsideLeaves DEF driver, local, shadow, Cursor
<1> QED BY <1>1, <1>2, <1>3, <1>4, <1>5 DEF Next, Pop, Outside

(* The chain that add() builds is linked to the free list at its end only. *)
LEMMA NewChainStep == ASSUME IInv, [Next]_vars PROVE NewChain'
<1>0. NewChain /\ Links /\ TypeOK
  BY DEF IInv
<1>1. ASSUME NEW c \in Chains, AddStarts(c) PROVE NewChain'
  BY <1>1, ChainIs DEF AddStarts, StartAdd, NewChain
<1>2. CASE AddDescriptor
  <2>1. /\ op = "add" /\ op' = "add" /\ todo # <<>> /\ todo' = Tail(todo)
        /\ in_use' = in_use \cup {free_head} /\ last' = free_head
        /\ more' = [more EXCEPT ![free_head] = TRUE] /\ free_head' = next[free_head]
        /\ UNCHANGED <<size, head, next>>
    BY <1>2 DEF AddDescriptor, Place
  <2>2. free_head \in Slots \ in_use
    BY <2>1, TakesFree
  <2>3. Len(todo') = Len(todo) - 1 /\ Len(todo) \in Nat /\ Len(todo) <= size /\ size \in Nat
    BY <1>0, <2>1 DEF TypeOK, IInv, Counts
  <2>4. \A i \in in_use : more'[i] = more[i]
    BY <1>0, <2>1, <2>2 DEF TypeOK
  <2>5. in_use' \ {last'} = in_use
    BY <2>1, <2>2
  <2>8. Len(todo') # size'
    <3>1. size' = size
      BY <2>1
    <3> QED BY <2>3, <3>1
  <2>6. CASE Len(todo) = size
    <3>1. head = free_head /\ Growing = {}
      BY <1>0, <2>1, <2>3, <2>6 DEF NewChain, Growing
    <3>2. \A i \in in_use : more[i] => next[i] # head
      BY <1>0, <2>2, <3>1 DEF Links
    <3>3. \A i \in in_use' \ {last'} : more'[i] => next'[i] # head'
      BY <2>1, <2>4, <2>5, <3>2
    <3>4. last' \in in_use' /\ head' \in in_use' /\ next'[last'] = free_head'
      BY <2>1, <3>1
    <3> QED BY <2>8, <3>3, <3>4 DEF NewChain
  <2>7. CASE Len(todo) < size
    <3>1. /\ head \in in_use /\ next[last] = free_head
          /\ \A i \in in_use \ {last} : more[i] => next[i] # head
      BY <1>0, <2>1, <2>7 DEF NewChain
    <3>2. \A i \in in_use : more[i] => next[i] # head
      BY <2>2, <3>1
    <3>3. \A i \in in_use' \ {last'} : more'[i] => next'[i] # head'
      BY <2>1, <2>4, <2>5, <3>2
    <3>4. last' \in in_use' /\ head' \in in_use' /\ next'[last'] = free_head'
      BY <2>1, <3>1
    <3> QED BY <2>8, <3>3, <3>4 DEF NewChain
  <2> QED BY <2>3, <2>6, <2>7
<1>3. CASE AddPublishes
  BY <1>3 DEF AddPublishes, Publish, NewChain
<1>4. CASE Pop
  BY <1>4 DEF Pop, PopStarts, Recycle, NewChain
<1>5. CASE Outside
  BY <1>0, <1>5, OutsideLeaves DEF driver, local, shadow, NewChain
<1> QED BY <1>1, <1>2, <1>3, <1>4, <1>5 DEF Next, Add, Outside

-----------------------------------------------------------------------------
(* The free list *)

(* A path without its first descriptor. *)
LEMMA PathTail ==
  ASSUME NEW n \in Nat \ {0}, NEW f \in [1 .. n -> Slots], NEW i, Linked(f, n, i)
  PROVE  \E g \in [1 .. n - 1 -> Slots] :
           Linked(g, n - 1, next[i]) /\ Range(g) = Range(f) \ {i}
<1> DEFINE g == [k \in 1 .. n - 1 |-> f[k + 1]]
<1>1. g \in [1 .. n - 1 -> Slots]
  OBVIOUS
<1>2. f[1] = i /\ \A k, l \in 1 .. n : f[k] = f[l] => k = l
  BY DEF Linked, IsInjective
<1>3. IsInjective(g)
  BY <1>2 DEF IsInjective
<1>4. n - 1 > 0 => g[1] = next[i]
  BY <1>2 DEF Linked
<1>5. \A k \in 1 .. n - 1 - 1 : next[g[k]] = g[k + 1]
  BY DEF Linked
<1>6. Range(g) = Range(f) \ {i}
  <2>1. ASSUME NEW x \in Range(g) PROVE x \in Range(f) \ {i}
    <3>1. PICK k \in 1 .. n - 1 : x = f[k + 1]
      BY DEF Range
    <3> QED BY <3>1, <1>2 DEF Range
  <2>2. ASSUME NEW x \in Range(f) \ {i} PROVE x \in Range(g)
    <3>1. PICK k \in 1 .. n : x = f[k]
      BY DEF Range
    <3>2. k - 1 \in 1 .. n - 1 /\ g[k - 1] = x
      BY <2>2, <3>1, <1>2
    <3> QED BY <3>2 DEF Range
  <2> QED BY <2>1, <2>2
<1> HIDE DEF g
<1>7. Linked(g, n - 1, next[i])
  BY <1>3, <1>4, <1>5 DEF Linked
<1> QED BY <1>1, <1>6, <1>7

(* A path with the descriptor that its last one links to. *)
LEMMA PathExtend ==
  ASSUME NEW m \in Nat \ {0}, NEW r \in [1 .. m -> Slots], NEW i, Linked(r, m, i),
         NEW x \in Slots, next[r[m]] = x, x \notin Range(r)
  PROVE  \E g \in [1 .. m + 1 -> Slots] :
           Linked(g, m + 1, i) /\ g[m + 1] = x /\ Range(g) = Range(r) \cup {x}
<1> DEFINE g == [k \in 1 .. m + 1 |-> IF k = m + 1 THEN x ELSE r[k]]
<1>1. g \in [1 .. m + 1 -> Slots] /\ g[m + 1] = x /\ \A k \in 1 .. m : g[k] = r[k]
  OBVIOUS
<1>2. \A k \in 1 .. m : r[k] # x
  BY DEF Range
<1> HIDE DEF g
<1>3. IsInjective(g)
  BY <1>1, <1>2 DEF Linked, IsInjective
<1>4. g[1] = i
  BY <1>1 DEF Linked
<1>5. \A k \in 1 .. m + 1 - 1 : next[g[k]] = g[k + 1]
  <2> SUFFICES ASSUME NEW k \in 1 .. m PROVE next[g[k]] = g[k + 1]
    OBVIOUS
  <2>1. CASE k = m
    BY <1>1, <2>1
  <2>2. CASE k # m
    BY <1>1, <2>2 DEF Linked
  <2> QED BY <2>1, <2>2
<1>6. Range(g) = Range(r) \cup {x}
  <2>1. ASSUME NEW y \in Range(g) PROVE y \in Range(r) \cup {x}
    BY <1>1 DEF Range
  <2>2. ASSUME NEW y \in Range(r) \cup {x} PROVE y \in Range(g)
    BY <1>1 DEF Range
  <2> QED BY <2>1, <2>2
<1>7. Linked(g, m + 1, i)
  BY <1>3, <1>4, <1>5 DEF Linked
<1> QED BY <1>1, <1>6, <1>7

(* The new links reach exactly the descriptors in S from free_head. *)
Joined(S) ==
  \E p \in Nat : \E f \in [1 .. p -> Slots] :
    /\ IsInjective(f) /\ f[1] = free_head
    /\ \A k \in 1 .. p - 1 : next'[f[k]] = f[k + 1]
    /\ Range(f) = S

(* The end of a recycled chain takes over the old free list. *)
LEMMA PathJoin ==
  ASSUME NEW m \in Nat \ {0}, NEW r \in [1 .. m -> Slots],
         NEW n \in Nat, NEW g \in [1 .. n -> Slots], Recycling(m, r, n, g),
         next \in [Slots -> Slots], next' = [next EXCEPT ![cursor] = origin]
  PROVE  Joined(Range(r) \cup Range(g))
<1>0. /\ Linked(r, m, free_head) /\ r[m] = cursor /\ Linked(g, n, origin)
      /\ Range(r) \cap Range(g) = {}
  BY DEF Recycling
<1> DEFINE f == [k \in 1 .. m + n |-> IF k <= m THEN r[k] ELSE g[k - m]]
<1>1. /\ f \in [1 .. m + n -> Slots]
      /\ \A k \in 1 .. m : f[k] = r[k]
      /\ \A k \in 1 .. m + n : k > m => k - m \in 1 .. n /\ f[k] = g[k - m]
  OBVIOUS
<1>2. \A k \in 1 .. m : \A l \in 1 .. n : r[k] # g[l]
  BY <1>0 DEF Range
<1>3. /\ \A k, l \in 1 .. m : r[k] = r[l] => k = l
      /\ \A k, l \in 1 .. n : g[k] = g[l] => k = l
  BY <1>0 DEF Linked, IsInjective
<1> HIDE DEF f
<1>4. IsInjective(f)
  <2> SUFFICES ASSUME NEW k \in 1 .. m + n, NEW l \in 1 .. m + n, f[k] = f[l] PROVE k = l
    BY <1>1 DEF IsInjective
  <2>1. CASE k <= m /\ l <= m
    BY <1>1, <1>3, <2>1
  <2>2. CASE k > m /\ l > m
    BY <1>1, <1>3, <2>2
  <2>3. CASE k <= m /\ l > m
    BY <1>1, <1>2, <2>3
  <2>4. CASE k > m /\ l <= m
    BY <1>1, <1>2, <2>4
  <2> QED BY <2>1, <2>2, <2>3, <2>4
<1>5. f[1] = free_head
  BY <1>0, <1>1 DEF Linked
<1>6. \A k \in 1 .. m + n - 1 : next'[f[k]] = f[k + 1]
  <2> SUFFICES ASSUME NEW k \in 1 .. m + n - 1 PROVE next'[f[k]] = f[k + 1]
    OBVIOUS
  <2>1. CASE k = m
    <3>1. f[k] = r[m] /\ f[k + 1] = g[1] /\ n > 0
      BY <1>1, <2>1
    <3> QED BY <1>0, <3>1 DEF Linked
  <2>2. CASE k < m
    <3>1. f[k] = r[k] /\ f[k + 1] = r[k + 1] /\ next[r[k]] = r[k + 1] /\ r[k] # r[m]
      BY <1>0, <1>1, <1>3, <2>2 DEF Linked
    <3> QED BY <1>0, <3>1
  <2>3. CASE k > m
    <3>1. k - m \in 1 .. n - 1 /\ f[k] = g[k - m] /\ f[k + 1] = g[k - m + 1]
      BY <1>1, <2>3
    <3>2. next[g[k - m]] = g[k - m + 1] /\ g[k - m] # r[m]
      BY <1>0, <1>2, <3>1 DEF Linked
    <3>3. g[k - m] \in Slots
      BY <3>1
    <3> QED BY <1>0, <3>1, <3>2, <3>3
  <2> QED BY <2>1, <2>2, <2>3
<1>7. Range(f) = Range(r) \cup Range(g)
  <2>1. ASSUME NEW y \in Range(f) PROVE y \in Range(r) \cup Range(g)
    BY <1>1 DEF Range
  <2>2. ASSUME NEW y \in Range(r) PROVE y \in Range(f)
    BY <1>1 DEF Range
  <2>3. ASSUME NEW y \in Range(g) PROVE y \in Range(f)
    <3>1. PICK k \in 1 .. n : y = g[k]
      BY DEF Range
    <3>2. k + m \in 1 .. m + n /\ f[k + m] = y
      BY <1>1, <3>1
    <3> QED BY <1>1, <3>2 DEF Range
  <2> QED BY <2>1, <2>2, <2>3
<1>8. m + n \in Nat
  OBVIOUS
<1>9. PICK p \in Nat : p = m + n
  BY <1>8
<1>10. f \in [1 .. p -> Slots] /\ \A k \in 1 .. p - 1 : next'[f[k]] = f[k + 1]
  BY <1>1, <1>6, <1>9
<1> QED BY <1>4, <1>5, <1>7, <1>10 DEF Joined

(* The free list is whole, or the chain being recycled will make it so. *)
LEMMA FreeListStep == ASSUME IInv, [Next]_vars PROVE FreeList'
<1> USE VirtqueueAssumption
<1>0. FreeList /\ TypeOK
  BY DEF IInv
<1>1. ASSUME NEW c \in Chains, AddStarts(c) PROVE FreeList'
  <2>1. op = "idle" /\ op' = "add" /\ UNCHANGED <<free_head, in_use, next>>
    BY <1>1 DEF AddStarts, StartAdd, shadow
  <2> QED BY <1>0, <2>1 DEF FreeList, FreeListIntact, Linked
<1>2. CASE AddDescriptor
  <2>1. /\ op = "add" /\ op' = "add" /\ todo # <<>> /\ free_head' = next[free_head]
        /\ in_use' = in_use \cup {free_head} /\ UNCHANGED next
    BY <1>2 DEF AddDescriptor, Place
  <2>2. free_head \in Slots \ in_use
    BY <2>1, TakesFree
  <2>3. PICK n \in 0 .. QueueSize : \E f \in [1 .. n -> Slots] :
          Linked(f, n, free_head) /\ Range(f) = Slots \ in_use
    BY <1>0, <2>1 DEF FreeList, FreeListIntact
  <2>4. PICK f \in [1 .. n -> Slots] : Linked(f, n, free_head) /\ Range(f) = Slots \ in_use
    BY <2>3
  <2>5. n \in Nat \ {0} /\ n - 1 \in 0 .. QueueSize
    BY <2>2, <2>4 DEF Range
  <2>6. PICK g \in [1 .. n - 1 -> Slots] :
          Linked(g, n - 1, next[free_head]) /\ Range(g) = Range(f) \ {free_head}
    BY <2>4, <2>5, PathTail
  <2>7. Linked(g, n - 1, free_head)'
    BY <2>1, <2>6 DEF Linked
  <2>8. Range(g) = Slots \ in_use'
    BY <2>1, <2>4, <2>6
  <2>9. FreeListIntact'
    BY <2>5, <2>7, <2>8 DEF FreeListIntact
  <2> QED BY <2>1, <2>9 DEF FreeList
<1>3. CASE AddPublishes
  <2>1. op = "add" /\ op' = "idle" /\ UNCHANGED <<free_head, in_use, next>>
    BY <1>3 DEF AddPublishes, Publish
  <2> QED BY <1>0, <2>1 DEF FreeList, FreeListIntact, Linked
<1>4. CASE PopStarts
  <2>1. /\ op = "idle" /\ op' = "pop" /\ cursor' = free_head' /\ origin' = free_head
        /\ cursor' \in in_use /\ cursor' \in Slots /\ UNCHANGED <<in_use, next>>
    BY <1>4 DEF PopStarts, Acceptable, shadow
  <2>2. PICK n \in 0 .. QueueSize : \E f \in [1 .. n -> Slots] :
          Linked(f, n, free_head) /\ Range(f) = Slots \ in_use
    BY <1>0, <2>1 DEF FreeList, FreeListIntact
  <2>3. PICK g \in [1 .. n -> Slots] : Linked(g, n, free_head) /\ Range(g) = Slots \ in_use
    BY <2>2
  <2>h. PICK h \in Slots : h = cursor'
    BY <2>1
  <2> DEFINE r == [k \in 1 .. 1 |-> h]
  <2>4. r \in [1 .. 1 -> Slots] /\ Range(r) = {h} /\ r[1] = h
    BY DEF Range
  <2>5. IsInjective(r)
    BY DEF IsInjective
  <2> HIDE DEF r
  <2>6. Linked(r, 1, free_head)' /\ Linked(g, n, origin)'
    BY <2>1, <2>3, <2>4, <2>5, <2>h DEF Linked
  <2>7. /\ Range(r) \cap Range(g) = {}
        /\ (Range(r) \ {cursor'}) \cup Range(g) = Slots \ in_use'
    BY <2>1, <2>3, <2>4, <2>h
  <2>8. Recycling(1, r, n, g)'
    BY <2>4, <2>6, <2>7, <2>h DEF Recycling
  <2>9. 1 \in 1 .. QueueSize
    OBVIOUS
  <2> QED BY <2>1, <2>4, <2>8, <2>9 DEF FreeList, FreeListIntact
<1>5. CASE Recycle
  <2>1. /\ op = "pop" /\ in_use' = in_use \ {cursor} /\ cursor \in in_use /\ cursor \in Slots
        /\ in_use \subseteq Slots /\ next \in [Slots -> Slots] /\ UNCHANGED free_head
    BY <1>0, <1>5 DEF Recycle, Consume, TypeOK
  <2>2. PICK m \in 1 .. QueueSize, n \in 0 .. QueueSize :
          \E r \in [1 .. m -> Slots], g \in [1 .. n -> Slots] : Recycling(m, r, n, g)
    BY <1>0, <2>1 DEF FreeList
  <2>3. PICK r \in [1 .. m -> Slots], g \in [1 .. n -> Slots] : Recycling(m, r, n, g)
    BY <2>2
  <2>4. /\ Linked(r, m, free_head) /\ r[m] = cursor /\ Linked(g, n, origin)
        /\ Range(r) \cap Range(g) = {}
        /\ (Range(r) \ {cursor}) \cup Range(g) = Slots \ in_use
    BY <2>3 DEF Recycling
  <2>5. m \in Nat \ {0} /\ n \in Nat
    OBVIOUS
  <2>6. cursor \in Range(r)
    BY <2>4, <2>5 DEF Range
  <2>7. Range(r) \cup Range(g) = Slots \ in_use'
    BY <2>1, <2>4, <2>6
  <2>8. CASE more[cursor]
    <3>1. op' = "pop" /\ cursor' = next[cursor] /\ UNCHANGED <<origin, next>>
      BY <1>5, <2>8 DEF Recycle
    <3>2. next[cursor] \in in_use \ {cursor}
      BY <2>1, <2>8, Recycles
    <3>3. next[cursor] \in Slots /\ next[cursor] \notin Range(r) /\ next[cursor] \notin Range(g)
      BY <2>1, <2>4, <3>2
    <3>4. PICK q \in [1 .. m + 1 -> Slots] :
            /\ Linked(q, m + 1, free_head) /\ q[m + 1] = next[cursor]
            /\ Range(q) = Range(r) \cup {next[cursor]}
      BY <2>4, <2>5, <3>3, PathExtend
    <3>5. m + 1 \in 1 .. QueueSize
      BY <2>5, <3>4, PathBound DEF Linked
    <3>6. Linked(q, m + 1, free_head)' /\ Linked(g, n, origin)'
      BY <2>1, <2>4, <3>1, <3>4 DEF Linked
    <3>7. /\ Range(q) \cap Range(g) = {}
          /\ (Range(q) \ {cursor'}) \cup Range(g) = Slots \ in_use'
      BY <2>4, <2>7, <3>1, <3>3, <3>4
    <3>8. Recycling(m + 1, q, n, g)'
      BY <3>1, <3>4, <3>6, <3>7 DEF Recycling
    <3> QED BY <3>1, <3>5, <3>8 DEF FreeList, FreeListIntact
  <2>9. CASE ~more[cursor]
    <3>1. op' = "idle" /\ next' = [next EXCEPT ![cursor] = origin]
      BY <1>5, <2>9 DEF Recycle, EndOfChain
    <3>j. Joined(Range(r) \cup Range(g))
      BY <2>1, <2>3, <2>5, <3>1, PathJoin
    <3>p. PICK p \in Nat : \E f \in [1 .. p -> Slots] :
            /\ IsInjective(f) /\ f[1] = free_head
            /\ \A k \in 1 .. p - 1 : next'[f[k]] = f[k + 1]
            /\ Range(f) = Range(r) \cup Range(g)
      BY <3>j, Zenon DEF Joined
    <3>2. PICK f \in [1 .. p -> Slots] :
            /\ IsInjective(f) /\ f[1] = free_head
            /\ \A k \in 1 .. p - 1 : next'[f[k]] = f[k + 1]
            /\ Range(f) = Range(r) \cup Range(g)
      BY <3>p, Zenon
    <3>3. p \in 0 .. QueueSize
      BY <3>2, PathBound
    <3>4. f[1] = free_head'
      BY <2>1, <3>2, Zenon
    <3>5. Linked(f, p, free_head)'
      BY <3>2, <3>4, Zenon DEF Linked
    <3>6. FreeListIntact'
      BY <2>7, <3>2, <3>3, <3>5 DEF FreeListIntact
    <3> QED BY <3>1, <3>6 DEF FreeList
  <2> QED BY <2>8, <2>9
<1>6. CASE Outside
  <2>1. UNCHANGED <<op, cursor, origin, free_head, in_use, next>>
    BY <1>6, OutsideLeaves DEF driver, local, shadow
  <2>2. FreeListIntact'
    BY <1>0, <2>1 DEF FreeList, FreeListIntact, Linked
  <2>3. ASSUME NEW m \in 1 .. QueueSize, NEW n \in 0 .. QueueSize,
               NEW r \in [1 .. m -> Slots], NEW g \in [1 .. n -> Slots]
        PROVE  Recycling(m, r, n, g)' <=> Recycling(m, r, n, g)
    BY <2>1 DEF Recycling, Linked
  <2> QED BY <1>0, <2>1, <2>2, <2>3 DEF FreeList
<1> QED BY <1>1, <1>2, <1>3, <1>4, <1>5, <1>6 DEF Next, Add, Pop, Outside

-----------------------------------------------------------------------------
(* The theorems *)

(* The invariant holds in every state. *)
THEOREM Invariance == Spec => []IInv
<1>1. Init => IInv
  BY InitInv
<1>2. IInv /\ [Next]_vars => IInv'
  BY TypeStep, PendingStep, CountsStep, BufsStep, LinksStep, CursorStep, NewChainStep,
     FreeListStep DEF IInv
<1> QED BY <1>1, <1>2, PTL DEF Spec

(* Every component of a VirtQueue stays in its domain; num_used is never   *)
(* more than queue_size.                                                   *)
THEOREM TypeCorrect == Spec => []TypeOK
<1>1. IInv => TypeOK
  BY DEF IInv
<1> QED BY <1>1, Invariance, PTL

(* add_descriptor() never hands out a descriptor the device still has, and *)
(* recycle_descriptors() loses none, whatever the host writes.             *)
THEOREM FreeListSafe == Spec => []FreeListIntact
<1>1. IInv => FreeListIntact
  BY DEF IInv, FreeList
<1> QED BY <1>1, Invariance, PTL

(* recycle_descriptors() reaches the end of every chain that pop_used()    *)
(* accepts: no error leaves a chain half recycled.                         *)
THEOREM RecycleTotal == Spec => []RecycleNeverFails
<1>1. IInv => RecycleNeverFails
  BY Recycles DEF RecycleNeverFails
<1> QED BY <1>1, Invariance, PTL

(* The driver gets every buffer back that pop_used() recycles, and no      *)
(* buffer is in two descriptors.                                           *)
THEOREM Accounted == Spec => []EveryBufferAccounted
<1>1. IInv => EveryBufferAccounted
  BY DEF IInv, Bufs, Counts, Placed, EveryBufferAccounted
<1> QED BY <1>1, Invariance, PTL
=============================================================================
