----------------------------- MODULE MCVirtqueue -----------------------------
(***************************************************************************)
(* Virtqueue with interchangeable buffers, and the chains it implements.   *)
(***************************************************************************)
EXTENDS Virtqueue, TLC

Symmetry == Permutations(Buffers)

(* The buffers from descriptor i to the end of its chain, at most n. *)
ChainFrom[n \in 0 .. QueueSize, i \in Slots] ==
  IF n = 0 THEN <<>>
  ELSE <<buf[i]>> \o (IF more[i] THEN ChainFrom[n - 1, next[i]] ELSE <<>>)

Popping == IF op = "pop" THEN {head} ELSE {}

Chained == INSTANCE DescriptorChains WITH
  Tokens <- Slots,
  out <- [h \in is_head \cup Popping |->
            IF h \in Popping THEN got \o ChainFrom[QueueSize, cursor]
            ELSE ChainFrom[QueueSize, h]]

(* add() and pop_used() are those of DescriptorChains, whatever the host   *)
(* writes: between its add() and its pop_used() a chain keeps its buffers, *)
(* in order, and shares none with another chain.                           *)
ImplementsChains == Chained!Spec
=============================================================================
