-------------------------- MODULE DescriptorChains --------------------------
(***************************************************************************)
(* What a VirtQueue promises its driver: a chain of buffers that was added *)
(* is out under a token of its own, with the buffers it was added with, in *)
(* order, until it is returned, once.                                      *)
(***************************************************************************)
EXTENDS SequencesExt

CONSTANTS
  Tokens,  (* the values add() returns                                       *)
  Chains   (* the sequences of buffers a driver may add                      *)

VARIABLE
  out      (* the chain of each token that is out                            *)

Init == out = [t \in {} |-> <<>>]

Add ==
  \E t \in Tokens \ DOMAIN out, c \in Chains :
    /\ \A u \in DOMAIN out : ToSet(out[u]) \cap ToSet(c) = {}
    /\ out' = [u \in DOMAIN out \cup {t} |-> IF u = t THEN c ELSE out[u]]

Return ==
  \E t \in DOMAIN out : out' = [u \in DOMAIN out \ {t} |-> out[u]]

Next == Add \/ Return

Spec == Init /\ [][Next]_out
=============================================================================
