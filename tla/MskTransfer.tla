----------------------------- MODULE MskTransfer -----------------------------
(***************************************************************************)
(* What exchange_msk() promises of a pair of MigTDs, whatever the session  *)
(* protocol between them.  A side whose request succeeds has accepted its  *)
(* peer and was accepted by it, and leaves in its target TD the peer's     *)
(* whole key and the migration version both sides compute.  A side that    *)
(* fails leaves the TD alone, or partly written when the TDX module        *)
(* refused one of the writes.  The two outcomes are otherwise independent. *)
(***************************************************************************)
EXTENDS Integers

CONSTANTS
  Sides,      (* the source and the destination MigTD                        *)
  PeerOf,     (* PeerOf[p]: the other one                                    *)
  KeyFields,  (* 64-bit fields of a migration session key                    *)
  Agreed(_),  (* Agreed(s): the version two sides with settings s agree on   *)
  Rounds,     (* how often the VMM requests the migration                    *)
  NoValue     (* a TD field that was never written                           *)

VARIABLES
  setting,    (* what the TDX module reports on each side                    *)
  round,      (* the current pair of requests                                *)
  accepted,   (* the sides that accepted their peer's evidence in this round *)
  result,     (* the outcome of each side's request                          *)
  mig_version,(* MIG_VERSION of the target TD of each side                   *)
  mig_dec_key (* MIG_DEC_KEY of the target TD of each side                   *)

transferVars == <<setting, round, accepted, result, mig_version, mig_dec_key>>

Fields == 1..KeyFields
KeyOf(p) == [owner |-> p, round |-> round]
Open(p) == result[p] = "none"

Accept(p) ==
  /\ Open(p)
  /\ accepted' = accepted \cup {p}
  /\ UNCHANGED <<setting, round, result, mig_version, mig_dec_key>>

Fail(p) ==
  /\ Open(p)
  /\ result' = [result EXCEPT ![p] = "failed"]
  /\ UNCHANGED <<setting, round, accepted, mig_version, mig_dec_key>>

Install(p) ==
  /\ Open(p) /\ accepted = Sides
  /\ mig_version' = [mig_version EXCEPT ![p] = Agreed(setting)]
  /\ mig_dec_key' = [mig_dec_key EXCEPT ![p] = [i \in Fields |-> KeyOf(PeerOf[p])]]
  /\ result' = [result EXCEPT ![p] = "Success"]
  /\ UNCHANGED <<setting, round, accepted>>

(* The write of field k+1 is refused. *)
InstallPart(p, k) ==
  /\ Open(p) /\ accepted = Sides
  /\ mig_version' = [mig_version EXCEPT ![p] = Agreed(setting)]
  /\ mig_dec_key' = [mig_dec_key EXCEPT ![p] =
       [i \in Fields |-> IF i <= k THEN KeyOf(PeerOf[p]) ELSE @[i]]]
  /\ result' = [result EXCEPT ![p] = "failed"]
  /\ UNCHANGED <<setting, round, accepted>>

Again ==
  /\ round < Rounds
  /\ \A p \in Sides : ~Open(p)
  /\ round' = round + 1
  /\ accepted' = {}
  /\ result' = [p \in Sides |-> "none"]
  /\ UNCHANGED <<setting, mig_version, mig_dec_key>>

Init ==
  /\ round = 1
  /\ accepted = {}
  /\ result = [p \in Sides |-> "none"]
  /\ mig_version = [p \in Sides |-> NoValue]
  /\ mig_dec_key = [p \in Sides |-> [i \in Fields |-> NoValue]]

Next ==
  \/ \E p \in Sides :
       \/ Accept(p)
       \/ Fail(p)
       \/ Install(p)
       \/ \E k \in 0..KeyFields - 1 : InstallPart(p, k)
  \/ Again

Spec == Init /\ [][Next]_transferVars
=============================================================================
