----------------------------- MODULE MCRebinding -----------------------------
(* Instances of Rebinding for TLC. *)
EXTENDS Rebinding

MCSettings == [old_accepts : BOOLEAN, new_accepts : BOOLEAN, attr : BOOLEAN,
               faults : BOOLEAN]

(* Everybody accepts, or one check refuses. *)
MCRefusals ==
  {c \in MCSettings : (c.old_accepts /\ c.new_accepts) \/ (c.attr /\ (c.old_accepts \/ c.new_accepts))}
=============================================================================
