---------------------------- MODULE MCSpdmSession ----------------------------
(* Instances of SpdmSession for TLC. *)
EXTENDS SpdmSession

MCAll == [req_accepts : BOOLEAN, rsp_accepts : BOOLEAN, attr : BOOLEAN, faults : BOOLEAN]
MCFaultless == {s \in MCAll : ~s.faults}
=============================================================================
