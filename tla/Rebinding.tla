------------------------------ MODULE Rebinding ------------------------------
(***************************************************************************)
(* start_rebinding() over TLS (features policy_v2, vmcall-raw and main,    *)
(* without spdm_attestation), for several rebinding requests served by one *)
(* new MigTD.  The old MigTD of a request is the TLS client; the new one   *)
(* writes the token, the attributes and the approved SERVTD_EXT hash into  *)
(* fields of its own TDCS, which all its requests share.                   *)
(*                                                                         *)
(* A session starts after the pre-session exchange (module ExchangeMsk),   *)
(* and its stream is in order (module VmcallRaw), so that a message is a   *)
(* member of sent, and the receiver's position orders them.  A message is  *)
(* in sent from the moment its write is issued: it may arrive although the *)
(* write then fails or times out, and it is lost when the receiver gives   *)
(* up waiting for it.                                                      *)
(***************************************************************************)
EXTENDS Integers

CONSTANTS
  Sessions,  (* the rebinding requests                                       *)
  Settings,  (* what the two ends of a request may be: see SettingOK         *)
  NoValue    (* a field that was never written                               *)

(* old_accepts: verify_rebinding_new_cert() of the old MigTD succeeds;     *)
(* new_accepts: verify_rebinding_old_cert() of the new one does;           *)
(* attr: CURR_SERVTD_ATTR of the target TD is the expected one;            *)
(* faults: timeouts, a failing transport, refused TDX module calls.        *)
SettingOK(c) ==
  /\ c.old_accepts \in BOOLEAN /\ c.new_accepts \in BOOLEAN
  /\ c.attr \in BOOLEAN /\ c.faults \in BOOLEAN

ASSUME RebindingAssumption ==
  /\ \A c \in Settings : SettingOK(c)
  /\ NoValue \notin Sessions
  /\ "part" \notin Sessions

VARIABLES
  setting,     (* the settings of each request                               *)
  old,         (* where rebinding_old_prepare() of a request is              *)
  new,         (* where rebinding_new_prepare() of a request is              *)
  sent,        (* the TLS messages of the requests                           *)
  old_result,  (* MigrationResult the old MigTD reports                      *)
  new_result,  (* MigrationResult the new MigTD reports                      *)
  token,       (* SERVTD_REBIND_ACCEPT_TOKEN: the request it comes from      *)
  attr,        (* SERVTD_REBIND_ATTR                                         *)
  hash,        (* SERVTD_ACCEPT_SERVTD_EXT_HASH                              *)
  approved     (* requests for which the old MigTD called                    *)
               (* tdcall_servtd_rebind_approve()                             *)

fieldVars == <<token, attr, hash>>
vars == <<setting, old, new, sent, old_result, new_result, fieldVars, approved>>

OldResults == {"none", "Success", "InvalidParameter", "TdxModuleError",
               "SecureSessionError", "NetworkError"}
NewResults == OldResults \ {"InvalidParameter"}
FieldValues == Sessions \cup {NoValue, "part"}
Messages == {"client_hello", "flight", "certificate", "token", "old_alert", "new_alert"}

Sends(s, ms) == sent' = sent \cup ({s} \X ms)
Arrived(s, m) == <<s, m>> \in sent

OldMoves(s, pc) == old' = [old EXCEPT ![s] = pc] /\ UNCHANGED old_result
NewMoves(s, pc) == new' = [new EXCEPT ![s] = pc] /\ UNCHANGED new_result

OldEnds(s, r) ==
  /\ old' = [old EXCEPT ![s] = "ended"]
  /\ old_result' = [old_result EXCEPT ![s] = r]

NewEnds(s, r) ==
  /\ new' = [new EXCEPT ![s] = "ended"]
  /\ new_result' = [new_result EXCEPT ![s] = r]

(* Something may go wrong in the session s. *)
Faulty(s) == setting[s].faults

newVars == <<new, new_result, fieldVars>>
oldVars == <<old, old_result, approved>>

-----------------------------------------------------------------------------
(* The old MigTD *)

(* read_servtd_ext(), then ratls::client_rebinding() *)
OldStarts(s) ==
  /\ old[s] = "start" /\ setting[s].attr
  /\ OldMoves(s, "flight")
  /\ Sends(s, {"client_hello"})
  /\ UNCHANGED <<setting, newVars, approved>>

OldStartFails(s) ==
  /\ old[s] = "start"
  /\ \/ ~setting[s].attr /\ OldEnds(s, "InvalidParameter")
     \/ /\ Faulty(s)
        /\ \E r \in {"InvalidParameter", "TdxModuleError", "SecureSessionError"} : OldEnds(s, r)
  /\ UNCHANGED <<setting, sent, newVars, approved>>

(* Seeded fault: certificate and token leave before the peer is verified. *)
OldVerifiesLate(s) ==
  /\ old[s] = "flight" /\ Arrived(s, "flight")
  /\ Sends(s, {"certificate", "token"})
  /\ \/ setting[s].old_accepts /\ OldMoves(s, "certificate")
     \/ ~setting[s].old_accepts /\ OldEnds(s, "SecureSessionError")
  /\ UNCHANGED <<setting, newVars, approved>>

(* tls_send_rebind_token(): its write first completes the handshake.  The  *)
(* certificate is issued; a refused peer is only known as a failed write.  *)
OldVerifies(s) ==
  /\ old[s] = "flight" /\ Arrived(s, "flight")
  /\ \/ /\ setting[s].old_accepts
        /\ OldMoves(s, "certificate") /\ Sends(s, {"certificate"})
     \/ /\ ~setting[s].old_accepts
        /\ OldEnds(s, "SecureSessionError") /\ Sends(s, {"old_alert"})
  /\ UNCHANGED <<setting, newVars, approved>>

(* The handshake is out: the record with the token is issued, without      *)
(* waiting for the verdict of the new MigTD.                               *)
OldSendsToken(s) ==
  /\ old[s] = "certificate"
  /\ OldMoves(s, "token") /\ Sends(s, {"token"})
  /\ UNCHANGED <<setting, newVars, approved>>

(* Seeded fault: approve_rebinding() comes before the write of the token. *)
OldApprovesEarly(s) ==
  /\ old[s] = "certificate"
  /\ \/ OldMoves(s, "shutdown") /\ approved' = approved \cup {s}
     \/ Faulty(s) /\ OldEnds(s, "TdxModuleError") /\ UNCHANGED approved
  /\ UNCHANGED <<setting, sent, newVars>>

(* The write is complete: approve_rebinding(), without an answer of the    *)
(* new MigTD.                                                              *)
OldApproves(s) ==
  /\ old[s] = "token"
  /\ \/ OldMoves(s, "shutdown") /\ approved' = approved \cup {s}
     \/ Faulty(s) /\ OldEnds(s, "TdxModuleError") /\ UNCHANGED approved
  /\ UNCHANGED <<setting, sent, newVars>>

OldShutsDown(s) ==
  /\ old[s] = "shutdown"
  /\ OldEnds(s, "Success") \/ (Faulty(s) /\ OldEnds(s, "NetworkError"))
  /\ UNCHANGED <<setting, sent, newVars, approved>>

(* TLS_TIMEOUT expires, or the stream fails, in the handshake or in the    *)
(* write of the token, which may be on its way all the same; without       *)
(* faults only when the new MigTD is gone.                                 *)
OldGivesUp(s) ==
  /\ old[s] \in {"flight", "certificate", "token"}
  /\ Faulty(s) \/ (new[s] = "ended" /\ new_result[s] # "Success")
  /\ \E r \in {"NetworkError", "SecureSessionError"} : OldEnds(s, r)
  /\ UNCHANGED <<setting, sent, newVars, approved>>

-----------------------------------------------------------------------------
(* The new MigTD *)

(* ratls::server_rebinding() *)
NewStarts(s) ==
  /\ new[s] = "start"
  /\ \/ NewMoves(s, "client_hello")
     \/ Faulty(s) /\ (\E r \in {"TdxModuleError", "SecureSessionError"} : NewEnds(s, r))
  /\ UNCHANGED <<setting, sent, oldVars, fieldVars>>

NewAnswers(s) ==
  /\ new[s] = "client_hello" /\ Arrived(s, "client_hello")
  /\ NewMoves(s, "certificate") /\ Sends(s, {"flight"})
  /\ UNCHANGED <<setting, oldVars, fieldVars>>

(* Seeded fault: the verdict on the certificate is not looked at. *)
NewVerifiesAll(s) ==
  /\ new[s] = "certificate" /\ Arrived(s, "certificate")
  /\ NewMoves(s, "token")
  /\ UNCHANGED <<setting, sent, oldVars, fieldVars>>

(* verify_rebinding_old_cert(); tls_session_read_exact() makes a network   *)
(* error of every failure.                                                 *)
NewVerifies(s) ==
  /\ new[s] = "certificate" /\ Arrived(s, "certificate")
  /\ \/ setting[s].new_accepts /\ NewMoves(s, "token") /\ UNCHANGED sent
     \/ ~setting[s].new_accepts /\ NewEnds(s, "NetworkError") /\ Sends(s, {"new_alert"})
  /\ UNCHANGED <<setting, oldVars, fieldVars>>

NewRefused(s) ==
  /\ new[s] = "certificate" /\ Arrived(s, "old_alert")
  /\ NewEnds(s, "NetworkError")
  /\ UNCHANGED <<setting, sent, oldVars, fieldVars>>

(* Seeded fault: other tasks run between the token and the other fields. *)
NewInstallsSuspended(s) ==
  /\ \/ /\ new[s] = "token" /\ Arrived(s, "token")
        /\ token' = s /\ UNCHANGED <<attr, hash>>
        /\ NewMoves(s, "rest")
     \/ /\ new[s] = "rest"
        /\ attr' = s /\ hash' = s /\ UNCHANGED token
        /\ NewMoves(s, "shutdown")
  /\ UNCHANGED <<setting, sent, oldVars>>

(* Seeded fault: one read() takes the place of tls_session_read_exact(),   *)
(* and write_rebinding_session_token() refuses a token of another length.  *)
NewInstallsShort(s) ==
  /\ new[s] = "token" /\ Arrived(s, "token")
  /\ NewEnds(s, "InvalidParameter")
  /\ UNCHANGED <<setting, sent, oldVars, fieldVars>>

(* The token arrives.  From there to the last write nothing is awaited:    *)
(* write_rebinding_session_token(), write_servtd_rebind_attr() and         *)
(* write_approved_servtd_ext_hash() are one step.                          *)
NewInstalls(s) ==
  /\ new[s] = "token" /\ Arrived(s, "token")
  /\ token' = s /\ attr' = s /\ hash' = s
  /\ NewMoves(s, "shutdown")
  /\ UNCHANGED <<setting, sent, oldVars>>

(* The TDX module refuses one of the writes: those before it remain, and   *)
(* the token or the hash, which are several words, may remain in part.     *)
NewInstallFails(s) ==
  /\ Faulty(s) /\ new[s] = "token" /\ Arrived(s, "token")
  /\ \/ token' \in {token, "part"} /\ UNCHANGED <<attr, hash>>
     \/ token' = s /\ UNCHANGED <<attr, hash>>
     \/ token' = s /\ attr' = s /\ hash' \in {hash, "part"}
  /\ NewEnds(s, "TdxModuleError")
  /\ UNCHANGED <<setting, sent, oldVars>>

NewShutsDown(s) ==
  /\ new[s] = "shutdown"
  /\ NewEnds(s, "Success") \/ (Faulty(s) /\ NewEnds(s, "NetworkError"))
  /\ UNCHANGED <<setting, sent, oldVars, fieldVars>>

(* Seeded fault: the wait for the token has no timeout. *)
NewGivesUpNever(s) ==
  /\ new[s] = "client_hello"
  /\ Faulty(s) \/ (old[s] = "ended" /\ ~Arrived(s, "client_hello"))
  /\ NewEnds(s, "NetworkError")
  /\ UNCHANGED <<setting, sent, oldVars, fieldVars>>

(* Seeded fault: what was not read is dropped when the peer closes. *)
NewGivesUpUnread(s) ==
  /\ new[s] \in {"client_hello", "certificate", "token"}
  /\ Faulty(s) \/ old[s] = "ended"
  /\ NewEnds(s, "NetworkError")
  /\ UNCHANGED <<setting, sent, oldVars, fieldVars>>

NewGivesUp(s) ==
  /\ new[s] \in {"client_hello", "certificate", "token"}
  /\ \/ Faulty(s)
     \/ /\ old[s] = "ended"
        /\ new[s] = "client_hello" => ~Arrived(s, "client_hello")
        /\ new[s] = "certificate" => ~Arrived(s, "certificate") /\ ~Arrived(s, "old_alert")
        /\ new[s] = "token" => ~Arrived(s, "token")
  /\ NewEnds(s, "NetworkError")
  /\ UNCHANGED <<setting, sent, oldVars, fieldVars>>

-----------------------------------------------------------------------------
Init ==
  /\ setting \in [Sessions -> Settings]
  /\ old = [s \in Sessions |-> "start"] /\ new = [s \in Sessions |-> "start"]
  /\ sent = {}
  /\ old_result = [s \in Sessions |-> "none"] /\ new_result = [s \in Sessions |-> "none"]
  /\ token = NoValue /\ attr = NoValue /\ hash = NoValue
  /\ approved = {}

OldNext(s) ==
  \/ OldStarts(s) \/ OldStartFails(s) \/ OldVerifies(s) \/ OldSendsToken(s)
  \/ OldApproves(s) \/ OldShutsDown(s) \/ OldGivesUp(s)

NewNext(s) ==
  \/ NewStarts(s) \/ NewAnswers(s) \/ NewVerifies(s) \/ NewRefused(s)
  \/ NewInstalls(s) \/ NewInstallFails(s) \/ NewShutsDown(s) \/ NewGivesUp(s)

Next == \E s \in Sessions : OldNext(s) \/ NewNext(s)

(* Every task is polled after each tick; the host confirms a shutdown.     *)
Spec ==
  /\ Init /\ [][Next]_vars
  /\ \A s \in Sessions : WF_vars(OldNext(s)) /\ WF_vars(NewNext(s))

-----------------------------------------------------------------------------
(* Every component stays in its domain; the new MigTD never reports        *)
(* InvalidParameter, the token being complete when it is written.          *)
TypeOK ==
  /\ setting \in [Sessions -> Settings]
  /\ old \in [Sessions -> {"start", "flight", "certificate", "token", "shutdown", "ended"}]
  /\ new \in [Sessions -> {"start", "client_hello", "certificate", "token", "shutdown", "ended"}]
  /\ sent \subseteq Sessions \X Messages
  /\ old_result \in [Sessions -> OldResults]
  /\ new_result \in [Sessions -> NewResults]
  /\ token \in FieldValues /\ attr \in FieldValues /\ hash \in FieldValues
  /\ approved \subseteq Sessions

(* Requests served at the same time never mix their fields: with the token *)
(* of a request, whose writes did not fail, come its attributes and its    *)
(* SERVTD_EXT hash (rebinding_new_prepare() awaits nothing between them).  *)
InstalledTogether ==
  \A s \in Sessions :
    token = s /\ new_result[s] # "TdxModuleError" => attr = s /\ hash = s

(* A field comes from a request whose two ends accepted each other, and    *)
(* whose target TD had the expected attributes: the token is written only  *)
(* after verify_rebinding_old_cert(), and sent only after                  *)
(* verify_rebinding_new_cert() and read_servtd_ext().                      *)
InstalledIsAccepted ==
  \A s \in Sessions :
    s \in {token, attr, hash} =>
      setting[s].old_accepts /\ setting[s].new_accepts /\ setting[s].attr

(* The two ends are not atomic: the token may arrive although the write of *)
(* tls_send_rebind_token() fails, approve_rebinding() may be refused after *)
(* it, and the old MigTD learns nothing of the new one.  What holds is     *)
(* that a refusal of the old MigTD and a Success of the new one never go   *)
(* together, and that only a fault separates a Success from the approval.  *)
SuccessIsOffered ==
  \A s \in Sessions :
    new_result[s] = "Success" =>
      /\ setting[s].old_accepts /\ setting[s].attr /\ ~Arrived(s, "old_alert")
      /\ old[s] = "ended" /\ s \notin approved => Faulty(s)

(* An approval is only of a request whose token was sent to a MigTD the    *)
(* old one accepted; the new one then ends without installing it only      *)
(* because it refuses the old one or because something failed.             *)
ApprovalIsUsed ==
  \A s \in approved :
    /\ setting[s].old_accepts /\ setting[s].attr /\ Arrived(s, "token")
    /\ new[s] = "ended" /\ new_result[s] # "Success" =>
         Faulty(s) \/ ~setting[s].new_accepts

(* Every request is answered, on both sides. *)
EveryRebindingEnds ==
  \A s \in Sessions : <>(old_result[s] # "none" /\ new_result[s] # "none")

(* A request without faults whose ends accept each other completes the     *)
(* rebinding on both sides, whatever happens to the other requests.        *)
CompatibleComplete ==
  \A s \in Sessions :
    (~Faulty(s) /\ setting[s].old_accepts /\ setting[s].new_accepts /\ setting[s].attr) ~>
      (old_result[s] = "Success" /\ new_result[s] = "Success" /\ s \in approved)
=============================================================================
