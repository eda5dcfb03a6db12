----------------------------- MODULE SpdmSession -----------------------------
(***************************************************************************)
(* One SPDM session of two MigTDs (feature spdm_attestation, policy_v2):   *)
(* spdm_requester_rebind_old() against spdm_responder_rebind_new(), or     *)
(* spdm_requester_transfer_msk() against spdm_responder_transfer_msk().    *)
(*                                                                         *)
(* spdmlib is external: the messages it answers itself are modelled from   *)
(* how the requester and rsp_handle_message() use it.  It signs the        *)
(* transcript recorded before KEY_EXCHANGE, and the MAC of FINISH covers   *)
(* the one recorded before it.  teardown() removes a session.              *)
(*                                                                         *)
(* The host relays both directions in order; it can alter or repeat the    *)
(* vendor-defined requests that travel outside the session.                *)
(***************************************************************************)
EXTENDS Integers, Sequences

CONSTANTS
  Kind,           (* "rebind" or "migration": the caller of the session      *)
  Settings,       (* what the two sides may be: see SettingOK                *)
  Interferences,  (* how many messages the host alters or repeats            *)
  NoValue         (* something that is not there                             *)

(* req_accepts, rsp_accepts: verdict of the policy on the peer's evidence; *)
(* attr: CURR_SERVTD_ATTR of the target TD is the expected one; faults:    *)
(* timeouts, refused TDX module calls, messages altered or repeated.       *)
SettingOK(s) ==
  /\ s.req_accepts \in BOOLEAN /\ s.rsp_accepts \in BOOLEAN
  /\ s.attr \in BOOLEAN /\ s.faults \in BOOLEAN

ASSUME SpdmSessionAssumption ==
  /\ Kind \in {"rebind", "migration"}
  /\ \A s \in Settings : SettingOK(s)
  /\ Interferences \in Nat

VARIABLES
  setting,  (* the settings of the session                                   *)
  req,      (* RequesterContext and the position in the requester's body     *)
  rsp,      (* ResponderContextEx and the loop of rsp_handle_message()       *)
  to_rsp,   (* requests in flight                                            *)
  to_req,   (* responses in flight                                           *)
  sent,     (* the requests outside the session, as the host saw them        *)
  td,       (* what was written: the new MigTD's rebinding fields, and the   *)
            (* token the old one approved                                    *)
  budget    (* interferences left                                            *)

vars == <<setting, req, rsp, to_rsp, to_req, sent, td, budget>>

(* The exchanges of the requester's body, in order. *)
Steps == <<"version", "capability", "algorithm", "pub_key", "key_exchange",
           "attest", "finish", "info", "end_session">>

(* Vendor-defined requests outside the session. *)
Clear == {"pub_key", "attest"}

(* MigrationResult codes; an SpdmStatus carries one as StatusCode::VDM. *)
VdmCodes == {"PolicyUnsatisfiedError", "MutualAttestationError", "TdxModuleError",
             "InvalidParameter"}
Results == {"none", "Success", "SecureSessionError", "NetworkError"} \cup VdmCodes

(* MigrationResult::from(SpdmStatus) *)
FromStatus(status) == IF status \in VdmCodes THEN status ELSE "SecureSessionError"

(* The application error code in an ERROR response: that of the status, or *)
(* 0, which is the code of Success.                                        *)
AppError(status) == IF status \in VdmCodes THEN status ELSE "Success"

(* decode_spdm_session_err() on the ERROR response m: an error of spdmlib  *)
(* is not SpdmErrorVendorDefined.                                          *)
decode_spdm_session_err(m) == IF m.body.code = "spdmlib" THEN "SecureSessionError" ELSE m.body.code

-----------------------------------------------------------------------------
(* The requester *)

Fails(r) == req' = [req EXCEPT !.result = r, !.waiting = FALSE]

(* The elements of the attestation request: TD report over the transcript, *)
(* event log, policy hash and SERVTD_EXT.                                  *)
AttestRequest == [ext |-> "ext", policy |-> "policy", th1 |-> req.before_key_exchange, report |-> "genuine"]

Body ==
  CASE Steps[req.step] = "pub_key" -> [key |-> "key"]
    [] Steps[req.step] = "attest" -> AttestRequest
    [] Steps[req.step] = "finish" -> [mac |-> req.before_finish]
    [] Steps[req.step] = "info" -> [token |-> "token"]
    [] OTHER -> NoValue

Sending == req.result = "none" /\ ~req.waiting /\ req.step <= Len(Steps)

(* read_servtd_ext() refuses an unexpected CURR_SERVTD_ATTR. *)
Prepared == Steps[req.step] = "attest" => setting.attr

(* Seeded fault: a request is sent again before its answer arrived. *)
SendAgain ==
  /\ req.result = "none" /\ req.step <= Len(Steps) /\ Prepared
  /\ to_rsp' = Append(to_rsp, [type |-> Steps[req.step], body |-> Body])
  /\ req' = [req EXCEPT !.waiting = TRUE]
  /\ UNCHANGED <<setting, rsp, to_req, sent, td, budget>>

Send ==
  /\ Sending /\ Prepared
  /\ LET m == [type |-> Steps[req.step], body |-> Body]
     IN /\ to_rsp' = Append(to_rsp, m)
        /\ sent' = IF m.type \in Clear THEN Append(sent, m) ELSE sent
  /\ req' = [req EXCEPT !.waiting = TRUE]
  /\ UNCHANGED <<setting, rsp, to_req, td, budget>>

(* read_servtd_ext() or the TD report fails, or no token can be drawn. *)
SendFails ==
  /\ Sending
  /\ ~Prepared \/ (setting.faults /\ Steps[req.step] \in {"pub_key", "attest", "info"})
  /\ Fails(IF Steps[req.step] = "info" THEN "InvalidParameter" ELSE "SecureSessionError")
  /\ UNCHANGED <<setting, rsp, to_rsp, to_req, sent, td, budget>>

Awaits(type) ==
  /\ req.waiting /\ to_req # <<>>
  /\ Head(to_req).type = type /\ Steps[req.step] = type

NextStep == [req EXCEPT !.step = @ + 1, !.waiting = FALSE]
Received == Head(to_req).body

Consumed ==
  /\ to_req' = Tail(to_req)
  /\ UNCHANGED <<setting, rsp, to_rsp, sent, budget>>

(* An ERROR response, or a response to something else. *)
ReceiveError ==
  /\ req.waiting /\ to_req # <<>> /\ Head(to_req).type # Steps[req.step]
  /\ Fails(IF Head(to_req).type = "error"
           THEN decode_spdm_session_err(Head(to_req)) ELSE "SecureSessionError")
  /\ Consumed /\ UNCHANGED td

(* Negotiation and FINISH, which spdmlib completes. *)
ReceivePlain ==
  /\ \E t \in {"version", "capability", "algorithm", "finish"} : Awaits(t)
  /\ req' = NextStep
  /\ Consumed /\ UNCHANGED td

(* send_and_receive_pub_key(): both keys and their transcript are kept. *)
ReceivePubKey ==
  /\ Awaits("pub_key")
  /\ req' = [NextStep EXCEPT !.before_key_exchange = <<"key", Received.key>>]
  /\ Consumed /\ UNCHANGED td

(* The signature of the responder is over the transcript it recorded. *)
ReceiveKeyExchange ==
  /\ Awaits("key_exchange")
  /\ \/ Received.signed = req.before_key_exchange /\ req' = NextStep
     \/ Received.signed # req.before_key_exchange /\ Fails("SecureSessionError")
  /\ Consumed /\ UNCHANGED td

(* verify_tdreport_data_binding(): the report data are the transcript. *)
Bound(m, th1) == m.th1 = th1

(* Seeded fault: the result of the policy check is not looked at. *)
VerdictUnread(m, accepts, th1) ==
  CASE m.policy # "policy" -> "INVALID_MSG_FIELD"
    [] ~Bound(m, th1) -> "MutualAttestationError"
    [] OTHER -> "ok"

(* What a side makes of the peer's attestation elements m: policy hash,    *)
(* policy check on the TD report, and the binding to its own session.      *)
Verdict(m, accepts, th1) ==
  CASE m.policy # "policy" -> "INVALID_MSG_FIELD"
    [] m.report # "genuine" \/ ~accepts -> "PolicyUnsatisfiedError"
    [] ~Bound(m, th1) -> "MutualAttestationError"
    [] OTHER -> "ok"

(* send_and_receive_sdm_rebind_attest_info(), from the response on *)
ReceiveAttest ==
  /\ Awaits("attest")
  /\ LET v == Verdict(Received, setting.req_accepts, req.before_key_exchange)
     IN \/ v # "ok" /\ Fails(FromStatus(v))
        \/ /\ v = "ok"
           /\ req' = [NextStep EXCEPT !.before_finish = <<AttestRequest, Received>>]
  /\ Consumed /\ UNCHANGED td

(* send_and_receive_sdm_rebind_info(): approve_rebinding() follows the     *)
(* response.                                                               *)
ReceiveInfo ==
  /\ Awaits("info")
  /\ \/ req' = NextStep /\ td' = [td EXCEPT !.approved = "token"]
     \/ setting.faults /\ Fails("SecureSessionError") /\ UNCHANGED td
  /\ Consumed

ReceiveEndSession ==
  /\ Awaits("end_session")
  /\ req' = [NextStep EXCEPT !.result = "Success"]
  /\ Consumed /\ UNCHANGED td

-----------------------------------------------------------------------------
(* The responder *)

Requested(type) == rsp.result = "none" /\ to_rsp # <<>> /\ Head(to_rsp).type = type
Request == Head(to_rsp).body

(* Seeded fault: the loop ends when there is no session yet. *)
AfterMessageNoSession(r, status) ==
  IF r.session \in {"none", "gone"} THEN [r EXCEPT !.result = "Success"] ELSE r

(* rsp_handle_message() after process_message(): r is the context left by  *)
(* the request.  It leaves the loop with Ok once the session is gone,      *)
(* whatever the status is.                                                 *)
AfterMessage(r, status) ==
  CASE r.session = "gone" -> [r EXCEPT !.result = "Success"]
    [] r.session # "gone" /\ (status \in VdmCodes \/ status = "INVALID_STATE_LOCAL") ->
         [r EXCEPT !.result = FromStatus(status)]
    [] OTHER -> r

(* migtd_vdm_msg_rsp_dispatcher_ex(): the response, or an ERROR response.  *)
Answer(r, status, body) ==
  /\ rsp' = AfterMessage(r, status)
  /\ to_rsp' = Tail(to_rsp)
  /\ to_req' = Append(to_req,
       IF status = "ok" THEN [type |-> Head(to_rsp).type, body |-> body]
       ELSE [type |-> "error", body |-> [code |-> AppError(status)]])
  /\ UNCHANGED <<setting, req, sent, budget>>

HandleNegotiation ==
  /\ \E t \in {"version", "capability", "algorithm"} : Requested(t)
  /\ Answer([rsp EXCEPT !.negotiated = Head(to_rsp).type = "algorithm"], "ok", NoValue)
  /\ UNCHANGED td

(* The dispatcher keeps the hashes of a request and of its response. *)
Recorded(request, response) == <<request, response>>

(* handle_exchange_pub_key_req(), with a fresh key at every request.  No   *)
(* such request is sent, or seen by the host, before the negotiation.      *)
HandlePubKey ==
  /\ Requested("pub_key") /\ rsp.negotiated
  /\ Answer([rsp EXCEPT !.keys = @ + 1,
                        !.before_key_exchange = Recorded(Request.key, rsp.keys + 1)],
            "ok", [key |-> rsp.keys + 1])
  /\ UNCHANGED td

HandleKeyExchange ==
  /\ Requested("key_exchange")
  /\ Answer([rsp EXCEPT !.session = "handshaking", !.th1 = rsp.before_key_exchange],
            "ok", [signed |-> rsp.before_key_exchange])
  /\ UNCHANGED td

(* handle_exchange_rebind_attest_info_req() up to its response *)
RebindAttestStatus ==
  CASE rsp.session = "none" \/ rsp.before_finish # NoValue -> "INVALID_STATE_LOCAL"
    [] OTHER -> Verdict(Request, setting.rsp_accepts, rsp.th1)

(* handle_exchange_mig_attest_info_req(): spdm_responder() leaves info at  *)
(* None, and spdm_responder_transfer_msk() does not set it.                *)
MigAttestStatus == IF rsp.info = NoValue THEN "INVALID_MSG_FIELD" ELSE "ok"

AttestStatus == IF Kind = "rebind" THEN RebindAttestStatus ELSE MigAttestStatus

(* The teardown of the session when the peer is refused *)
HandleAttestRefused ==
  /\ Requested("attest") /\ AttestStatus # "ok"
  /\ Answer([rsp EXCEPT !.session = IF AttestStatus \in VdmCodes THEN "gone" ELSE @], AttestStatus, NoValue)
  /\ UNCHANGED td

AttestResponse == [policy |-> "policy", th1 |-> rsp.th1, report |-> "genuine"]

HandleAttest ==
  /\ Requested("attest") /\ AttestStatus = "ok"
  /\ LET r == [rsp EXCEPT !.servtd_ext = Request.ext]
     IN \/ Answer([r EXCEPT !.before_finish = Recorded(Request, AttestResponse)], "ok", AttestResponse)
        \/ setting.faults /\ Answer(r, "INVALID_STATE_LOCAL", NoValue)
  /\ UNCHANGED td

HandleFinish ==
  /\ Requested("finish")
  /\ to_rsp' = Tail(to_rsp)
  /\ \/ /\ Request.mac = rsp.before_finish
        /\ rsp' = [rsp EXCEPT !.session = "established"]
        /\ to_req' = Append(to_req, [type |-> "finish", body |-> NoValue])
     \/ /\ Request.mac # rsp.before_finish
        /\ to_req' = Append(to_req, [type |-> "error", body |-> [code |-> "spdmlib"]])
        /\ UNCHANGED rsp
  /\ UNCHANGED <<setting, req, sent, td, budget>>

(* The fields in the order of handle_exchange_rebind_info_req(): token,    *)
(* approved SERVTD_EXT hash, attributes.  The first n are written, and the *)
(* next one possibly in part, being several words.                         *)
Writes(n) ==
  \E partly \in BOOLEAN :
    td' = [td EXCEPT
      !.token = IF n >= 1 THEN Request.token ELSE IF partly THEN "part" ELSE @,
      !.hash = IF n >= 2 THEN <<"hash", rsp.servtd_ext>> ELSE IF n = 1 /\ partly THEN <<"hash", "part">> ELSE @,
      !.attr = IF n >= 3 THEN <<"attr", rsp.servtd_ext>> ELSE @]

(* Seeded fault: the response does not depend on the writes. *)
HandleInfoUnchecked ==
  /\ Requested("info") /\ rsp.session = "established"
  /\ \E n \in 0..3 : Writes(n)
  /\ Answer(rsp, "ok", NoValue)

HandleInfo ==
  /\ Requested("info") /\ rsp.session = "established"
  /\ \/ Writes(3) /\ Answer(rsp, "ok", NoValue)
     \/ setting.faults /\ (\E n \in 0..2 : Writes(n)) /\ Answer(rsp, "TdxModuleError", NoValue)

HandleEndSession ==
  /\ Requested("end_session")
  /\ Answer([rsp EXCEPT !.session = "gone", !.ended = TRUE], "ok", NoValue)
  /\ UNCHANGED td

-----------------------------------------------------------------------------
(* The environment *)

(* What ends a wait: SPDM_TIMEOUT, or an error of the stream, of which     *)
(* MigtdTransport makes a status of spdmlib.                               *)
TransportErrors == {"NetworkError", FromStatus("SEND_FAIL")}

(* Without faults a side gives up only when its peer is gone and nothing   *)
(* is left to read.                                                        *)
RequesterGivesUp ==
  /\ req.result = "none"
  /\ setting.faults \/ (rsp.result # "none" /\ to_req = <<>>)
  /\ \E r \in TransportErrors : Fails(r)
  /\ UNCHANGED <<setting, rsp, to_rsp, to_req, sent, td, budget>>

(* Seeded fault: only the handshake is under the timeout. *)
ResponderGivesUpEarly ==
  /\ setting.faults /\ rsp.result = "none" /\ rsp.session = "none"
  /\ rsp' = [rsp EXCEPT !.result = "NetworkError"]
  /\ UNCHANGED <<setting, req, to_rsp, to_req, sent, td, budget>>

ResponderGivesUp ==
  /\ rsp.result = "none"
  /\ setting.faults \/ (req.result # "none" /\ to_rsp = <<>>)
  /\ \E r \in TransportErrors : rsp' = [rsp EXCEPT !.result = r]
  /\ UNCHANGED <<setting, req, to_rsp, to_req, sent, td, budget>>

(* One element of a message outside the session changes on its way; the    *)
(* report no longer verifies when its data, the transcript, do.            *)
Altered(m, key) ==
  CASE m.type = "pub_key" -> {[m EXCEPT !.body.key = key]}
    [] m.type = "attest" -> {[m EXCEPT !.body[f] = "altered"] : f \in DOMAIN m.body \ {"th1"}}

HostAlters ==
  /\ budget > 0 /\ budget' = budget - 1
  /\ \/ /\ to_rsp # <<>> /\ Head(to_rsp).type \in Clear
        /\ \E m \in Altered(Head(to_rsp), "altered") : to_rsp' = <<m>> \o Tail(to_rsp)
        /\ UNCHANGED to_req
     \/ /\ to_req # <<>> /\ Head(to_req).type \in Clear
        /\ \E m \in Altered(Head(to_req), 0) : to_req' = <<m>> \o Tail(to_req)
        /\ UNCHANGED to_rsp
  /\ UNCHANGED <<setting, req, rsp, sent, td>>

(* A request outside the session arrives once more, at any later time. *)
HostRepeats ==
  /\ budget > 0 /\ budget' = budget - 1
  /\ \E i \in DOMAIN sent : to_rsp' = Append(to_rsp, sent[i])
  /\ UNCHANGED <<setting, req, rsp, to_req, sent, td>>

Init ==
  /\ setting \in Settings
  /\ req = [step |-> 1, waiting |-> FALSE, result |-> "none",
            before_key_exchange |-> NoValue, before_finish |-> NoValue]
  /\ rsp = [info |-> IF Kind = "rebind" THEN "RebindInformation" ELSE NoValue,
            result |-> "none", negotiated |-> FALSE, keys |-> 0, th1 |-> NoValue,
            session |-> "none", servtd_ext |-> NoValue, ended |-> FALSE,
            before_key_exchange |-> NoValue, before_finish |-> NoValue]
  /\ to_rsp = <<>> /\ to_req = <<>> /\ sent = <<>>
  /\ td = [token |-> NoValue, hash |-> NoValue, attr |-> NoValue, approved |-> NoValue]
  /\ budget = IF setting.faults THEN Interferences ELSE 0

Requester ==
  \/ Send \/ SendFails
  \/ ReceiveError \/ ReceivePlain \/ ReceivePubKey \/ ReceiveKeyExchange
  \/ ReceiveAttest \/ ReceiveInfo \/ ReceiveEndSession
  \/ RequesterGivesUp

Responder ==
  \/ HandleNegotiation \/ HandlePubKey \/ HandleKeyExchange
  \/ HandleAttestRefused \/ HandleAttest \/ HandleFinish
  \/ HandleInfo \/ HandleEndSession
  \/ ResponderGivesUp

Next == Requester \/ Responder \/ HostAlters \/ HostRepeats

(* The executor polls a side whose message arrived or whose timer expired. *)
Spec == Init /\ [][Next]_vars /\ WF_vars(Requester) /\ WF_vars(Responder)

-----------------------------------------------------------------------------
(* Every component stays in its domain; in particular the responder makes  *)
(* one key for the request of the requester and one per repetition.        *)
TypeOK ==
  /\ setting \in Settings
  /\ req.step \in 1..Len(Steps) + 1 /\ req.waiting \in BOOLEAN /\ req.result \in Results
  /\ rsp.result \in Results
  /\ rsp.session \in {"none", "handshaking", "established", "gone"}
  /\ rsp.keys \in 0..Interferences + 1
  /\ td.token \in {NoValue, "part", "token"} /\ td.approved \in {NoValue, "token"}
  /\ budget \in 0..Interferences

(* The old MigTD approves the rebinding (approve_rebinding() at the end of *)
(* send_and_receive_sdm_rebind_info()) only with the token, the hash and   *)
(* the attributes complete in the fields of the new one.                   *)
ApprovedIsInstalled ==
  td.approved # NoValue =>
    /\ td.token = td.approved
    /\ td.hash = <<"hash", "ext">>
    /\ td.attr = <<"attr", "ext">>

(* Whatever the host alters or repeats, the new MigTD writes a field only  *)
(* in a session whose ends accepted each other's evidence, recorded the    *)
(* same messages, and with the SERVTD_EXT the old one read.                *)
InstalledIsAttested ==
  (\E f \in {"token", "hash", "attr"} : td[f] # NoValue) =>
    /\ setting.req_accepts /\ setting.rsp_accepts /\ setting.attr
    /\ req.before_key_exchange = rsp.th1
    /\ req.before_finish = rsp.before_finish
    /\ rsp.servtd_ext = "ext"

(* Both requests are answered: no refusal, lost message or failed write    *)
(* leaves a side waiting (SPDM_TIMEOUT).                                   *)
BothSidesEnd == <>(req.result # "none" /\ rsp.result # "none")

(* Two MigTDs that accept each other complete the rebinding when nothing   *)
(* fails.                                                                  *)
CompatibleComplete ==
  (setting.req_accepts /\ setting.rsp_accepts /\ setting.attr /\ ~setting.faults) ~>
    (req.result = "Success" /\ rsp.result = "Success" /\ td.approved = "token")

(* The comment in rsp_handle_message(): the loop ends without an error     *)
(* upon END_SESSION.                                                       *)
EndsUponEndSession == rsp.result = "Success" => rsp.ended

(* readme.md: a MigTD that does not handle the migration and set the MSK   *)
(* reports an error status.  No message carries an MSK before "info".      *)
FailureIsReported == req.result = "Success" => req.step > Len(Steps)

(* AzCVMEmu.md runs a source and a destination with spdm_attestation: the  *)
(* migration of MigTDs that accept each other completes.                   *)
MigrationCompletes ==
  (setting.req_accepts /\ setting.rsp_accepts /\ setting.attr) ~> rsp.result = "Success"
=============================================================================
