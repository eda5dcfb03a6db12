----------------------------- MODULE ExchangeMsk -----------------------------
(***************************************************************************)
(* exchange_msk() of two MigTDs over TLS (features policy_v2 and main,     *)
(* without spdm_attestation): initial-data binding, transport, pre-session *)
(* exchange, RA-TLS handshake, exchange of ExchangeInformation, and the    *)
(* writes to the target TD.  The source is the TLS client.                 *)
(*                                                                         *)
(* The byte stream below is reliable and in order (module VmcallRaw); the  *)
(* host can alter what travels in the clear, stop delivering, and the TDX  *)
(* module can refuse any call.  From the last await to the report a side   *)
(* runs without suspension: those writes are one step.                     *)
(***************************************************************************)
EXTENDS Integers, Sequences, FiniteSetsExt

CONSTANTS
  Settings,   (* what a side may be: see SettingOK                           *)
  KeyFields,  (* fields of MigrationSessionKey (4 in the code)               *)
  Rounds,     (* how often the VMM requests the migration                    *)
  NoValue     (* a TD field that was never written                           *)

Sides == {"src", "dst"}
PeerOf == [p \in Sides |-> IF p = "src" THEN "dst" ELSE "src"]
Fields == 1..KeyFields

(* hello: pre-session versions; min_ver, max_ver: import or export versions*)
(* of the TDX module; policy: the configured blob; accepts: verdict of the *)
(* policy on the peer's evidence; attr: CURR_SERVTD_ATTR is the expected   *)
(* one; faults: timeouts, altered packets, refused TDX module calls.       *)
SettingOK(s) ==
  /\ s.min_ver \in Nat /\ s.max_ver \in Nat
  /\ s.lowest \in Nat /\ s.highest \in Nat
  /\ s.accepts \in BOOLEAN /\ s.attr \in BOOLEAN /\ s.faults \in BOOLEAN

ASSUME ExchangeMskAssumption ==
  /\ \A s \in Settings : SettingOK(s)
  /\ KeyFields \in Nat \ {0}
  /\ Rounds \in Nat \ {0}
  /\ NoValue \notin Nat

VARIABLES
  setting,     (* the settings of each side                                  *)
  round,       (* the current pair of requests                               *)
  pc,          (* where exchange_msk() of a side is                          *)
  net,         (* messages in flight to a side                               *)
  peer_data,   (* the blob pre_session_data_exchange() returned              *)
  remote,      (* remote_information                                         *)
  accepted,    (* sides whose verify_peer_cert() succeeded                   *)
  result,      (* MigrationResult reported for the request                   *)
  mig_version, (* MIG_VERSION of the side's target TD                        *)
  mig_dec_key  (* MIG_DEC_KEY of the side's target TD                        *)

vars == <<setting, round, pc, net, peer_data, remote, accepted, result,
          mig_version, mig_dec_key>>

tdVars == <<mig_version, mig_dec_key>>

(* Something may go wrong on side p or on the way to it. *)
Faulty(p) == setting[p].faults

KeyOf(p) == [owner |-> p, round |-> round]

(* Blobs: the configured one of a side, or what an alteration makes of it. *)
Blob(p) == [of |-> p]
AlteredBlob == [of |-> "other"]
EmptyBlob == [of |-> "empty"]

Results == {"none", "Success", "InvalidParameter", "NetworkError",
            "SecureSessionError", "MutualAttestationError", "TdxModuleError",
            "InvalidPolicyError", "PolicyUnsatisfiedError"}

Send(p, ms) == net' = [net EXCEPT ![p] = Tail(@), ![PeerOf[p]] = @ \o ms]
Awaits(p, type) == net[p] # <<>> /\ Head(net[p]).type = type

(* The request ends with an error, and ms are the last messages sent. *)
Ends(p, r, ms) ==
  /\ pc' = [pc EXCEPT ![p] = "ended"]
  /\ result' = [result EXCEPT ![p] = r]
  /\ net' = [net EXCEPT ![p] = <<>>, ![PeerOf[p]] = @ \o ms]
  /\ UNCHANGED <<setting, round, peer_data, remote, tdVars>>

-----------------------------------------------------------------------------
(* Up to the secure session *)

(* verify_init_migtd_data_policy_binding() and setup_transport() *)
Begin(p) ==
  /\ pc[p] = "new"
  /\ pc' = [pc EXCEPT ![p] = "hello"]
  /\ net' = [net EXCEPT ![PeerOf[p]] =
       Append(@, [type |-> "hello", lowest |-> setting[p].lowest, highest |-> setting[p].highest])]
  /\ UNCHANGED <<setting, round, peer_data, remote, accepted, result, tdVars>>

BeginFails(p) ==
  /\ Faulty(p) /\ pc[p] = "new"
  /\ \E r \in {"PolicyUnsatisfiedError", "NetworkError"} : Ends(p, r, <<>>)
  /\ UNCHANGED accepted

(* Seeded fault: the highest version of the peer must be a newer one. *)
NegotiableNewer(p, m) == setting[p].highest < m.highest

(* negotiate_supported_version() *)
Negotiable(p, m) ==
  \E v \in setting[p].lowest..setting[p].highest : v \in m.lowest..m.highest

ReceiveHello(p) ==
  /\ pc[p] = "hello" /\ Awaits(p, "hello")
  /\ UNCHANGED accepted
  /\ \/ /\ ~Negotiable(p, Head(net[p]))
        /\ Ends(p, "InvalidParameter", <<>>)
     \/ /\ Negotiable(p, Head(net[p]))
        /\ pc' = [pc EXCEPT ![p] = "data"]
        /\ Send(p, <<[type |-> "data", blob |-> Blob(p)]>>)
        /\ UNCHANGED <<setting, round, peer_data, remote, result, tdVars>>

(* Seeded fault: an empty policy or issuer chain is taken as it is. *)
ReceiveDataUnchecked(p) ==
  /\ pc[p] = "data" /\ Awaits(p, "data")
  /\ pc' = [pc EXCEPT ![p] = "start"]
  /\ peer_data' = [peer_data EXCEPT ![p] = Head(net[p]).blob]
  /\ Send(p, <<[type |-> "start"]>>)
  /\ UNCHANGED <<setting, round, remote, accepted, result, tdVars>>

(* decode_peer_data() and the check for an empty policy or issuer chain *)
ReceiveData(p) ==
  /\ pc[p] = "data" /\ Awaits(p, "data")
  /\ UNCHANGED accepted
  /\ \/ /\ Head(net[p]).blob = EmptyBlob
        /\ Ends(p, "InvalidParameter", <<>>)
     \/ /\ Head(net[p]).blob # EmptyBlob
        /\ pc' = [pc EXCEPT ![p] = "start"]
        /\ peer_data' = [peer_data EXCEPT ![p] = Head(net[p]).blob]
        /\ Send(p, <<[type |-> "start"]>>)
        /\ UNCHANGED <<setting, round, remote, result, tdVars>>

(* After the start packet: exchange_info() reads the local key and the     *)
(* versions, ratls::client() or ratls::server() obtains a quote, and the   *)
(* handshake begins.                                                       *)
ReceiveStart(p) ==
  /\ pc[p] = "start" /\ Awaits(p, "start")
  /\ pc' = [pc EXCEPT ![p] = IF p = "src" THEN "flight" ELSE "client_hello"]
  /\ Send(p, IF p = "src" THEN <<[type |-> "client_hello"]>> ELSE <<>>)
  /\ UNCHANGED <<setting, round, peer_data, remote, accepted, result, tdVars>>

StartFails(p) ==
  /\ Faulty(p) /\ pc[p] = "start" /\ Awaits(p, "start")
  /\ \E r \in {"TdxModuleError", "InvalidParameter", "MutualAttestationError", "SecureSessionError"} :
       Ends(p, r, <<>>)
  /\ UNCHANGED accepted

-----------------------------------------------------------------------------
(* The RA-TLS session *)

(* create_certificate_for_client() and ..._for_server(): the quote over    *)
(* the key, the event log and the hash of the configured blob.             *)
Certificate(p, type) == [type |-> type, policy |-> Blob(p)]

(* Seeded fault: the policy hash of the certificate is not compared with   *)
(* the blob received before the session.                                   *)
VerdictNoHash(p) == IF ~setting[p].accepts THEN "PolicyUnsatisfiedError" ELSE "ok"

(* verify_peer_cert(): the policy hash of the certificate is that of the   *)
(* blob received before; authenticate_remote(), and the quote binds the    *)
(* key of the certificate.                                                 *)
Verdict(p) ==
  CASE Head(net[p]).policy # peer_data[p] -> "InvalidPolicyError"
    [] ~setting[p].accepts -> "PolicyUnsatisfiedError"
    [] OTHER -> "ok"

Info(p) == [type |-> "info", min_ver |-> setting[p].min_ver,
            max_ver |-> setting[p].max_ver, key |-> KeyOf(p)]

InTls == {"flight", "client_hello", "certificate", "read"}

(* Seeded fault: the server's information follows its first flight. *)
ReceiveClientHelloEarly ==
  /\ pc["dst"] = "client_hello" /\ Awaits("dst", "client_hello")
  /\ pc' = [pc EXCEPT !["dst"] = "certificate"]
  /\ Send("dst", <<Certificate("dst", "flight"), Info("dst")>>)
  /\ UNCHANGED <<setting, round, peer_data, remote, accepted, result, tdVars>>

ReceiveClientHello ==
  /\ pc["dst"] = "client_hello" /\ Awaits("dst", "client_hello")
  /\ pc' = [pc EXCEPT !["dst"] = "certificate"]
  /\ Send("dst", <<Certificate("dst", "flight")>>)
  /\ UNCHANGED <<setting, round, peer_data, remote, accepted, result, tdVars>>

(* The peer's certificate arrives: in the server's flight, or in the       *)
(* client's answer.  The client then sends its own and its information at  *)
(* once, without waiting for the verdict of the server.  If the alert      *)
(* cannot be written the verdict is lost with it (handle_tls_error).       *)
ReceiveCertificate(p) ==
  /\ \/ p = "src" /\ pc[p] = "flight" /\ Awaits(p, "flight")
     \/ p = "dst" /\ pc[p] = "certificate" /\ Awaits(p, "certificate")
  /\ \/ /\ Verdict(p) # "ok"
        /\ \/ Ends(p, Verdict(p), <<[type |-> "alert"]>>)
           \/ Faulty(p) /\ Ends(p, "SecureSessionError", <<>>)
        /\ UNCHANGED accepted
     \/ /\ Verdict(p) = "ok"
        /\ accepted' = accepted \cup {p}
        /\ pc' = [pc EXCEPT ![p] = "read"]
        /\ Send(p, IF p = "src" THEN <<Certificate(p, "certificate"), Info(p)>> ELSE <<Info(p)>>)
        /\ UNCHANGED <<setting, round, peer_data, remote, result, tdVars>>

(* An alert of the peer fails whatever TLS operation reads it. *)
ReceiveAlert(p) ==
  /\ pc[p] \in InTls /\ Awaits(p, "alert")
  /\ Ends(p, "SecureSessionError", <<>>)
  /\ UNCHANGED accepted

ReceiveInfo(p) ==
  /\ pc[p] = "read" /\ Awaits(p, "info")
  /\ pc' = [pc EXCEPT ![p] = "shutdown"]
  /\ remote' = [remote EXCEPT ![p] = Head(net[p])]
  /\ Send(p, <<>>)
  /\ UNCHANGED <<setting, round, peer_data, accepted, result, tdVars>>

-----------------------------------------------------------------------------
(* After the session *)

(* Seeded fault: each side takes the highest version it supports itself. *)
cal_mig_version_own(p, local, other) == [ok |-> TRUE, version |-> local.max_ver]

(* cal_mig_version() of side p: the source's range is the export range. *)
cal_mig_version(p, local, other) ==
  LET export == IF p = "src" THEN local ELSE other
      import == IF p = "src" THEN other ELSE local
  IN [ok |-> /\ export.min_ver <= export.max_ver
             /\ import.min_ver <= import.max_ver
             /\ export.max_ver >= import.min_ver
             /\ import.max_ver >= export.min_ver,
      version |-> IF export.max_ver <= import.max_ver THEN export.max_ver ELSE import.max_ver]

MigVersion(p) == cal_mig_version(p, setting[p], remote[p])

(* shutdown_transport() succeeded, and the checks before the first write. *)
MayWrite(p) == MigVersion(p).ok /\ setting[p].attr

Refused(p) ==
  /\ pc[p] = "shutdown" /\ ~MayWrite(p)
  /\ Ends(p, "InvalidParameter", <<>>)
  /\ UNCHANGED accepted

(* Seeded fault: write_msk() stops before the last field and succeeds. *)
write_msk_short(p, n) ==
  mig_dec_key' = [mig_dec_key EXCEPT ![p] =
    [i \in Fields |-> IF i <= n - 1 THEN remote[p].key ELSE @[i]]]

(* write_msk(): the first n fields are written. *)
write_msk(p, n) ==
  mig_dec_key' = [mig_dec_key EXCEPT ![p] =
    [i \in Fields |-> IF i <= n THEN remote[p].key ELSE @[i]]]

(* set_mig_version() and write_msk(), all of it, then the report. *)
Install(p) ==
  /\ pc[p] = "shutdown" /\ MayWrite(p)
  /\ mig_version' = [mig_version EXCEPT ![p] = MigVersion(p).version]
  /\ write_msk(p, KeyFields)
  /\ pc' = [pc EXCEPT ![p] = "ended"]
  /\ result' = [result EXCEPT ![p] = "Success"]
  /\ UNCHANGED <<setting, round, net, peer_data, remote, accepted>>

(* The TDX module refuses the version, or field n+1 of the key. *)
InstallFails(p) ==
  /\ Faulty(p) /\ pc[p] = "shutdown" /\ MayWrite(p)
  /\ pc' = [pc EXCEPT ![p] = "ended"]
  /\ result' = [result EXCEPT ![p] = "TdxModuleError"]
  /\ \/ UNCHANGED tdVars
     \/ /\ mig_version' = [mig_version EXCEPT ![p] = MigVersion(p).version]
        /\ \E n \in 0..KeyFields - 1 : write_msk(p, n)
  /\ UNCHANGED <<setting, round, net, peer_data, remote, accepted>>

-----------------------------------------------------------------------------
(* The environment *)

(* Seeded fault: only the pre-session exchange is under with_timeout(). *)
GivesUpNever(p) ==
  /\ pc[p] \in {"hello", "data", "start"} /\ Faulty(p)
  /\ Ends(p, "NetworkError", <<>>)
  /\ UNCHANGED accepted

(* A with_timeout() expires, or the transport reports an error; without    *)
(* faults only when the peer is gone and nothing is left to read.          *)
GivesUp(p) ==
  /\ pc[p] \notin {"new", "ended"}
  /\ Faulty(p) \/ (pc[PeerOf[p]] = "ended" /\ net[p] = <<>> /\ pc[p] # "shutdown")
  /\ \/ Ends(p, "NetworkError", <<>>)
     \/ pc[p] \in InTls /\ Ends(p, "SecureSessionError", <<>>)
  /\ UNCHANGED accepted

(* The host alters a pre-session packet, which is not protected. *)
HostAlters(p) ==
  /\ Faulty(p) /\ net[p] # <<>>
  /\ \E m \in {[type |-> "hello", lowest |-> 0, highest |-> 0],
               [type |-> "data", blob |-> AlteredBlob], [type |-> "data", blob |-> EmptyBlob]} :
       /\ m # Head(net[p]) /\ m.type = Head(net[p]).type
       /\ net' = [net EXCEPT ![p] = <<m>> \o Tail(@)]
  /\ UNCHANGED <<setting, round, pc, peer_data, remote, accepted, result, tdVars>>

(* The VMM requests the migration again once both requests were answered. *)
Again ==
  /\ round < Rounds
  /\ \A p \in Sides : pc[p] = "ended"
  /\ round' = round + 1
  /\ pc' = [p \in Sides |-> "new"]
  /\ net' = [p \in Sides |-> <<>>]
  /\ peer_data' = [p \in Sides |-> NoValue]
  /\ remote' = [p \in Sides |-> NoValue]
  /\ accepted' = {}
  /\ result' = [p \in Sides |-> "none"]
  /\ UNCHANGED <<setting, tdVars>>

Init ==
  /\ setting \in [Sides -> Settings]
  /\ round = 1
  /\ pc = [p \in Sides |-> "new"]
  /\ net = [p \in Sides |-> <<>>]
  /\ peer_data = [p \in Sides |-> NoValue]
  /\ remote = [p \in Sides |-> NoValue]
  /\ accepted = {}
  /\ result = [p \in Sides |-> "none"]
  /\ mig_version = [p \in Sides |-> NoValue]
  /\ mig_dec_key = [p \in Sides |-> [i \in Fields |-> NoValue]]

Runs(p) ==
  \/ Begin(p) \/ BeginFails(p)
  \/ ReceiveHello(p) \/ ReceiveData(p) \/ ReceiveStart(p) \/ StartFails(p)
  \/ p = "dst" /\ ReceiveClientHello
  \/ ReceiveCertificate(p) \/ ReceiveAlert(p) \/ ReceiveInfo(p)
  \/ Refused(p) \/ Install(p) \/ InstallFails(p)
  \/ GivesUp(p)

Next == (\E p \in Sides : Runs(p) \/ HostAlters(p)) \/ Again

(* The executor polls every task, and every await ends: with the message,  *)
(* or with the timeout.                                                    *)
Fairness == \A p \in Sides : WF_vars(Runs(p))

Spec == Init /\ [][Next]_vars /\ Fairness

-----------------------------------------------------------------------------
(* Properties *)

Keys == [owner : Sides, round : 1..Rounds]
CommonVersions(s) ==
  (s["src"].min_ver..s["src"].max_ver) \cap (s["dst"].min_ver..s["dst"].max_ver)

(* The highest version that both TDX modules support. *)
Agreed(s) == IF CommonVersions(s) = {} THEN NoValue ELSE Max(CommonVersions(s))

(* Every variable has its type; pre_session_data_exchange() never returns  *)
(* a blob with an empty policy or issuer chain.                            *)
TypeOK ==
  /\ setting \in [Sides -> Settings]
  /\ round \in 1..Rounds
  /\ pc \in [Sides -> {"new", "hello", "data", "start", "shutdown", "ended"} \cup InTls]
  /\ \A p \in Sides : net[p] \in Seq([type : {"start", "client_hello", "alert"}]
       \cup [type : {"flight", "certificate"}, policy : [of : Sides]]
       \cup [type : {"hello"}, lowest : Nat, highest : Nat]
       \cup [type : {"data"}, blob : [of : Sides \cup {"other", "empty"}]]
       \cup [type : {"info"}, min_ver : Nat, max_ver : Nat, key : Keys])
  /\ peer_data \in [Sides -> {NoValue, AlteredBlob} \cup {Blob(p) : p \in Sides}]
  /\ \A p \in Sides : remote[p] = NoValue \/ remote[p].key \in Keys
  /\ accepted \subseteq Sides
  /\ result \in [Sides -> Results]
  /\ \A p \in Sides : mig_version[p] \in Nat \cup {NoValue}
  /\ mig_dec_key \in [Sides -> [Fields -> Keys \cup {NoValue}]]

(* exchange_msk() of the two sides implements MskTransfer: whatever the    *)
(* host does to the exchange, a side that reports Success accepted its     *)
(* peer and was accepted by it, holds the peer's whole key of this round   *)
(* (also when an earlier round stopped half way) and the version the other *)
(* side computes from the same two ranges.                                 *)
Transfer == INSTANCE MskTransfer WITH
  result <- [p \in Sides |-> IF result[p] \in {"none", "Success"} THEN result[p] ELSE "failed"]

Transferred == Transfer!Init /\ [][Transfer!Next]_(Transfer!transferVars)

(* A key leaves its MigTD only for a peer that MigTD has accepted: no      *)
(* ExchangeInformation is on its way, or with the peer, before its sender  *)
(* verified the certificate of the receiver.                               *)
DisclosedToAccepted ==
  \A p \in Sides :
    \/ p \in accepted
    \/ /\ \A i \in DOMAIN net[PeerOf[p]] : net[PeerOf[p]][i].type # "info"
       /\ remote[PeerOf[p]] = NoValue

(* No field of a target TD changes unless each side judged the policy its  *)
(* peer really runs with, although the blobs travelled unprotected, and    *)
(* CURR_SERVTD_ATTR of that TD was the expected value.                     *)
WritesAreBacked ==
  [][\A p \in Sides :
       <<mig_version[p], mig_dec_key[p]>>' # <<mig_version[p], mig_dec_key[p]>> =>
         /\ \A q \in Sides : peer_data[q] = Blob(PeerOf[q])
         /\ setting[p].attr]_vars

(* Every request the VMM makes is answered, also when the peer fails, the  *)
(* host stops delivering or the handshake is aborted at any point.         *)
EveryRequestAnswered == \A p \in Sides : []<>(result[p] # "none")

(* Without faults two MigTDs that can migrate to each other do: both sides *)
(* succeed, as their TDX modules share a version, their policies accept    *)
(* each other and SERVTD_ATTR is right.                                    *)
Compatible ==
  /\ CommonVersions(setting) # {}
  /\ \A p \in Sides : setting[p].accepts /\ setting[p].attr /\ ~Faulty(p)
  /\ setting["src"].lowest..setting["src"].highest
       \cap setting["dst"].lowest..setting["dst"].highest # {}

CompatibleSucceed == Compatible => <>(\A p \in Sides : result[p] = "Success")
=============================================================================
