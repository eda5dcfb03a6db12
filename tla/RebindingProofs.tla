--------------------------- MODULE RebindingProofs ---------------------------
(***************************************************************************)
(* Safety of Rebinding for any set of requests: the fields of the new      *)
(* MigTD never mix requests and come from accepted sessions, and how the   *)
(* reports of the two ends of a request go together.                       *)
(***************************************************************************)
EXTENDS Rebinding, TLAPS

(* The position of the old MigTD tells what it sent and approved. *)
OldProgressAt(s) ==
  /\ old[s] \in {"start", "flight", "certificate"} => ~Arrived(s, "token")
  /\ old[s] # "ended" => old_result[s] = "none" /\ ~Arrived(s, "old_alert")
  /\ old[s] \in {"flight", "certificate", "token"} => setting[s].attr /\ Arrived(s, "client_hello")
  /\ old[s] \in {"certificate", "token"} => setting[s].old_accepts /\ Arrived(s, "certificate")
  /\ old[s] = "token" => Arrived(s, "token")
  /\ Arrived(s, "token") =>
       /\ setting[s].old_accepts /\ setting[s].attr /\ ~Arrived(s, "old_alert")
       /\ Arrived(s, "client_hello") /\ Arrived(s, "certificate")
  /\ s \in approved => Arrived(s, "token") /\ old[s] \in {"shutdown", "ended"}
  /\ old[s] = "shutdown" => s \in approved

OldProgress == \A s \in Sessions : OldProgressAt(s)

(* The position of the new MigTD tells what it verified and wrote. *)
NewProgress ==
  \A s \in Sessions :
    /\ new[s] # "ended" => new_result[s] = "none"
    /\ new[s] = "token" => setting[s].new_accepts
    /\ new[s] = "shutdown" => setting[s].new_accepts /\ Arrived(s, "token")
    /\ token = s => new[s] \in {"shutdown", "ended"}
    /\ new_result[s] = "Success" => setting[s].new_accepts /\ Arrived(s, "token")

(* How the two ends of a request may come apart: the old MigTD gives up    *)
(* with the token on its way, or the new one ends without it.              *)
ApartAt(s) ==
  /\ old[s] = "ended" /\ s \notin approved /\ Arrived(s, "token") =>
       Faulty(s) \/ (new[s] = "ended" /\ new_result[s] # "Success")
  /\ new[s] = "ended" /\ new_result[s] # "Success" =>
       \/ Faulty(s) \/ ~setting[s].new_accepts
       \/ old[s] = "ended" /\ s \notin approved

Apart == \A s \in Sessions : ApartAt(s)

(* The inductive invariant: the goals need the positions of both ends, and *)
(* those on their agreement also how they come apart.                      *)
IInv ==
  /\ TypeOK /\ OldProgress /\ NewProgress /\ Apart
  /\ InstalledTogether /\ InstalledIsAccepted

(* What a step of the old MigTD may do to the invariant of a request: its  *)
(* messages only grow, and the new MigTD is as it was.                     *)
LEMMA OldSteps ==
  ASSUME IInv, NEW s \in Sessions, OldNext(s)
  PROVE  IInv'
<1> USE DEF IInv
<1>0. \A c \in Settings : SettingOK(c)
  BY RebindingAssumption
<1>1. CASE OldStarts(s)
  <2> USE <1>1 DEF OldStarts, OldMoves, Sends, newVars, fieldVars
  <2>1. TypeOK'
    BY DEF TypeOK, Messages
  <2>2. OldProgress'
    <3> SUFFICES ASSUME NEW t \in Sessions PROVE OldProgressAt(t)'
      BY DEF OldProgress
    <3>1. OldProgressAt(t)
      BY DEF OldProgress
    <3>2. CASE t # s
      BY <3>1, <3>2 DEF TypeOK, OldProgressAt, Arrived
    <3>3. CASE t = s
      BY <3>1, <3>3 DEF TypeOK, OldProgressAt, Arrived
    <3> QED BY <3>2, <3>3
  <2>3. NewProgress'
    BY DEF TypeOK, NewProgress, Arrived
  <2>4. Apart'
    <3> SUFFICES ASSUME NEW t \in Sessions PROVE ApartAt(t)'
      BY DEF Apart
    <3>1. ApartAt(t)
      BY DEF Apart
    <3>2. CASE t # s
      BY <3>1, <3>2 DEF TypeOK, ApartAt, Arrived, Faulty
    <3>3. CASE t = s
      BY <3>1, <3>3 DEF TypeOK, OldProgress, OldProgressAt, NewProgress, ApartAt, Arrived, Faulty
    <3> QED BY <3>2, <3>3
  <2>5. InstalledTogether' /\ InstalledIsAccepted'
    BY DEF InstalledTogether, InstalledIsAccepted
  <2> QED BY <2>1, <2>2, <2>3, <2>4, <2>5
<1>2. CASE OldStartFails(s)
  <2> USE <1>2 DEF Faulty, OldStartFails, OldEnds, newVars, fieldVars
  <2>1. TypeOK'
    BY DEF TypeOK, OldResults
  <2>2. OldProgress'
    <3> SUFFICES ASSUME NEW t \in Sessions PROVE OldProgressAt(t)'
      BY DEF OldProgress
    <3>1. OldProgressAt(t)
      BY DEF OldProgress
    <3>2. CASE t # s
      BY <3>1, <3>2 DEF TypeOK, OldProgressAt, Arrived
    <3>3. CASE t = s
      BY <3>1, <3>3 DEF TypeOK, OldProgressAt, Arrived
    <3> QED BY <3>2, <3>3
  <2>3. NewProgress'
    BY DEF TypeOK, NewProgress, Arrived
  <2>4. Apart'
    <3> SUFFICES ASSUME NEW t \in Sessions PROVE ApartAt(t)'
      BY DEF Apart
    <3>1. ApartAt(t)
      BY DEF Apart
    <3>2. CASE t # s
      BY <3>1, <3>2 DEF TypeOK, ApartAt, Arrived, Faulty
    <3>3. CASE t = s
      BY <3>1, <3>3 DEF TypeOK, OldProgress, OldProgressAt, NewProgress, ApartAt, Arrived, Faulty
    <3> QED BY <3>2, <3>3
  <2>5. InstalledTogether' /\ InstalledIsAccepted'
    BY DEF InstalledTogether, InstalledIsAccepted
  <2> QED BY <2>1, <2>2, <2>3, <2>4, <2>5
<1>3. CASE OldVerifies(s)
  <2> USE <1>3 DEF OldVerifies, OldEnds, OldMoves, Sends, newVars, fieldVars
  <2>1. TypeOK'
    BY DEF TypeOK, OldResults, Messages
  <2>2. OldProgress'
    <3> SUFFICES ASSUME NEW t \in Sessions PROVE OldProgressAt(t)'
      BY DEF OldProgress
    <3>1. OldProgressAt(t)
      BY DEF OldProgress
    <3>2. CASE t # s
      BY <3>1, <3>2 DEF TypeOK, OldProgressAt, Arrived
    <3>3. CASE t = s
      BY <3>1, <3>3 DEF TypeOK, OldProgressAt, Arrived
    <3> QED BY <3>2, <3>3
  <2>3. NewProgress'
    BY DEF TypeOK, NewProgress, Arrived
  <2>4. Apart'
    <3> SUFFICES ASSUME NEW t \in Sessions PROVE ApartAt(t)'
      BY DEF Apart
    <3>1. ApartAt(t)
      BY DEF Apart
    <3>2. CASE t # s
      BY <3>1, <3>2 DEF TypeOK, ApartAt, Arrived, Faulty
    <3>3. CASE t = s
      BY <3>1, <3>3 DEF TypeOK, OldProgress, OldProgressAt, NewProgress, ApartAt, Arrived, Faulty
    <3> QED BY <3>2, <3>3
  <2>5. InstalledTogether' /\ InstalledIsAccepted'
    BY DEF InstalledTogether, InstalledIsAccepted
  <2> QED BY <2>1, <2>2, <2>3, <2>4, <2>5
<1>4. CASE OldApproves(s)
  <2> USE <1>4 DEF OldApproves, OldEnds, OldMoves, newVars, fieldVars
  <2>1. TypeOK'
    BY DEF TypeOK, OldResults
  <2>2. OldProgress'
    <3> SUFFICES ASSUME NEW t \in Sessions PROVE OldProgressAt(t)'
      BY DEF OldProgress
    <3>1. OldProgressAt(t)
      BY DEF OldProgress
    <3>2. CASE t # s
      BY <3>1, <3>2 DEF TypeOK, OldProgressAt, Arrived
    <3>3. CASE t = s
      BY <3>1, <3>3 DEF TypeOK, OldProgressAt, Arrived
    <3> QED BY <3>2, <3>3
  <2>3. NewProgress'
    BY DEF TypeOK, NewProgress, Arrived
  <2>4. Apart'
    <3> SUFFICES ASSUME NEW t \in Sessions PROVE ApartAt(t)'
      BY DEF Apart
    <3>1. ApartAt(t)
      BY DEF Apart
    <3>2. CASE t # s
      BY <3>1, <3>2 DEF TypeOK, ApartAt, Arrived, Faulty
    <3>3. CASE t = s
      BY <3>1, <3>3 DEF TypeOK, OldProgress, OldProgressAt, NewProgress, ApartAt, Arrived, Faulty
    <3> QED BY <3>2, <3>3
  <2>5. InstalledTogether' /\ InstalledIsAccepted'
    BY DEF InstalledTogether, InstalledIsAccepted
  <2> QED BY <2>1, <2>2, <2>3, <2>4, <2>5
<1>5. CASE OldShutsDown(s)
  <2> USE <1>5 DEF OldShutsDown, OldEnds, newVars, fieldVars
  <2>1. TypeOK'
    BY DEF TypeOK, OldResults
  <2>2. OldProgress'
    <3> SUFFICES ASSUME NEW t \in Sessions PROVE OldProgressAt(t)'
      BY DEF OldProgress
    <3>1. OldProgressAt(t)
      BY DEF OldProgress
    <3>2. CASE t # s
      BY <3>1, <3>2 DEF TypeOK, OldProgressAt, Arrived
    <3>3. CASE t = s
      BY <3>1, <3>3 DEF TypeOK, OldProgressAt, Arrived
    <3> QED BY <3>2, <3>3
  <2>3. NewProgress'
    BY DEF TypeOK, NewProgress, Arrived
  <2>4. Apart'
    <3> SUFFICES ASSUME NEW t \in Sessions PROVE ApartAt(t)'
      BY DEF Apart
    <3>1. ApartAt(t)
      BY DEF Apart
    <3>2. CASE t # s
      BY <3>1, <3>2 DEF TypeOK, ApartAt, Arrived, Faulty
    <3>3. CASE t = s
      BY <3>1, <3>3 DEF TypeOK, OldProgress, OldProgressAt, NewProgress, ApartAt, Arrived, Faulty
    <3> QED BY <3>2, <3>3
  <2>5. InstalledTogether' /\ InstalledIsAccepted'
    BY DEF InstalledTogether, InstalledIsAccepted
  <2> QED BY <2>1, <2>2, <2>3, <2>4, <2>5
<1>6. CASE OldGivesUp(s)
  <2> USE <1>6 DEF OldGivesUp, OldEnds, newVars, fieldVars
  <2>1. TypeOK'
    BY DEF TypeOK, OldResults
  <2>2. OldProgress'
    <3> SUFFICES ASSUME NEW t \in Sessions PROVE OldProgressAt(t)'
      BY DEF OldProgress
    <3>1. OldProgressAt(t)
      BY DEF OldProgress
    <3>2. CASE t # s
      BY <3>1, <3>2 DEF TypeOK, OldProgressAt, Arrived
    <3>3. CASE t = s
      BY <3>1, <3>3 DEF TypeOK, OldProgressAt, Arrived
    <3> QED BY <3>2, <3>3
  <2>3. NewProgress'
    BY DEF TypeOK, NewProgress, Arrived
  <2>4. Apart'
    <3> SUFFICES ASSUME NEW t \in Sessions PROVE ApartAt(t)'
      BY DEF Apart
    <3>1. ApartAt(t)
      BY DEF Apart
    <3>2. CASE t # s
      BY <3>1, <3>2 DEF TypeOK, ApartAt, Arrived, Faulty
    <3>3. CASE t = s
      BY <3>1, <3>3 DEF TypeOK, OldProgress, OldProgressAt, NewProgress, ApartAt, Arrived, Faulty
    <3> QED BY <3>2, <3>3
  <2>5. InstalledTogether' /\ InstalledIsAccepted'
    BY DEF InstalledTogether, InstalledIsAccepted
  <2> QED BY <2>1, <2>2, <2>3, <2>4, <2>5
<1>7. CASE OldSendsToken(s)
  <2> USE <1>7 DEF OldSendsToken, OldMoves, Sends, newVars, fieldVars
  <2>1. TypeOK'
    BY DEF TypeOK, Messages
  <2>2. OldProgress'
    <3> SUFFICES ASSUME NEW t \in Sessions PROVE OldProgressAt(t)'
      BY DEF OldProgress
    <3>1. OldProgressAt(t)
      BY DEF OldProgress
    <3>2. CASE t # s
      BY <3>1, <3>2 DEF TypeOK, OldProgressAt, Arrived
    <3>3. CASE t = s
      BY <3>1, <3>3 DEF TypeOK, OldProgressAt, Arrived
    <3> QED BY <3>2, <3>3
  <2>3. NewProgress'
    BY DEF TypeOK, NewProgress, Arrived
  <2>4. Apart'
    <3> SUFFICES ASSUME NEW t \in Sessions PROVE ApartAt(t)'
      BY DEF Apart
    <3>1. ApartAt(t)
      BY DEF Apart
    <3>2. CASE t # s
      BY <3>1, <3>2 DEF TypeOK, ApartAt, Arrived, Faulty
    <3>3. CASE t = s
      BY <3>1, <3>3 DEF TypeOK, OldProgress, OldProgressAt, NewProgress, ApartAt, Arrived, Faulty
    <3> QED BY <3>2, <3>3
  <2>5. InstalledTogether' /\ InstalledIsAccepted'
    BY DEF InstalledTogether, InstalledIsAccepted
  <2> QED BY <2>1, <2>2, <2>3, <2>4, <2>5
<1> QED BY <1>1, <1>2, <1>3, <1>4, <1>5, <1>6, <1>7 DEF OldNext

(* A step of the new MigTD: only NewInstalls and NewInstallFails touch the *)
(* fields, and both leave the token of no other request next to attributes *)
(* or a hash that are not its own.                                         *)
LEMMA NewSteps ==
  ASSUME IInv, NEW s \in Sessions, NewNext(s)
  PROVE  IInv'
<1> USE DEF IInv
<1>0. /\ \A c \in Settings : SettingOK(c)
      /\ NoValue \notin Sessions /\ "part" \notin Sessions
  BY RebindingAssumption
<1>1. CASE NewStarts(s)
  <2> USE <1>1 DEF NewStarts, NewMoves, NewEnds, oldVars, fieldVars
  <2>1. TypeOK'
    BY DEF TypeOK, OldResults, NewResults, Messages
  <2>2. OldProgress'
    BY DEF TypeOK, OldProgress, OldProgressAt, Arrived
  <2>3. NewProgress'
    BY ZenonT(30) DEF TypeOK, NewProgress, Arrived
  <2>8. Apart'
    <3> SUFFICES ASSUME NEW t \in Sessions PROVE ApartAt(t)'
      BY DEF Apart
    <3>1. ApartAt(t)
      BY DEF Apart
    <3>2. CASE t # s
      BY <3>1, <3>2 DEF TypeOK, ApartAt, Arrived, Faulty
    <3>3. CASE t = s
      BY <3>1, <3>3 DEF TypeOK, OldProgress, OldProgressAt, NewProgress, ApartAt, Arrived, Faulty
    <3> QED BY <3>2, <3>3
  <2>5. InstalledTogether' /\ InstalledIsAccepted'
    BY DEF TypeOK, NewProgress, InstalledTogether, InstalledIsAccepted
  <2> QED BY <2>1, <2>2, <2>3, <2>5, <2>8
<1>2. CASE NewAnswers(s)
  <2> USE <1>2 DEF NewAnswers, NewMoves, Sends, oldVars, fieldVars
  <2>1. TypeOK'
    BY DEF TypeOK, OldResults, NewResults, Messages
  <2>2. OldProgress'
    BY DEF TypeOK, OldProgress, OldProgressAt, Arrived
  <2>3. NewProgress'
    BY DEF TypeOK, NewProgress, Arrived
  <2>8. Apart'
    <3> SUFFICES ASSUME NEW t \in Sessions PROVE ApartAt(t)'
      BY DEF Apart
    <3>1. ApartAt(t)
      BY DEF Apart
    <3>2. CASE t # s
      BY <3>1, <3>2 DEF TypeOK, ApartAt, Arrived, Faulty
    <3>3. CASE t = s
      BY <3>1, <3>3 DEF TypeOK, OldProgress, OldProgressAt, NewProgress, ApartAt, Arrived, Faulty
    <3> QED BY <3>2, <3>3
  <2>5. InstalledTogether' /\ InstalledIsAccepted'
    BY DEF TypeOK, NewProgress, InstalledTogether, InstalledIsAccepted
  <2> QED BY <2>1, <2>2, <2>3, <2>5, <2>8
<1>3. CASE NewVerifies(s)
  <2> USE <1>3 DEF NewVerifies, NewMoves, NewEnds, Sends, oldVars, fieldVars
  <2>1. TypeOK'
    BY DEF TypeOK, OldResults, NewResults, Messages
  <2>2. OldProgress'
    <3>1. \A t \in Sessions, m \in {"client_hello", "certificate", "token", "old_alert"} :
            Arrived(t, m)' <=> Arrived(t, m)
      BY DEF Arrived
    <3>2. UNCHANGED <<setting, old, old_result, approved>>
      OBVIOUS
    <3> QED BY <3>1, <3>2 DEF OldProgress, OldProgressAt
  <2>3. NewProgress'
    BY ZenonT(30) DEF TypeOK, NewProgress, Arrived
  <2>8. Apart'
    <3> SUFFICES ASSUME NEW t \in Sessions PROVE ApartAt(t)'
      BY DEF Apart
    <3>1. ApartAt(t)
      BY DEF Apart
    <3>2. CASE t # s
      BY <3>1, <3>2 DEF TypeOK, ApartAt, Arrived, Faulty
    <3>3. CASE t = s
      BY <3>1, <3>3 DEF TypeOK, OldProgress, OldProgressAt, NewProgress, ApartAt, Arrived, Faulty
    <3> QED BY <3>2, <3>3
  <2>5. InstalledTogether' /\ InstalledIsAccepted'
    BY DEF TypeOK, NewProgress, InstalledTogether, InstalledIsAccepted
  <2> QED BY <2>1, <2>2, <2>3, <2>5, <2>8
<1>4. CASE NewRefused(s)
  <2> USE <1>4 DEF NewRefused, NewEnds, oldVars, fieldVars
  <2>1. TypeOK'
    BY DEF TypeOK, OldResults, NewResults, Messages
  <2>2. OldProgress'
    BY DEF TypeOK, OldProgress, OldProgressAt, Arrived
  <2>3. NewProgress'
    BY DEF TypeOK, NewProgress, Arrived
  <2>8. Apart'
    <3> SUFFICES ASSUME NEW t \in Sessions PROVE ApartAt(t)'
      BY DEF Apart
    <3>1. ApartAt(t)
      BY DEF Apart
    <3>2. CASE t # s
      BY <3>1, <3>2 DEF TypeOK, ApartAt, Arrived, Faulty
    <3>3. CASE t = s
      BY <3>1, <3>3 DEF TypeOK, OldProgress, OldProgressAt, NewProgress, ApartAt, Arrived, Faulty
    <3> QED BY <3>2, <3>3
  <2>5. InstalledTogether' /\ InstalledIsAccepted'
    BY DEF TypeOK, NewProgress, InstalledTogether, InstalledIsAccepted
  <2> QED BY <2>1, <2>2, <2>3, <2>5, <2>8
<1>5. CASE NewInstalls(s)
  <2> USE <1>5 DEF NewInstalls, NewMoves, oldVars
  <2>1. TypeOK'
    BY DEF TypeOK, OldResults, NewResults, Messages, FieldValues
  <2>2. OldProgress'
    BY DEF TypeOK, OldProgress, OldProgressAt, Arrived
  <2>3. NewProgress'
    BY <1>0 DEF TypeOK, NewProgress, Arrived
  <2>8. Apart'
    <3> SUFFICES ASSUME NEW t \in Sessions PROVE ApartAt(t)'
      BY DEF Apart
    <3>1. ApartAt(t)
      BY DEF Apart
    <3>2. CASE t # s
      BY <3>1, <3>2 DEF TypeOK, ApartAt, Arrived, Faulty
    <3>3. CASE t = s
      BY <3>1, <3>3 DEF TypeOK, OldProgress, OldProgressAt, NewProgress, ApartAt, Arrived, Faulty
    <3> QED BY <3>2, <3>3
  <2>4. setting[s].old_accepts /\ setting[s].new_accepts /\ setting[s].attr
    BY DEF OldProgress, OldProgressAt, NewProgress
  <2>5. InstalledTogether'
    BY <1>0 DEF TypeOK, InstalledTogether
  <2>6. InstalledIsAccepted'
    BY <1>0, <2>4 DEF TypeOK, InstalledIsAccepted
  <2> QED BY <2>1, <2>2, <2>3, <2>5, <2>6, <2>8
<1>6. CASE NewInstallFails(s)
  <2> USE <1>6 DEF NewInstallFails, NewEnds, oldVars
  <2>1. TypeOK'
    BY DEF TypeOK, OldResults, NewResults, Messages, FieldValues
  <2>2. OldProgress'
    BY DEF TypeOK, OldProgress, OldProgressAt, Arrived
  <2>3. NewProgress'
    BY <1>0, ZenonT(30) DEF TypeOK, NewProgress, Arrived
  <2>8. Apart'
    <3> SUFFICES ASSUME NEW t \in Sessions PROVE ApartAt(t)'
      BY DEF Apart
    <3>1. ApartAt(t)
      BY DEF Apart
    <3>2. CASE t # s
      BY <3>1, <3>2 DEF TypeOK, ApartAt, Arrived, Faulty
    <3>3. CASE t = s
      BY <3>1, <3>3 DEF TypeOK, OldProgress, OldProgressAt, NewProgress, ApartAt, Arrived, Faulty
    <3> QED BY <3>2, <3>3
  <2>4. setting[s].old_accepts /\ setting[s].new_accepts /\ setting[s].attr
    BY DEF OldProgress, OldProgressAt, NewProgress
  <2>5. InstalledTogether'
    BY <1>0 DEF TypeOK, InstalledTogether
  <2>6. InstalledIsAccepted'
    BY <1>0, <2>4 DEF TypeOK, InstalledIsAccepted
  <2> QED BY <2>1, <2>2, <2>3, <2>5, <2>6, <2>8
<1>7. CASE NewShutsDown(s)
  <2> USE <1>7 DEF NewShutsDown, NewEnds, oldVars, fieldVars
  <2>1. TypeOK'
    BY DEF TypeOK, OldResults, NewResults, Messages
  <2>2. OldProgress'
    BY DEF TypeOK, OldProgress, OldProgressAt, Arrived
  <2>3. NewProgress'
    BY ZenonT(30) DEF TypeOK, NewProgress, Arrived
  <2>8. Apart'
    <3> SUFFICES ASSUME NEW t \in Sessions PROVE ApartAt(t)'
      BY DEF Apart
    <3>1. ApartAt(t)
      BY DEF Apart
    <3>2. CASE t # s
      BY <3>1, <3>2 DEF TypeOK, ApartAt, Arrived, Faulty
    <3>3. CASE t = s
      BY <3>1, <3>3 DEF TypeOK, OldProgress, OldProgressAt, NewProgress, ApartAt, Arrived, Faulty
    <3> QED BY <3>2, <3>3
  <2>5. InstalledTogether' /\ InstalledIsAccepted'
    BY DEF TypeOK, NewProgress, InstalledTogether, InstalledIsAccepted
  <2> QED BY <2>1, <2>2, <2>3, <2>5, <2>8
<1>8. CASE NewGivesUp(s)
  <2> USE <1>8 DEF NewGivesUp, NewEnds, oldVars, fieldVars
  <2>1. TypeOK'
    BY DEF TypeOK, OldResults, NewResults, Messages
  <2>2. OldProgress'
    BY DEF TypeOK, OldProgress, OldProgressAt, Arrived
  <2>3. NewProgress'
    BY DEF TypeOK, NewProgress, Arrived
  <2>8. Apart'
    <3> SUFFICES ASSUME NEW t \in Sessions PROVE ApartAt(t)'
      BY DEF Apart
    <3>1. ApartAt(t)
      BY DEF Apart
    <3>2. CASE t # s
      BY <3>1, <3>2 DEF TypeOK, ApartAt, Arrived, Faulty
    <3>3. CASE t = s
      BY <3>1, <3>3 DEF TypeOK, OldProgress, OldProgressAt, NewProgress, ApartAt, Arrived, Faulty
    <3> QED BY <3>2, <3>3
  <2>5. InstalledTogether' /\ InstalledIsAccepted'
    BY DEF TypeOK, NewProgress, InstalledTogether, InstalledIsAccepted
  <2> QED BY <2>1, <2>2, <2>3, <2>5, <2>8
<1> QED BY <1>1, <1>2, <1>3, <1>4, <1>5, <1>6, <1>7, <1>8 DEF NewNext

(* IInv holds in every reachable state of Spec, for any set of requests.   *)
THEOREM Invariance == Spec => []IInv
<1>1. Init => IInv
  BY RebindingAssumption
     DEF Init, IInv, TypeOK, OldProgress, OldProgressAt, NewProgress, Apart, ApartAt,
         InstalledTogether, InstalledIsAccepted,
         Arrived, OldResults, NewResults, FieldValues
<1>2. IInv /\ [Next]_vars => IInv'
  <2> SUFFICES ASSUME IInv, [Next]_vars PROVE IInv'
    OBVIOUS
  <2>1. CASE Next
    BY <2>1, OldSteps, NewSteps DEF Next
  <2>2. CASE UNCHANGED vars
    BY <2>2 DEF vars, fieldVars, IInv, TypeOK, OldProgress, OldProgressAt, NewProgress,
                Apart, ApartAt, Faulty, InstalledTogether, InstalledIsAccepted, Arrived
  <2> QED BY <2>1, <2>2
<1> QED BY <1>1, <1>2, PTL DEF Spec

(* Type correctness of the rebinding requests. *)
THEOREM TypeCorrect == Spec => []TypeOK
<1>1. IInv => TypeOK
  BY DEF IInv
<1> QED BY <1>1, Invariance, PTL

(* rebinding_new_prepare() never mixes the fields of two requests. *)
THEOREM NeverMixed == Spec => []InstalledTogether
<1>1. IInv => InstalledTogether
  BY DEF IInv
<1> QED BY <1>1, Invariance, PTL

(* The fields come from requests whose ends accepted each other. *)
THEOREM FromAccepted == Spec => []InstalledIsAccepted
<1>1. IInv => InstalledIsAccepted
  BY DEF IInv
<1> QED BY <1>1, Invariance, PTL

(* A Success of the new MigTD never goes with a refusal of the old one,    *)
(* and only a fault lets the old one end without approving it: the token   *)
(* that arrived although its write failed, or an approval refused by the   *)
(* TDX module.                                                             *)
THEOREM SuccessOffered == Spec => []SuccessIsOffered
<1>1. IInv => SuccessIsOffered
  BY DEF IInv, OldProgress, OldProgressAt, NewProgress, Apart, ApartAt, SuccessIsOffered
<1> QED BY <1>1, Invariance, PTL

(* An approval is of a token that left for an accepted MigTD, and remains  *)
(* unused only if that one refuses or something fails.                     *)
THEOREM ApprovalUsed == Spec => []ApprovalIsUsed
<1>1. IInv => ApprovalIsUsed
  BY DEF IInv, TypeOK, OldProgress, OldProgressAt, Apart, ApartAt, ApprovalIsUsed
<1> QED BY <1>1, Invariance, PTL
=============================================================================
