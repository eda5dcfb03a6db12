---------------------------- MODULE MCVmcallRaw ----------------------------
(* Two sessions between MigTD A and MigTD B, or one of them alone. *)
EXTENDS VmcallRaw

CONSTANTS a1, a2, b1, b2, A, B

MCEnds == {a1, a2, b1, b2}
MCPeers == (a1 :> b1) @@ (b1 :> a1) @@ (a2 :> b2) @@ (b2 :> a2)
MCNodes == (a1 :> A) @@ (a2 :> A) @@ (b1 :> B) @@ (b2 :> B)

DoSend(n) == [op |-> "send", len |-> n]
DoRecv(n) == [op |-> "recv", len |-> n]
Absent == (a2 :> <<>>) @@ (b2 :> <<>>)

(* Two one-way sessions in opposite directions. *)
TwoSessions == (a1 :> <<DoSend(3)>>) @@ (b1 :> <<DoRecv(3)>>)
               @@ (a2 :> <<DoRecv(1)>>) @@ (b2 :> <<DoSend(1)>>)

(* A session in which both sides send first, like the pre-session exchange,*)
(* with reads that end inside a packet and span two.                       *)
Exchange == (a1 :> <<DoSend(4), DoRecv(1), DoSend(1), DoRecv(2)>>)
            @@ (b1 :> <<DoSend(3), DoRecv(3), DoRecv(2)>>) @@ Absent

(* Room 1 is less than what both sides of Exchange send before they read. *)
MCWorkloads == {[plan |-> TwoSessions, faults |-> FALSE, room |-> 2],
                [plan |-> Exchange, faults |-> FALSE, room |-> 1],
                [plan |-> Exchange, faults |-> FALSE, room |-> 2],
                [plan |-> Exchange, faults |-> TRUE, room |-> 2]}
=============================================================================
