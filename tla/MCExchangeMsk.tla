---------------------------- MODULE MCExchangeMsk ----------------------------
(* Instances of ExchangeMsk for TLC. *)
EXTENDS ExchangeMsk

Setting(min, max, accepts, attr, faults) ==
  [min_ver |-> min, max_ver |-> max, lowest |-> 1, highest |-> 1,
   accepts |-> accepts, attr |-> attr, faults |-> faults]

(* Ranges that overlap, touch, are disjoint or are empty. *)
MCRanges ==
  {Setting(r[1], r[2], TRUE, TRUE, FALSE) : r \in {<<0, 1>>, <<1, 2>>, <<2, 2>>, <<1, 0>>}}

(* What else can make one side refuse. *)
MCRefusals ==
  UNION {{Setting(1, 2, TRUE, TRUE, f), Setting(0, 1, FALSE, TRUE, f), Setting(0, 1, TRUE, FALSE, f)}
           : f \in BOOLEAN}

(* A side that only speaks a newer version of the pre-session protocol. *)
MCNewer == {[Setting(1, 2, TRUE, TRUE, FALSE) EXCEPT !.lowest = 2, !.highest = 2]}

MCSettings == MCRanges \cup MCRefusals \cup MCNewer
=============================================================================
