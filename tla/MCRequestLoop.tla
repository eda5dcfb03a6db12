--------------------------- MODULE MCRequestLoop ---------------------------
(* Small instances of RequestLoop for TLC. *)
EXTENDS RequestLoop

CONSTANTS r1, r2, r3

Request(i, op) == [status |-> 1, operation |-> op, payload |-> "valid", id |-> i]

(* One session request per id, a request whose handler never waits, and a  *)
(* buffer rejected for its operation code.                                 *)
MCAnswers ==
  {Request(i, StartMigration) : i \in {r1, r2, r3}}
    \cup {Request(r1, EnableLogArea), Request(r1, 6)}
=============================================================================
