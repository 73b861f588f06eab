-------------------------------- MODULE Http --------------------------------
(***************************************************************************)
(* What a handler's outcome becomes on the wire.  A service or a           *)
(* repository ends by returning or by throwing; what is thrown reaches     *)
(* AllExceptionsFilter, which knows Nest's HttpExceptions and the Prisma   *)
(* codes of a lost database and turns everything else into a 500.          *)
(***************************************************************************)

CONSTANTS
    Outages,        \* may a statement fail because the database is unreachable?
    Omitted         \* a field the body of a PATCH does not carry

ASSUME OutagesAssumption == Outages \in BOOLEAN

(* The exceptions of Nest's that the handlers throw, with their status.    *)
HttpException == [BadRequest |-> 400, NotFound |-> 404, Conflict |-> 409]

(* The Prisma codes the filter takes for "database unreachable".           *)
Connectivity == {"P1001", "P1002", "P1008", "P1017"}

(* What Prisma throws when PostgreSQL refuses a statement or ends a         *)
(* transaction: a taken key, a missing parent, a missing row, a            *)
(* transaction at its timeout, a deadlock, an area out of range.           *)
Refusals == {"P2002", "P2003", "P2025", "P2028", "Deadlock", "Overflow"}

Exceptions == DOMAIN HttpException \cup Connectivity \cup Refusals

Status == {200, 201, 204, 400, 404, 409, 500, 503}

Errors == {400, 404, 409, 500, 503}

(* The status AllExceptionsFilter answers an exception e with.             *)
Caught(e) ==
    IF e \in DOMAIN HttpException THEN HttpException[e]
    ELSE IF e \in Connectivity THEN 503
    ELSE 500

(* What the caller may see of a write the database did execute: its status *)
(* or, when the connection closed before the result came back, the 503 of  *)
(* P1017.                                                                  *)
Replies(status) == {status} \cup IF Outages THEN {Caught("P1017")} ELSE {}

(* dto.x ?? existing.x                                                     *)
Given(value, otherwise) == IF value = Omitted THEN otherwise ELSE value

(* The request slot of the answered request.                               *)
Answered(status) == [at |-> "idle", status |-> status]

(* The same after an exception e.  A 500 tells its caller nothing; the     *)
(* filter logs what it was.                                                *)
Logged(e) ==
    IF Caught(e) = 500 THEN [at |-> "idle", status |-> 500, err |-> e] ELSE Answered(Caught(e))

=============================================================================
