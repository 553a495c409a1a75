------------------------------- MODULE Requests -------------------------------
(***************************************************************************)
(* Requests in flight: each is a record of what it has read and where it   *)
(* is, and ends when it has answered.                                      *)
(***************************************************************************)
EXTENDS Naturals, SequencesExt, UnitOfWork

CONSTANTS
    Sessions,       \* requests that may be in flight at once
    None, Deleted

ASSUME MarkersDiffer == None # Deleted

VARIABLE request    \* Sessions -> the request in flight, or None

Idle(c) == request[c] = None
Does(c, op) == ~Idle(c) /\ request[c].op = op
Is(c, r) == request' = [request EXCEPT ![c] = r]
Close(c) == Is(c, None)
Lives(row) == row \notin {None, Deleted}
=============================================================================
