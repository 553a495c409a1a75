------------------------------ MODULE SessionPool ------------------------------
(***************************************************************************)
(* Sessions of requests over a pool of connections (app/db/session.py).    *)
(*                                                                         *)
(* A session has a connection from its first statement to the end of the   *)
(* transaction, and gets the next from the head of the pool's queue.  SET  *)
(* search_path belongs to the transaction: a commit leaves it on the       *)
(* connection, a rollback takes it back.                                   *)
(***************************************************************************)
EXTENDS Sequences

CONSTANTS
    None,
    Connections, Sessions,
    Tenants,        \* keys of tenants, each with a schema
    Public          \* where a session of no tenant works

VARIABLES
    idle,           \* the connections in the pool, longest there first
    path,           \* Connections -> the schema it was left with
    session         \* Sessions -> None, or what it is for, its connection and schema

vars == <<idle, path, session>>

Init ==
    /\ idle = <<>>
    /\ path = [n \in Connections |-> Public]
    /\ session = [c \in Sessions |-> None]

Held == {session[c].conn : c \in {c \in Sessions : session[c] # None}} \ {None}

\* A new connection is made only when none is idle.
Available ==
    IF idle # <<>> THEN {Head(idle)} ELSE Connections \ Held

Taken(n) == IF idle # <<>> /\ n = Head(idle) THEN Tail(idle) ELSE idle

\* get_tenant_session finds the tenant and sets the path in one transaction, and
\* get_public_session begins likewise.
Begin(c, tenant) ==
    /\ session[c] = None
    /\ \E n \in Available :
           /\ idle' = Taken(n)
           /\ session' = [session EXCEPT ![c] = [for |-> tenant, conn |-> n, schema |-> tenant]]
    /\ UNCHANGED path

\* A handler commits, as every service does before it refreshes what it answers with.
Commit(c) ==
    /\ session[c] # None /\ session[c].conn # None
    /\ path' = [path EXCEPT ![session[c].conn] = session[c].schema]
    /\ idle' = Append(idle, session[c].conn)
    /\ session' = [session EXCEPT ![c].conn = None]

\* Its next statement begins a transaction on whatever connection is next.
Continue(c) ==
    /\ session[c] # None /\ session[c].conn = None
    /\ \E n \in Available :
           /\ idle' = Taken(n)
           /\ session' = [session EXCEPT ![c].conn = n, ![c].schema = path[n]]
    /\ UNCHANGED path

\* The request is over.  A session for a tenant resets the path in a transaction that is
\* rolled back when the session is closed, which leaves the connection as it was.
Finish(c) ==
    /\ session[c] # None
    /\ IF session[c].conn # None THEN idle' = Append(idle, session[c].conn)
       ELSE IF session[c].for = Public THEN UNCHANGED idle
       ELSE \E n \in Available : idle' = Append(Taken(n), n)
    /\ session' = [session EXCEPT ![c] = None]
    /\ UNCHANGED path

Next ==
    \E c \in Sessions :
        \/ \E tenant \in Tenants \cup {Public} : Begin(c, tenant)
        \/ Commit(c) \/ Continue(c) \/ Finish(c)

Spec == Init /\ [][Next]_vars

\* What a request does is done in the schema of its own tenant (get_tenant_session).
StatementsInOwnSchema ==
    \A c \in Sessions : session[c] # None /\ session[c].conn # None => session[c].schema = session[c].for
=============================================================================
