----------------------------- MODULE UnitOfWork -----------------------------
(***************************************************************************)
(* What one database session does to a row, as the services under app/ use *)
(* it: every request has an AsyncSession of its own, built with            *)
(* expire_on_commit=False (app/db/session.py), no statement takes a row    *)
(* lock and no table has a version column.                                 *)
(*                                                                         *)
(* A session remembers a row as it loaded it (its base) and as the handler *)
(* has changed it since (mine).  session.commit() issues an UPDATE of the  *)
(* columns that differ between the two and of no other, whatever the row   *)
(* has become meanwhile.  Selecting a row again in the same session hands  *)
(* back the object already loaded, attributes unrefreshed.                 *)
(***************************************************************************)

\* The whole of mine is written over the row, columns the handler never
\* touched included: what an ORM without change tracking would do.
FlushWholeRow(row, base, mine) == mine

\* The row after a session that loaded base and holds mine has committed.
Flush(row, base, mine) ==
    [column \in DOMAIN row |->
        IF mine[column] # base[column] THEN mine[column] ELSE row[column]]
=============================================================================
