-------------------------------- MODULE Worker --------------------------------
(***************************************************************************)
(* What the requests of one worker process have in common: a clock, and a  *)
(* record for each of what it is doing.  Time is counted from the start of *)
(* the process.                                                            *)
(***************************************************************************)
EXTENDS AccessRules

CONSTANTS
    Sessions,       \* requests that may be in flight at once
    MaxTime         \* a bound on the clock

VARIABLES
    clock,
    request         \* Sessions -> the request in flight, or None

Idle(c) == request[c] = None
At(c, stage) == ~Idle(c) /\ request[c].stage = stage
Is(c, r) == request' = [request EXCEPT ![c] = r]
Close(c) == Is(c, None)

Tick == clock < MaxTime /\ clock' = clock + 1
=============================================================================
