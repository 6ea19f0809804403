---------------------------- MODULE CycleCrash ----------------------------
(* Cycle over a Postgres server that crashes and recovers.  The staging      *)
(* tables are UNLOGGED, so recovery truncates them; and the crash ends every *)
(* session, which the pool does not know until a call uses one.              *)
EXTENDS Cycle

VARIABLE
    lost  \* the session the next call will be given did not survive a crash

crashVars == <<vars, lost>>

(* An earlier run of the service has loaded and announced snapshot 1. *)
LoadedInit ==
    /\ NotRunning
    /\ staging = PageSet(1) /\ live = PageSet(1) /\ told = 1
    /\ lost = FALSE

(* CopyOrders holds one session from the TRUNCATE to the end of the COPY. *)
SessionHeld == pc \in {"truncate", "copy"}

(* Between two calls the sessions are in the pool, which pings one that has  *)
(* been idle for more than a second before it hands it out, and replaces it  *)
(* when it is dead: the next call then notices nothing.                      *)
PostgresRecovers ==
    /\ staging' = {}
    /\ lost' \in IF SessionHeld THEN {TRUE} ELSE BOOLEAN
    /\ UNCHANGED <<streamVars, runVars, live, told, errs, logged>>

(* Where Run goes when a database call fails.  (Acquire sends nothing, so    *)
(* with a dead session it is the TRUNCATE that fails.)                       *)
FailsTo(l) ==
    CASE l \in {"truncate", "copy"} -> "await"
      [] l \in {"count", "apply", "verify", "resync"} -> "record"
      [] l = "markFailed" -> "logFailed"
      [] l \in {"mark", "log", "logFailed"} -> "done"

DbCalls ==
    {"truncate", "copy", "count", "apply", "verify", "resync", "mark", "log",
     "markFailed", "logFailed"}

(* A call on a dead session fails and changes nothing; the pool then closes  *)
(* the session, and the next one is new.                                     *)
CallFails ==
    /\ lost /\ pc \in DbCalls
    /\ RunStep /\ pc' = FailsTo(pc) /\ UNCHANGED dbVars
    /\ lost' = FALSE

CrashNext ==
    \/ RunStep /\ ~(lost /\ pc \in DbCalls) /\ UNCHANGED lost
    \/ Start /\ UNCHANGED lost
    \/ DrainOrders /\ UNCHANGED lost
    \/ SweepStep /\ UNCHANGED lost
    \/ UpstreamRolls /\ UNCHANGED lost
    \/ Shutdown /\ UNCHANGED lost
    \/ Restart /\ lost' = FALSE
    \/ CallFails
    \/ PostgresRecovers

CrashSpec == LoadedInit /\ [][CrashNext]_crashVars

=============================================================================
