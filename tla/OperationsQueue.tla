---------------------------- MODULE OperationsQueue ----------------------------
(***************************************************************************)
(* One job of the BullMQ queue "operations" that every background task of  *)
(* the backend goes through, as backend/src/queue/queue-runtime.service.ts *)
(* configures it.  The library itself is not in the repository: the        *)
(* operators below say what the backend relies on, that is                 *)
(*   - a job id is unique while the job is known to Redis, finished jobs   *)
(*     included, so adding an id again changes nothing;                    *)
(*   - a job that throws is run again until it made MaxAttempts attempts,  *)
(*     or at once never again if the error is an UnrecoverableError;       *)
(*   - a job whose worker lost its lock (crash, blocked event loop, Redis  *)
(*     unreachable) is handed out again, and once it has stalled more than *)
(*     MaxStalls times it is failed with an UnrecoverableError instead;    *)
(*   - finished jobs are forgotten after their retention time.             *)
(* Back-off delays are not modelled: a delayed job is a waiting one that   *)
(* no worker has fetched yet.                                              *)
(***************************************************************************)
EXTENDS Naturals

CONSTANTS Workers,      \* worker processes (one job at a time each)
          NoWorker,     \* owner of a job no worker holds the lock of
          MaxAttempts,  \* REFERENCE_JOB_ATTEMPTS
          MaxStalls     \* BullMQ's maxStalledCount, left at its default of 1

ASSUME QueueAssumption ==
    /\ NoWorker \notin Workers
    /\ MaxAttempts \in Nat \ {0}
    /\ MaxStalls \in Nat

\* "absent" was never added; "removed" was added and is past its retention.
JobState == {"absent", "waiting", "active", "completed", "failed", "removed"}

Job == [state    : JobState,
        attempts : Nat,
        stalls   : Nat,
        owner    : Workers \cup {NoWorker}]

UnknownJob(s) ==
    [state |-> s, attempts |-> 0, stalls |-> 0, owner |-> NoWorker]

Added(j) ==
    IF j.state \in {"absent", "removed"} THEN UnknownJob("waiting") ELSE j

Fetched(j, w) == [j EXCEPT !.state = "active", !.owner = w]

\* The lock is gone once the job stalled that often: the next fetch buries it.
Exhausted(j) == j.stalls > MaxStalls

Released(j, s) == [j EXCEPT !.state = s, !.owner = NoWorker]

Finished(j) == Released(j, "completed")

\* The processor threw an ordinary Error.
Retried(j) ==
    LET made == j.attempts + 1
    IN  [Released(j, IF made < MaxAttempts THEN "waiting" ELSE "failed")
            EXCEPT !.attempts = made]

\* The processor threw an UnrecoverableError.
Buried(j) == [Released(j, "failed") EXCEPT !.attempts = j.attempts + 1]

Stalled(j) == [Released(j, "waiting") EXCEPT !.stalls = j.stalls + 1]

Forgotten(j) == UnknownJob("removed")
=============================================================================
