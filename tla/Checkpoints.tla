----------------------------- MODULE Checkpoints -----------------------------
(***************************************************************************)
(* What the branch and the pull request checkpoints of                     *)
(* packages/orchestration share: how evidence is ordered (ordering.ts) and *)
(* how the job a checkpoint points at is stopped (scheduler.ts).           *)
(*                                                                         *)
(* Evidence is [n, ordered]: it tells the truth about provider state n,    *)
(* with or without a sequence number.  A table of jobs is a function from  *)
(* generations to records with a state.                                    *)
(***************************************************************************)
EXTENDS Integers

None == 0                           \* NULL in a job or provider column
NoEvidence == [n |-> 0, ordered |-> FALSE]

(* classifyProviderUpdate, for evidence that tells the truth: the payload  *)
(* is a function of n, so that equal sequences never conflict.             *)
BugArrivalOrder(current, next) ==
  IF current.n = None THEN (IF next.ordered THEN "first" ELSE "incomparable")
  ELSE IF ~current.ordered \/ ~next.ordered
    THEN (IF current = next THEN "exact_replay" ELSE "incomparable")
  ELSE IF next.n = current.n THEN "exact_replay" ELSE "newer"
classifyProviderUpdate(current, next) ==
  CASE current.n = None -> IF next.ordered THEN "first" ELSE "incomparable"
    [] current.n # None /\ ~(current.ordered /\ next.ordered) ->
         IF current = next THEN "exact_replay" ELSE "incomparable"
    [] OTHER -> IF next.n < current.n THEN "stale"
                ELSE IF next.n > current.n THEN "newer" ELSE "exact_replay"

isMonotoneProviderConfirmation(origin, current) ==
  classifyProviderUpdate(origin, current) \in {"exact_replay", "newer"}

-----------------------------------------------------------------------------
(* "coded" is retry_wait with a safe_last_error_code, which failJob leaves *)
(* and an expired lease does not; "stopping" a lease that was asked to end;*)
(* "stopped" a job that was cancelled or superseded.                       *)
WaitingStates == {"queued", "retry_wait", "coded"}
JobStates == WaitingStates \cup
  {"none", "leased", "stopping", "succeeded", "failed", "stopped"}
Unfinished(job) == job.state \in WaitingStates \cup {"leased", "stopping"}

(* What a checkpoint reports of its job (updateCheckpointState).           *)
Outcome(state) == IF state = "coded" THEN "retry_wait" ELSE state

(* persistSupersede and persistCancel of the job a checkpoint points at.   *)
(* Neither clears the error code of a waiting job, which its table CHECK   *)
(* then refuses: the transaction rolls back.                               *)
Movable(jobs, g) == g \notin {h \in DOMAIN jobs : jobs[h].state = "coded"}
StopState(state) == CASE state \in WaitingStates -> "stopped"
                      [] state = "leased"        -> "stopping"
                      [] OTHER                   -> state
BugStopWaiting(jobs, g) ==
  IF g = None \/ jobs[g].state = "leased" THEN jobs
  ELSE [jobs EXCEPT ![g].state = StopState(@)]
Stop(jobs, g) ==
  IF g = None THEN jobs ELSE [jobs EXCEPT ![g].state = StopState(@)]

(* Where a leased job goes after an error (failJob, which leaves a code)   *)
(* or when its lease has expired.                                          *)
Held(job)   == job.state \in {"leased", "stopping"}
Ends(state) == IF state = "stopping" THEN {"stopped"}
               ELSE {"coded", "retry_wait", "failed"}
=============================================================================
