---------------------------- MODULE JobLifecycle ----------------------------
(***************************************************************************)
(* What the orchestration package promises of one job, as the pure reducer *)
(* reduceJobState of packages/orchestration/src/state.ts states it.  The   *)
(* reducer is the contract the package exports; the worker and scheduler   *)
(* transactions write the same column with SQL of their own (JobQueue),    *)
(* and JobQueue is checked to implement this module.                       *)
(*                                                                         *)
(* A job that was not inserted yet is "absent".  The error code is kept    *)
(* only for a failed job, as in the reducer.                               *)
(***************************************************************************)
CONSTANT Jobs                \* every job identity of the tenant

VARIABLE status              \* status[j] = [state |-> ..., code |-> ...]

JobStates == {"queued", "leased", "retry_wait",
              "succeeded", "failed", "cancelled", "superseded"}
TerminalStates == {"succeeded", "failed", "cancelled", "superseded"}
FailureCodes == {"none", "execution", "dependency"}

Transitions == {"lease", "succeed", "retry", "fail",
                "cancel", "supersede", "dependency_failed"}

(* The result of one transition: the set of statuses reduceJobState can    *)
(* return, empty where it throws JOB_LEASE_CONFLICT.  dependency_failed    *)
(* carries the flags of the row, which the reducer only reads, so that any *)
(* of its three answers may come back.                                     *)
Plain(state) == [state |-> state, code |-> "none"]
Failed(code) == [state |-> "failed", code |-> code]

reduceJobState(current, transition) ==
  LET waiting == current.state \in {"queued", "retry_wait"}
      leased  == current.state = "leased"
  IN  CASE current.state \in TerminalStates -> {current}
        [] OTHER ->
             CASE transition = "dependency_failed" ->
                    {Plain("superseded"), Plain("cancelled")}
                      \cup (IF waiting THEN {Failed("dependency")} ELSE {})
               [] transition = "cancel"    -> {Plain("cancelled")}
               [] transition = "supersede" -> {Plain("superseded")}
               [] transition = "lease"   /\ waiting -> {Plain("leased")}
               [] transition = "succeed" /\ leased  -> {Plain("succeeded")}
               [] transition = "retry"   /\ leased  -> {Plain("retry_wait")}
               [] transition = "fail"    /\ leased  -> {Failed("execution")}
               [] OTHER -> {}

Init == status = [j \in Jobs |-> Plain("absent")]

Insert(j) == /\ status[j].state = "absent"
             /\ status'[j] = Plain("queued")

Reduce(j) == /\ status[j].state # "absent"
             /\ \E transition \in Transitions :
                  status'[j] \in reduceJobState(status[j], transition)

(* One database transaction moves any number of jobs, each of them by one  *)
(* insertion or one reduction.                                             *)
Next == /\ DOMAIN status' = Jobs
        /\ \A j \in Jobs : \/ status'[j] = status[j]
                           \/ Insert(j)
                           \/ Reduce(j)

Spec == Init /\ [][Next]_status
=============================================================================
