------------------------------ MODULE JobQueue ------------------------------
(***************************************************************************)
(* The durable job queue of packages/orchestration: the rows of            *)
(* orchestration_jobs of one tenant, the workers that claim them and the   *)
(* transactions that move them (worker.ts, scheduler.ts, repository.ts,    *)
(* execution.ts).  Every such transaction takes the tenant's               *)
(* configuration.tenant advisory lock before it touches a row, so that one *)
(* transaction is one action.  Where the source reads before the lock      *)
(* (jobDiscovery) the action chooses any set the stale read can return.    *)
(*                                                                         *)
(* Database time is a pair of countdowns: r.lease is what is left of       *)
(* lease_expires_at (0 = expired), r.delay what is left of available_at    *)
(* (0 = due; read for waiting jobs only).  Every claim draws a fresh       *)
(* random token and adds one to attempt_count, so <<job, attempt>> names   *)
(* the token.                                                              *)
(*                                                                         *)
(* A definition Bug... precedes the one it is a faulty variant of.  No     *)
(* action uses it: it is put in the other's place to see that a property   *)
(* notices.                                                                *)
(***************************************************************************)
EXTENDS Integers, FiniteSets

CONSTANTS
  Jobs,            \* job identities (semanticOrchestrationId of a job)
  Services,        \* services of the tenant
  Repositories,    \* repositories of the tenant
  Configs,         \* registered configuration fingerprints
  ServiceOf,       \* the service a job analyses
  RepositoryOf,    \* the repository a service lives in
  SubjectOf,       \* the checkpoint a job works for
  ProviderSubjects,\* checkpoints of branches and pull requests; the others
                   \* are baselines, which are never superseded or closed
  FingerprintOf,   \* the configuration a job was scheduled under
  PrerequisitesOf, \* orchestration_job_dependencies
  Policies,        \* concurrency policies an administrator may store
  DefaultPolicy,   \* the limits of a tenant without a stored policy
  MaxAttempts,     \* max_attempts of a job (5 in the source)
  LeaseTicks,      \* LEASE_DURATION_MS in ticks
  RetryBase,       \* RETRY_BASE_MS in ticks
  RetryMax,        \* RETRY_MAX_MS in ticks
  MaxClaimBatch,   \* MAX_CLAIM_BATCH
  NoJob            \* the NULL of superseding_job_id

PolicyLimits == [global : Nat \ {0}, repository : Nat \ {0}, service : Nat \ {0}]

ASSUME ScopeAssumption ==
  /\ ServiceOf \in [Jobs -> Services]
  /\ RepositoryOf \in [Services -> Repositories]
  /\ FingerprintOf \in [Jobs -> Configs]
  /\ DOMAIN SubjectOf = Jobs
  /\ NoJob \notin Jobs
  /\ IsFiniteSet(Jobs)        \* claimJobs counts the leases of a scope

(* A job never waits for itself (the CHECK on the dependency table).  The  *)
(* scheduler makes a preview wait for baselines only (schedulePullRequest).*)
ASSUME DependencyAssumption ==
  /\ PrerequisitesOf \in [Jobs -> SUBSET Jobs]
  /\ \A j \in Jobs : \A p \in PrerequisitesOf[j] :
        p # j /\ SubjectOf[p] \notin ProviderSubjects

ASSUME LimitAssumption ==
  /\ MaxAttempts \in Nat \ {0}
  /\ LeaseTicks \in Nat \ {0}
  /\ RetryBase \in Nat \ {0}
  /\ RetryMax \in Nat /\ RetryMax >= RetryBase
  /\ \A n \in 0..MaxAttempts : 2^n \in Nat
  /\ MaxClaimBatch \in Nat \ {0}
  /\ DefaultPolicy \in PolicyLimits
  /\ \A p \in Policies : p \in PolicyLimits

VARIABLES
  row,       \* row[j]: the job's row of orchestration_jobs
  held,      \* the tokens workers hold in memory
  active,    \* orchestration_active_configurations.config_fingerprint
  policy     \* orchestration_concurrency_policies

vars == <<row, held, active, policy>>

-----------------------------------------------------------------------------
(* Rows and what the code reads from them.                                 *)

WaitingStates  == {"queued", "retry_wait"}
FailedStates   == {"failed", "cancelled", "superseded"}
TerminalStates == FailedStates \cup {"succeeded"}
JobStates      == WaitingStates \cup TerminalStates \cup {"leased", "absent"}
Codes          == {"none", "execution", "dependency"}

Rows == [state        : JobStates,
         attempt      : 0..MaxAttempts,        \* attempt_count
         cancel       : BOOLEAN,               \* cancellation_requested
         supersededBy : Jobs \cup {NoJob},     \* superseding_job_id
         code         : Codes,                 \* safe_last_error_code
         lease        : 0..LeaseTicks,
         delay        : 0..RetryMax]

NoRow  == [state |-> "absent", attempt |-> 0, cancel |-> FALSE,
           supersededBy |-> NoJob, code |-> "none", lease |-> 0, delay |-> 0]
NewRow == [NoRow EXCEPT !.state = "queued"]

Waiting(r)    == r.state \in WaitingStates
Leased(r)     == r.state = "leased"
LiveLease(r)  == Leased(r) /\ r.lease > 0
Unfinished(r) == Waiting(r) \/ Leased(r)

(* No request has been made yet to give the job up; the scheduler's        *)
(* checkpoints point at such a job only.                                   *)
Wanted(r) == Unfinished(r) /\ ~r.cancel

failedPrerequisite(j) ==
  \E p \in PrerequisitesOf[j] : row[p].state \in FailedStates
readyPrerequisites(j) ==
  \A p \in PrerequisitesOf[j] : row[p].state = "succeeded"

(* The end a job meets for a reason other than its own work, or "none".    *)
terminalState(r, dependencyFailed) ==
  CASE r.supersededBy # NoJob -> "superseded"
    [] r.supersededBy = NoJob /\ r.cancel -> "cancelled"
    [] r.supersededBy = NoJob /\ ~r.cancel /\ dependencyFailed -> "failed"
    [] OTHER -> "none"

RetryDelay(attempt) ==
  LET delay == RetryBase * 2^(attempt - 1)
  IN  IF attempt > 53 \/ delay > RetryMax THEN RetryMax ELSE delay

-----------------------------------------------------------------------------
(* The four row writes of writePlannedJobChange.  available_at is left     *)
(* alone by a terminal write, where nobody reads it any more.              *)

WriteTerminal(r, state, code) ==
  [r EXCEPT !.state = state, !.code = code, !.lease = 0, !.delay = 0]
WriteRetry(r, code) ==
  [r EXCEPT !.state = "retry_wait", !.code = code, !.lease = 0,
            !.delay = RetryDelay(r.attempt)]
WriteClaim(r) ==
  [r EXCEPT !.state = "leased", !.attempt = @ + 1, !.code = "none",
            !.lease = LeaseTicks]
WriteCancelRequest(r) == [r EXCEPT !.cancel = TRUE]

(* A job given up for the reason terminalState finds.                      *)
WriteRequested(r, dependencyFailed) ==
  LET state == terminalState(r, dependencyFailed)
  IN  WriteTerminal(r, state, IF state = "failed" THEN "dependency" ELSE "none")

-----------------------------------------------------------------------------
(* planTerminalDependents: from the jobs that end, walk the dependency     *)
(* graph through every job that is, or is about to be, terminal without    *)
(* success.  The walk reads the rows as they were before the transaction.  *)

Conducts(r) == ~Leased(r) /\ r.state # "succeeded"

ClosedUnderFailure(S, roots) ==
  \A p \in S : (p \in roots \/ Conducts(row[p])) =>
     \A j \in Jobs : p \in PrerequisitesOf[j] => j \in S

TerminalDependents(roots) ==
  {j \in Jobs \ roots : \A S \in SUBSET Jobs :
     (roots \subseteq S /\ ClosedUnderFailure(S, roots)) => j \in S}

(* The rows after the transaction: planned[j], unless the walk reaches j.  *)
WithDependents(roots, planned) ==
  LET reached == TerminalDependents(roots)
  IN  [j \in Jobs |->
        IF j \in reached /\ Waiting(row[j])
          THEN WriteRequested(row[j], TRUE)
        ELSE IF j \in reached /\ Leased(row[j])
          THEN WriteCancelRequest(row[j])
        ELSE planned[j]]

-----------------------------------------------------------------------------
(* Scheduling: persistScheduledJobs inserts the new jobs of an event or of *)
(* a configuration change and makes the transitions the scheduler staged.  *)

Write(r, state) == IF Leased(r) THEN [r EXCEPT !.cancel = TRUE]
                   ELSE [r EXCEPT !.state = state, !.delay = 0]

BugUnflaggedSupersede(r, next) ==
  [Write(r, "superseded") EXCEPT !.supersededBy = next]
persistSupersede(r, next) ==
  [Write(r, "superseded") EXCEPT !.cancel = TRUE, !.supersededBy = next]
persistCancel(r) == Write(r, "cancelled")

(* Neither write clears safe_last_error_code, and the table only admits a  *)
(* code beside retry_wait or failed: with a coded row among the waiting    *)
(* targets the statement is rejected and the transaction rolls back.       *)
CodeCheckPasses(targets) ==
  \A j \in targets : Waiting(row[j]) => row[j].code = "none"

BugCurrentWaiting(subject) ==
  {j \in Jobs : SubjectOf[j] = subject /\ Waiting(row[j])}
Current(subject) == {j \in Jobs : SubjectOf[j] = subject /\ Wanted(row[j])}

Successor(new, j) == CHOOSE n \in new : SubjectOf[n] = SubjectOf[j]

persistScheduledJobs(new, superseded, cancelled) ==
  LET roots == {j \in superseded \cup cancelled : Waiting(row[j])}
  IN  /\ CodeCheckPasses(superseded \cup cancelled)
      /\ row' = WithDependents(roots,
           [j \in Jobs |-> CASE j \in new        -> NewRow
                             [] j \in superseded -> persistSupersede(row[j], Successor(new, j))
                             [] j \in cancelled  -> persistCancel(row[j])
                             [] OTHER            -> row[j]])

(* What the scheduler may insert: jobs of the configuration c, one for a   *)
(* subject, whose prerequisites come with them or are sound.               *)
Schedulable(new, c) ==
  /\ new # {}
  /\ \A n \in new :
       /\ row[n].state = "absent"
       /\ FingerprintOf[n] = c
       /\ \A p \in PrerequisitesOf[n] :
            p \in new \/ row[p].state = "succeeded" \/ Wanted(row[p])
       /\ SubjectOf[n] \notin ProviderSubjects => Current(SubjectOf[n]) = {}
  /\ \A m, n \in new : SubjectOf[m] = SubjectOf[n] => m = n

(* ingestEvent: new desired states supersede the current jobs.             *)
ScheduleJobs(new) ==
  /\ Schedulable(new, active)
  /\ persistScheduledJobs(new, UNION {Current(SubjectOf[n]) : n \in new}, {})
  /\ UNCHANGED <<held, active, policy>>

(* ingestEvent: the branch is gone, the pull request is closed or merged.  *)
CloseSubject(subject) ==
  /\ subject \in ProviderSubjects
  /\ Current(subject) # {}
  /\ persistScheduledJobs({}, {}, Current(subject))
  /\ UNCHANGED <<held, active, policy>>

(* activateConfigurationByCas, config.changed: every service is affected,  *)
(* because the fingerprint differs.  Work under way is cancelled, or       *)
(* superseded by the reconciliations queued for the new configuration.     *)
ActivateConfiguration(c, reconciliations) ==
  LET superseded == UNION {Current(SubjectOf[n]) : n \in reconciliations}
  IN  /\ c # active
      /\ reconciliations = {} \/ Schedulable(reconciliations, c)
      /\ \A n \in reconciliations : PrerequisitesOf[n] = {}
      /\ persistScheduledJobs(reconciliations, superseded,
                              {j \in Jobs : Wanted(row[j])} \ superseded)
      /\ active' = c
      /\ UNCHANGED <<held, policy>>

(* cancelJob, by an operator.  A finished job is left alone; a leased one  *)
(* is only asked to stop.                                                  *)
CancelJob(j) ==
  /\ Unfinished(row[j])
  /\ CodeCheckPasses({j})
  /\ row' = WithDependents(IF Waiting(row[j]) THEN {j} ELSE {},
       [row EXCEPT ![j] = [persistCancel(row[j]) EXCEPT !.cancel = TRUE]])
  /\ UNCHANGED <<held, active, policy>>

putConcurrencyPolicy(limits) ==
  /\ policy' = limits
  /\ UNCHANGED <<row, held, active>>

-----------------------------------------------------------------------------
(* claimJobs.  jobDiscovery runs before the locks are taken and again      *)
(* selects at most 128 rows, so that a claim may miss any candidate; the   *)
(* rows it did discover are judged under the lock.  The queue order is any *)
(* order, hence the three sets: leases found expired, waiting jobs ended   *)
(* and waiting jobs leased, the last up to the batch limit of the call.    *)

BugExpiredRetryable ==
  {j \in Jobs : Leased(row[j]) /\ row[j].lease = 0 /\ row[j].attempt < MaxAttempts}
Expired == {j \in Jobs : Leased(row[j]) /\ row[j].lease = 0}
Due     == {j \in Jobs : /\ Waiting(row[j]) /\ row[j].delay = 0
                         /\ failedPrerequisite(j) \/ readyPrerequisites(j)}

isAllowedByActiveConfig(j) == FingerprintOf[j] = active
Requested(j) == terminalState(row[j], failedPrerequisite(j)) # "none"
Exhausted(j) == row[j].attempt >= MaxAttempts

Doomed    == {j \in Due : \/ ~isAllowedByActiveConfig(j)
                          \/ Requested(j)
                          \/ Exhausted(j)}
Claimable == {j \in Due \ Doomed : readyPrerequisites(j)}

(* capacityAvailable counts live leases, and the claims of this batch.     *)
Live == {j \in Jobs : LiveLease(row[j])}
OfService(S, s)    == {j \in S : ServiceOf[j] = s}
OfRepository(S, r) == {j \in S : RepositoryOf[ServiceOf[j]] = r}

BugCapacityOfLeases(claimed) ==
  \A j \in claimed :
    LET busy == Live \cup {j}
    IN  /\ Cardinality(busy) <= policy.global
        /\ Cardinality(OfRepository(busy, RepositoryOf[ServiceOf[j]])) <= policy.repository
        /\ Cardinality(OfService(busy, ServiceOf[j])) <= policy.service
capacityAvailable(claimed) ==
  \A j \in claimed :
    LET busy == Live \cup claimed
    IN  /\ Cardinality(busy) <= policy.global
        /\ Cardinality(OfRepository(busy, RepositoryOf[ServiceOf[j]])) <= policy.repository
        /\ Cardinality(OfService(busy, ServiceOf[j])) <= policy.service

BugRetryCancelled(j) ==
  IF Exhausted(j) THEN WriteTerminal(row[j], "failed", "execution")
  ELSE WriteRetry(row[j], "none")
BugRetryExhausted(j) ==
  IF Requested(j) THEN WriteRequested(row[j], failedPrerequisite(j))
  ELSE WriteRetry(row[j], "none")
WriteExpired(j) ==
  IF Requested(j) THEN WriteRequested(row[j], failedPrerequisite(j))
  ELSE IF Exhausted(j) THEN WriteTerminal(row[j], "failed", "execution")
  ELSE WriteRetry(row[j], "none")

WriteDoomed(j) ==
  IF ~isAllowedByActiveConfig(j) THEN WriteTerminal(row[j], "cancelled", "none")
  ELSE IF Requested(j) THEN WriteRequested(row[j], failedPrerequisite(j))
  ELSE WriteTerminal(row[j], "failed", "execution")

(* The jobs this claim ends without success, whose dependents end too.     *)
BugEndedByRequest(expired, doomed) == doomed \cup {j \in expired : Requested(j)}
Ended(expired, doomed) ==
  doomed \cup {j \in expired : Requested(j) \/ Exhausted(j)}

claimJobs(expired, doomed, claimed) ==
  /\ expired \subseteq Expired
  /\ doomed \subseteq Doomed
  /\ claimed \subseteq Claimable
  /\ expired \cup doomed \cup claimed # {}
  /\ Cardinality(claimed) <= MaxClaimBatch
  /\ capacityAvailable(claimed)
  /\ row' = WithDependents(Ended(expired, doomed),
       [j \in Jobs |-> CASE j \in expired -> WriteExpired(j)
                         [] j \in doomed  -> WriteDoomed(j)
                         [] j \in claimed -> WriteClaim(row[j])
                         [] OTHER         -> row[j]])
  /\ held' = held \cup {<<j, row[j].attempt + 1>> : j \in claimed}
  /\ UNCHANGED <<active, policy>>

-----------------------------------------------------------------------------
(* Workers.  A worker presents the token of its claim; validateLiveJobLease*)
(* and validateLease refuse it unless it is the row's and not expired.     *)

BugAnyLiveLease(j, n) == LiveLease(row[j])
HoldsLease(j, n) == LiveLease(row[j]) /\ row[j].attempt = n
Drop(j, n)       == held' = held \ {<<j, n>>}

BugBlindHeartbeat(j, n) ==
  /\ HoldsLease(j, n)
  /\ row' = [row EXCEPT ![j].lease = LeaseTicks]
  /\ UNCHANGED <<held, active, policy>>
heartbeatJob(j, n) ==
  /\ HoldsLease(j, n)
  /\ row[j].supersededBy = NoJob
  /\ ~row[j].cancel
  /\ ~failedPrerequisite(j)
  /\ row' = [row EXCEPT ![j].lease = LeaseTicks]
  /\ UNCHANGED <<held, active, policy>>

failJob(j, n) ==
  LET ends == Requested(j) \/ Exhausted(j)
  IN  /\ HoldsLease(j, n)
      /\ row' = WithDependents(IF ends THEN {j} ELSE {},
           [row EXCEPT ![j] =
             IF Requested(j) THEN WriteRequested(row[j], failedPrerequisite(j))
             ELSE IF Exhausted(j) THEN WriteTerminal(row[j], "failed", "execution")
             ELSE WriteRetry(row[j], "execution")])
      /\ Drop(j, n)
      /\ UNCHANGED <<active, policy>>

(* completion of an analysis, finishReconciliation of a reconciliation.    *)
completeJob(j, n) ==
  /\ HoldsLease(j, n)
  /\ row[j].supersededBy = NoJob
  /\ ~row[j].cancel
  /\ FingerprintOf[j] = active
  /\ row' = [row EXCEPT ![j] = WriteTerminal(row[j], "succeeded", "none")]
  /\ Drop(j, n)
  /\ UNCHANGED <<active, policy>>

(* The worker crashes, or is refused and gives the job up.                 *)
loseLease(j, n) ==
  /\ Drop(j, n)
  /\ UNCHANGED <<row, active, policy>>

Tick ==
  /\ \E j \in Jobs : row[j].lease > 0 \/ row[j].delay > 0
  /\ row' = [j \in Jobs |->
       [row[j] EXCEPT !.lease = IF @ > 0 THEN @ - 1 ELSE 0,
                      !.delay = IF @ > 0 THEN @ - 1 ELSE 0]]
  /\ UNCHANGED <<held, active, policy>>

-----------------------------------------------------------------------------
Init ==
  /\ row = [j \in Jobs |-> NoRow]
  /\ held = {}
  /\ active \in Configs
  /\ policy = DefaultPolicy

Schedule   == \E new \in SUBSET Jobs : ScheduleJobs(new)
Close      == \E j \in Jobs : CloseSubject(SubjectOf[j])
Activate   == \E c \in Configs, new \in SUBSET Jobs : ActivateConfiguration(c, new)
Cancel     == \E j \in Jobs : CancelJob(j)
PutPolicy  == \E limits \in Policies : putConcurrencyPolicy(limits)
Claim      == \E expired \in SUBSET Expired, doomed \in SUBSET Doomed,
                 claimed \in SUBSET Claimable :
                claimJobs(expired, doomed, claimed)
Heartbeat  == \E t \in held : heartbeatJob(t[1], t[2])
Fail       == \E t \in held : failJob(t[1], t[2])
Complete   == \E t \in held : completeJob(t[1], t[2])
Lose       == \E t \in held : loseLease(t[1], t[2])

Next == \/ Schedule \/ Close \/ Activate \/ Cancel \/ PutPolicy
        \/ Claim \/ Heartbeat \/ Fail \/ Complete \/ Lose
        \/ Tick

Spec == Init /\ [][Next]_vars

(* Hosts keep polling claimJobs, in queue order, so that a job a claim     *)
(* could move again and again is moved; time passes.  Nothing is assumed   *)
(* of a worker that has claimed a job: it may crash or hang.               *)
ClaimOf(j) == \E expired \in SUBSET Expired, doomed \in SUBSET Doomed,
                 claimed \in SUBSET Claimable :
                /\ j \in expired \cup doomed \cup claimed
                /\ claimJobs(expired, doomed, claimed)
Fairness == WF_vars(Tick) /\ \A j \in Jobs : SF_vars(ClaimOf(j))
FairSpec == Spec /\ Fairness

-----------------------------------------------------------------------------
(* Properties.                                                             *)

(* Rows, tokens, configuration and policy stay in their ranges.            *)
TypeOK ==
  /\ row \in [Jobs -> Rows]
  /\ held \subseteq Jobs \X (1..MaxAttempts)
  /\ active \in Configs
  /\ policy \in Policies \cup {DefaultPolicy}

(* The CHECK constraints of migrations 0001 and 0002 that relate columns   *)
(* written by different statements: no transaction of the package but the  *)
(* ones CodeCheckPasses guards is ever rejected by the database.           *)
RowConstraints ==
  \A j \in Jobs : LET r == row[j] IN
    /\ r.supersededBy # NoJob =>
         r.cancel /\ r.state \in {"leased", "superseded"}
    /\ r.state = "superseded" => r.supersededBy # NoJob
    /\ r.code # "none" => r.state \in {"retry_wait", "failed"}
    /\ r.lease > 0 => Leased(r)

(* Every row of orchestration_jobs is one the schema and its constraints   *)
(* admit, however the statements of several transactions write it.         *)
RowsAreSound == TypeOK /\ RowConstraints

(* A job that was ever leased has every prerequisite done, for good: a     *)
(* preview is never computed against a baseline that did not succeed.      *)
RunsOnlyAfterPrerequisites ==
  \A j \in Jobs :
    row[j].attempt > 0 \/ Leased(row[j]) \/ row[j].state = "succeeded"
      => readyPrerequisites(j)

(* Failure, cancellation and supersession reach every transitive dependent *)
(* in the transaction that ends the prerequisite.                          *)
NoStrandedDependent ==
  \A j \in Jobs : failedPrerequisite(j) => row[j].state \in FailedStates \cup {"absent"}

(* What a dependent waits for is done before it runs, and when it cannot be*)
(* done any more the dependent ends with it.                               *)
DependenciesHold == RunsOnlyAfterPrerequisites /\ NoStrandedDependent

(* Work that was asked to stop waits no more, and is never published.      *)
StoppedWorkStaysStopped ==
  \A j \in Jobs : row[j].cancel \/ row[j].supersededBy # NoJob
    => ~Waiting(row[j]) /\ row[j].state # "succeeded"

(* One job at most is wanted for a subject: the scheduler's checkpoint     *)
(* cannot lose track of a job that still runs.                             *)
OneWantedJobPerSubject ==
  \A i, j \in Jobs : Wanted(row[i]) /\ Wanted(row[j]) /\ SubjectOf[i] = SubjectOf[j]
    => i = j

(* What is wanted was made for the active configuration: an activation     *)
(* stops all that the configuration before it asked for.                   *)
WantedWorkIsConfigured ==
  \A j \in Jobs : Wanted(row[j]) => FingerprintOf[j] = active

(* Whatever is scheduled, cancelled, superseded and activated in between,  *)
(* the jobs that may still publish are those the scheduler knows of.       *)
OnlyKnownWorkIsWanted == OneWantedJobPerSubject /\ WantedWorkIsConfigured

(* claimJobs never fills a scope beyond the limits in force: whenever the  *)
(* number of live leases of a scope grows, it ends within its limit.       *)
CapacityRespected ==
  [][LET Grows(S) == Cardinality(S') > Cardinality(S)
     IN  /\ Grows(Live) => Cardinality(Live') <= policy'.global
         /\ \A r \in Repositories : Grows(OfRepository(Live, r))
              => Cardinality(OfRepository(Live, r)') <= policy'.repository
         /\ \A s \in Services : Grows(OfService(Live, s))
              => Cardinality(OfService(Live, s)') <= policy'.service]_vars

(* A result is accepted from the worker of the newest claim alone, while   *)
(* its lease is live; an answer that comes after the lease expired, or     *)
(* after the job was claimed again, changes nothing.                       *)
LateAnswersChangeNothing ==
  [][\A t \in held : LET j == t[1] IN
       (t \notin held' /\ row'[j] # row[j])
         => LiveLease(row[j]) /\ row[j].attempt = t[2]]_vars

(* Every transaction moves a job as the exported reducer allows.           *)
Lifecycle == INSTANCE JobLifecycle
  WITH status <- [j \in Jobs |-> [state |-> row[j].state,
                    code |-> IF row[j].state = "failed" THEN row[j].code ELSE "none"]]
FollowsLifecycle == Lifecycle!Spec

(* A cancelled or superseded job ends, whatever its worker does: heartbeats*)
(* are refused, the lease runs out and a claim ends the job.               *)
CancellationTakesEffect ==
  \A j \in Jobs : row[j].cancel ~> row[j].state \in TerminalStates

(* Where workers do answer (complete, fail or crash, instead of renewing   *)
(* the lease forever), every job that was inserted ends.                   *)
WorkerAnswers(j) == \E n \in 1..MaxAttempts :
  /\ <<j, n>> \in held
  /\ failJob(j, n) \/ completeJob(j, n) \/ loseLease(j, n)
EveryJobEnds ==
  (\A j \in Jobs : WF_vars(WorkerAnswers(j)))
    => \A j \in Jobs : Unfinished(row[j]) ~> row[j].state \in TerminalStates

(* README.md of the package, lines 29-31 and 35-36: closing a pull request *)
(* cancels its outstanding preview, and a configuration change cancels     *)
(* obsolete work; an operator may cancel any unfinished job.               *)
OutstandingWorkCanBeCancelled ==
  \A j \in Jobs : Unfinished(row[j]) => ENABLED CancelJob(j)
=============================================================================
