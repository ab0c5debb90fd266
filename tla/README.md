# Verification of api-truth

api-truth keeps an API catalog true to the source: provider events say that a
branch or a pull request moved, workers analyse the immutable revision, and
what succeeds is published behind a pointer; deployments, observations and
language models are then related to what was published. What is hard about it
is rarely the analysis but the bookkeeping around it: several hosts, leases on
database time, retries, events out of order, providers asked outside of any
transaction, configuration changes in the middle. This directory models that
bookkeeping in TLA+, checks it with TLC on small instances and proves the
central invariants with TLAPS for every instance.

## 1. Inventory

| Component | State | Operations | What makes it correct | Here |
|---|---|---|---|---|
| Job queue (`packages/orchestration/src/worker.ts`, `scheduler.ts`, `repository.ts`, `state.ts`) | jobs, their dependencies, concurrency policies | schedule, claim, heartbeat, fail, complete, cancel, supersede, change policy | leases are exclusive; prerequisites come first; the end of a job reaches its dependents; limits hold; stopped work stays stopped; every job ends | `JobQueue`, `JobLifecycle` |
| Branch tracking (`scheduler.ts`, `reconciliation.ts`, `ordering.ts`, `execution.ts`) | branch and reconciliation checkpoints, revision associations, the catalog's pointer | ingest, request and complete an exact reconciliation, activate a configuration, complete an analysis | checkpoint, job and pointer agree; evidence is never falsified; newer updates are not undone; the branch catches up | `Checkpoints`, `BranchTracking` |
| Pull request tracking (same files) | `orchestration_pr_checkpoints` and its jobs | open, update, close, reconcile, cancel, activate a configuration | a request to ask the provider is never lost; only the wanted job runs | `Checkpoints`, `PullRequests` |
| Event ingress, configuration registry (`repository.ts`, `configuration.ts`, `authorization.ts`) | event ledger with deliveries, registered configurations, the active one | register, activate initially, by version, by event; ingest | an event counts once; late and foreign events do not move the configuration back; what is queued tells of what happened | `EventLedger` |
| Outbox (`worker.ts`) | `orchestration_outbox` | insert, claim, acknowledge, fail | at least once, given up after eight attempts, settled once | `Outbox` |
| Capture and loaded-document verification (`*-verification-*.ts`) | verification jobs, leases, receipts | admit, claim, heartbeat, verify, record, cancel superseded | queue and lease limits, one receipt per subject, nothing recorded for an old configuration | `VerificationReceipts`, `VerificationJobs` |
| Environment (`packages/environment`) | deployment inbox, serving checkpoints, repair tasks | drain, record, reconcile, confirm | a ticket confirms only the state it was issued for; required repairs are made | `EnvironmentServing` |
| OpenAPI publication (`packages/openapi`) | current publication pointers | prepare, publish, read | no document of a stale pin is shown; publications never go back | `Publications` |
| Query (`packages/query`) | none | read a contract, search all services | readers agree; an answer says no more than was searched | `Publications`, `CorpusSearch` |
| Catalog (`packages/catalog`) | snapshots, branch pointers, scopes and grants | ingest, promote, both with a job, read | snapshots are immutable, the pointer is in order | `Catalog` |
| Update planner (`packages/updates`, `orchestration/src/execution.ts`) | none, but reads the branch twice | plan, execute, compare | a change reaches every endpoint it touches; what is stored is the target's; no breaking change is called harmless | `UpdatePlanning`, `UpdateExecution`, `ContractDifferences` |
| Observations (`packages/observations`) | imports, policies, field presence, tombstones | import, approve, store, clean up, delete, read | what was deleted stays deleted, budgets hold, reads are of the served contract | `FieldPresence` |
| Semantics (`packages/semantics`) | history of answers, reviews, a cache of vectors | infer, discover, retrieve, review | an answer cites only what its caller may see of what is served | `SemanticInference`, `SemanticDiscovery` |
| Locking and transactions (`locking.ts`, `database.ts`, used by all of orchestration) | PostgreSQL's advisory locks, what a call has discovered | discover, lock in order, discover again, restart, commit, roll back | no two transactions wait for each other; none works without the locks of what it moves; every call ends | `AdvisoryLocks` |
| Status projections, `ir`, analyzers, connectors, apps | | | | not modelled, section 8 |

**Interaction.** Producers and the reconciliation timer call `ingestEvent`.
One transaction records the event, classifies it against the checkpoint of its
subject (`ordering.ts`) and stages jobs and job transitions, which
`persistScheduledJobs` writes. Hosts poll `claimJobs`; `runJob` analyses or
observes *outside* any transaction and comes back with a token to complete
the job. Completion moves the branch checkpoint and, through the catalog, the
published pointer. Deployment events pass the same ledger and are queued, by a
trigger, in the inbox of the environment package; publication, search and the
language model read what the catalog and the environment then say. Every
transaction that moves jobs takes the tenant's `configuration.tenant` advisory
lock before anything else, so that they are serialised per tenant; what
interleaves is everything that happens *between* them, and what they read
before the lock.

**Hard behaviours.** A lease that expires under a worker which is still at
work; a cancellation that meets a leased job; a batch that handles expired,
doomed and new leases together; a graph of dependents ended in the same
transaction; discovery reads made before the locks; observations and bases
read long before they are used; a provider, verifier or language model that
answers after the world has changed; a configuration activated, or changed
forth and back, in the middle of all that; table CHECKs that reject a whole
transaction. `PROJECT.json` lists them as hazards, each at its line, with the
property that covers it.

## 2. Modules

In every module an action is a whole transaction, named after the function it
models where there is one. What a caller may not do is no step. A definition
`Bug...` stands before the one it is a faulty variant of; no action uses it,
`PROJECT.json` pairs it with the property that notices when it takes the
other's place.

### Orchestration

* **JobLifecycle** is the abstract specification: `reduceJobState` of
  `state.ts` over a set of jobs, any number of which may move in one
  transaction. The reducer is exported as the contract of a job, but the
  statements of the worker and the scheduler write the column on their own.
* **JobQueue** is the queue of one tenant. `row[j]` is the row of
  `orchestration_jobs` (state, attempt_count, cancellation_requested,
  superseding_job_id, safe_last_error_code, and two countdowns for
  lease_expires_at and available_at); `held` the tokens in workers' memory;
  `active` and `policy` the two configuration rows. `ScheduleJobs`,
  `CloseSubject` and `ActivateConfiguration` are `persistScheduledJobs` after
  the three kinds of event; `completeJob` is both `completion` and
  `finishReconciliation`, `loseLease` is a crash, `Tick` is time.
  `WithDependents` is `planTerminalDependents` and part of every action that
  ends a job. `claimJobs` chooses any part of what could be claimed, because
  `jobDiscovery` reads at most 128 rows before the locks. Which job is
  scheduled when is left to the environment within `Schedulable`; the
  checkpoints that decide it are the matter of the next modules.
* **Checkpoints** holds what branch and pull request checkpoints share: the
  order of evidence (`ordering.ts`) and how a pointed-at job is stopped.
* **BranchTracking** follows one configured branch. `provider` is the true
  history of the branch; evidence names one of its states and may carry its
  sequence. `branch` and `scanning` are the two checkpoint rows, `analysis[g]`
  and `scan[g]` the jobs by generation, `linked` the immutable associations of
  revisions with snapshots, `pointer` the catalog's pointer. Events may be
  lost, late or reordered; `Observe` and `CompleteScan`, `PrepareAnalysis` and
  `CompleteAnalysis` are separate because the code reads in one transaction
  and writes in a later one. The queue is reduced to what a job's subject can
  see of it: an attempt may end or be the last at any time.
* **PullRequests** follows one pull request in the same way: `pr` is its row
  with the job it points at and `reconciliation_request`, `preview` and `scan`
  the jobs. Whether events and observers carry sequences is fixed per
  behaviour. The baseline a preview waits for is JobQueue's.
* **EventLedger** is the ledger of a tenant: `registered`, `inForce`, the
  `activations` so far, `events` with what became of each service, the
  versions administrators have read. It extends **Outbox**, the table of
  notices with its consumers: claims under leases, late answers, consumers
  that die with what they hold; `DeliveredLedgerSpec` has both at work. What
  an accepted event does to branches and pull requests is any disposition here.
* **VerificationJobs** has both verification queues with the runner's sessions
  (`bindCapture`, the verifier's answer, `appendCapture`/`appendLoad`,
  `recordFailure`), maintenance and configuration epochs. It implements
  **VerificationReceipts**: one receipt per subject for ever, a loaded
  document's only on its capture's receipt at the same root.

* **AdvisoryLocks** is below all of these: how a transaction comes to its
  locks. A client of the pool makes a call, finds its roots, walks the
  dependencies page by page (`Walk`), takes the locks of what it saw in the
  canonical order (`Acquire`), walks again and works, or restarts with what was
  missing, four times in all (`Restart`). `dependencies` is what others may
  add meanwhile; `Operations` describes the calls by what locks and roots they
  begin with, as `claimJobs`, `ingestEvent` and the others do.

### Contracts

* **UpdatePlanning** is `planUpdate`: one action is one dependency of one pass
  over the base snapshot's dependencies, then the plan. `Reached`, the
  properties' reference, is the least closed set instead.
* **UpdateExecution** is the execution of one leased job: the base read in two
  transactions (`ReadBranch`, `baseForBranch`) or from the association
  (`baseForPreview`), the resolver, the plan, the analyzer, the snapshot that
  would be stored. Resolver and analyzer are external and may answer about
  anything they say they read; the branch may be promoted and the lease lost
  between any two steps.
* **ContractDifferences** is `compareContractSnapshots` and the validator of
  `schema.ts` as operators over sets of facts, with `Demanded` and `Offered`
  (what a client may be asked, what it may send) as the reference. The lists of
  conditions that the code sorts, cancels and pairs by position are sets of
  places here: the n-th of the i-th condition, nothing standing for none.
* **Catalog** has transactions of several writers (`Begin...` takes locks and
  reads, `Commit...` writes, `Rollback` may come between), scopes and grants
  that change, and readers.
* **EnvironmentServing** is the environment package with its two drains: inbox
  rows, serving checkpoint, repair task and ticket; a process may die between
  any two transactions, a lease be lost at any time. **Publications** extends
  it with preparation, publication and reading of documents, and with the
  query reader, three implementations of one judgement.
* **FieldPresence** is the import of observed metadata, the owner's policies,
  the two transactions of a result, expiry, deletion and both reads, under a
  clock, configurations that come back and served versions that change.
* **CorpusSearch** is one search through all services: an action is a service,
  a cut or the deadline. **SemanticInference** is a call of a language model
  between two authorizations, the history and its reviews;
  **SemanticDiscovery** extends it with the two answers that are put together
  from many transactions.

### Instances and proofs

`MCJobQueue`, `MCBranchTracking`, `MCVerificationJobs` and `MCPublications`
instantiate one module each. `MCServices` and `MCLiveness` put several parts
that share no state into one run: `focus` says which of them a behaviour is
about, the others stay as they start, so that the states are the sum of the
parts' and not their product.

| Proofs | about |
|---|---|
| `JobQueueProofs` | JobQueue, and that it implements JobLifecycle |
| `BranchTrackingProofs` | BranchTracking |
| `PullRequestsProofs` | PullRequests |
| `VerificationProofs` | VerificationJobs, and that it implements VerificationReceipts |
| `StoreProofs` | Catalog, EventLedger with Outbox, AdvisoryLocks |
| `PublicationsProofs` | EnvironmentServing, Publications |
| `UpdateProofs` | UpdatePlanning, UpdateExecution, ContractDifferences |
| `AnswerProofs` | FieldPresence, CorpusSearch, SemanticInference, SemanticDiscovery |

## 3. Runs

| Run | Instance | Shows |
|---|---|---|
| `previews` | baseline, two previews of one pull request that wait for it, a reconciliation of a second configuration; 2 attempts, lease of 2 ticks | the table's constraints, dependencies, supersession, one wanted job for a subject, late answers, and that the queue implements JobLifecycle |
| `capacity` | four jobs, three services, two repositories, three policies; 1 attempt | limits of tenant, repository and service |
| `branch_mixed` | 2 revisions, 3 configurations (one without the branch), ordered and unordered evidence, 2 changes, 2 analyses, 2 reconciliations | checkpoint, job, association and pointer agree; evidence is true |
| `branch_ordered` | ordered evidence, 2 changes, 4 analyses, 2 reconciliations, fairness | no accepted update is undone; the checkpoint catches up |
| `verification` | a capture and a document loaded into it, 2 epochs with different roots, 2 sessions, 2 attempts, fairness | limits, receipts and cancellation; no claim is blocked; jobs settle; VerificationReceipts is implemented |
| `environment` | 2 artifacts, 2 revisions, one rollout, 2 drains, 2 attempts; behaviours of `SomeBounds`, publication of the environment, a branch or a revision | records agree, evidence is not ignored or undone, requests survive, readers agree, publications move forward |
| `services` | the parts of `MCServices`, see below | plans, executions, differences, pull requests, field presence, search and inference, catalog and ledger |
| `liveness` | a baseline and two previews; one environment with a failing drain; two notices and two consumers; two clients over two tenants, one of which schedules a dependent; fairness | cancellation takes effect; every job ends; what is to be reconciled is observed; notices are settled; no transactions wait for each other, none works without its locks, every call ends |
| `outstanding`, `branch_activation`, `branch_promotion`, `branch_reuse` | smallest instances | the four disagreements of section 6 |

Some properties are conjunctions of named parts, which are proved and fail
separately:

| Property | is |
|---|---|
| `RowsAreSound` | `TypeOK`, `RowConstraints` (the CHECKs of migration 0001) |
| `DependenciesHold` | `RunsOnlyAfterPrerequisites`, `NoStrandedDependent` |
| `OnlyKnownWorkIsWanted` | `OneWantedJobPerSubject`, `WantedWorkIsConfigured` |
| `CheckpointAgrees` | `CheckpointFollowsJob`, `PointerAgreesWithCheckpoint` |
| `ReadersAreServed` | `ReadIsServing`, `ReadersAgree` |
| `NothingIsUndone` | `NoServingUndone`, `PublicationsMoveForward` |
| `PlanIsFaithful` | `IndexIsClosure`, `PlanCoversChange` (over chains, cycles and shared evidence of three endpoints) |
| `DifferencesAreSound` | `DifferencesTellTheTruth`, `NonBreakingIsSafe` |
| `PullRequestIsFollowed` | `UpdateRemembered`, `OnlyWantedWorkRuns` |
| `PresenceIsSound` | deleted results stay deleted, budgets hold, reads are true |
| `AnswersAreGrounded` | `HistoryIsGrounded`, `ReviewsAreAChain`, `DiscoveryIsConsistent`, `RetrievalIsSound` |

`services` is the largest run (about 1.4 million states, two minutes).

**Bounds.** Two attempts are enough for a first claim, a retry and the last
attempt; a lease of two ticks distinguishes renewed, running out and expired;
two previews on one baseline give a shared prerequisite, a supersession and
both kinds of dependents; the second configuration has a job of its own so
that activation both cancels and schedules. The capacity instance needs no
retries, only scopes that nest and a policy that shrinks below what is
leased. One branch, two changes and two analyses give a late event, an older
observation, a superseded and a current analysis; four analyses in the ordered
run leave room for every change to be scheduled again by a reconciliation. A
capture with one document has every relation the verification tables check;
two sessions race for one job, a batch of one makes maintenance come back.
One rollout of the environment is a change under an observation; `SomeBounds`
selects per behaviour which events race, as all of them together are out of
reach. Snapshots to plan from have three endpoints because a dependency chain
listed backwards needs a second pass; the differences come in families that
vary one kind of fact, since the code compares kinds separately, and claims,
at most two on a side, are counted under two conditions and without one. Three services
to search exceed each limit; the catalog's two writers and two versions make
every pair of transactions meet that the locks let meet (`CatalogRoles`: beside
an ingestion there can only be a promotion); under a discovery or a retrieval
one of two services changes, and only the seeker's own grants (`SeekersWorld`),
as others do not concern him. A pull request starts under one configuration,
the others being alike. Four activations hold a change forth and back
with an administrator between. Two clients over three jobs of two tenants are
enough for the locks: one call claims over both tenants, the other adds the
dependent the first did not see.

The source has `max_attempts` 5 (jobs) and 8 (outbox, inbox), leases of 30 s
and no bound on generations; the actions do not depend on the values, and the
proofs hold for all. Constants named `Max...` and the sets `Bounds` are the
only bounds that guard actions. Revisions are interchangeable, hence the
symmetry of `branch_mixed`, and so are the drains of `environment`; neither
run has a liveness property.

**Deadlock** is checked where the system cannot stop (`previews` and
`capacity`: an operator can always change the policy or the configuration) and
not elsewhere, where every job may have ended, an answer been given or the
bounds be used up, with nothing left to do.

**Fairness.** `JobQueue!FairSpec`: time passes (WF), and a job that a claim
could move again and again is moved (SF), because hosts poll `claimJobs` and
its order is by available_at, so that no job is overtaken for ever. Nothing is
assumed of a worker: it may hang or renew its lease for ever. `EveryJobEnds`
therefore states its own premise, that workers answer.
`BranchTracking!FairSpec`: producers redeliver an event until it is accepted
(SF for each event: a table CHECK may reject it while a job carries an error
code) and hosts claim waiting work (WF). `VerificationJobs!FairSpec`: runners
poll (SF for each job, whose place may be taken again and again), sessions
proceed and expired leases are found so (WF), maintenance runs (WF).
`EnvironmentServing!Fairness`: drains are called again and again (SF, as a
claim may fail), sessions proceed (WF); in `MCLiveness` these are conditioned
on the part in focus, since fairness of an idle part would be vacuous or false.
`AdvisoryLocks!LockingFairness`: the event loop goes on with what a query
answered (WF), and who waits for an advisory lock gets it when it is free again
and again (SF), because PostgreSQL queues those who wait.
`Outbox!OutboxFairness`: some host keeps claiming and time passes (WF for each
notice); no consumer need ever answer.

## 4. Proofs

Every safety property of every passing run is proved for every value of the
constants that meets the named assumptions of its module. Each proof has the same shape: an inductive
invariant, a lemma per action that it is kept, and theorems that follow from
it. Below is what the invariants add to the properties, which is where the
reason lies that the code is right.

### JobQueue

For any jobs, dependency graph, policies and limits that meet three assumptions:

* `Invariant` (`Spec => []Inv`), and from it `RowsSound` (`RowsAreSound`),
  `DependenciesKept` (`DependenciesHold`) and `StoppedStaysStopped`
  (`StoppedWorkStaysStopped`);
* `WantedIsKnown` (`OnlyKnownWorkIsWanted`), `ImplementsLifecycle`
  (`FollowsLifecycle`), `LateAnswersIgnored` (`LateAnswersChangeNothing`) and
  `LimitsHold` (`CapacityRespected`).

The assumptions are `ScopeAssumption` (the maps of jobs to services,
repositories and configurations, and that a tenant has finitely many jobs),
`DependencyAssumption` (a job does not wait for itself, and prerequisites are
baselines, which no event supersedes or closes) and `LimitAssumption` (positive
limits).

`Inv` is `TypeOK`, a condition on each row by itself (`GoodRow`),
`RunsOnlyAfterPrerequisites` and `NoStrandedDependent`. The strengthening is in
`GoodRow`: a waiting job has attempts left (else `WriteClaim` would leave the
type), a leased one has used one, an absent row is blank (else an insertion
would revive flags of a past life), and flags on a waiting row are impossible
(else a retry would put stopped work back). The two dependency invariants need
each other: that a job with a failed prerequisite has ended is kept because the
walk of `WithDependents` is closed under failure (`WalkIsClosed`), and it can
put every dependent to an end because a dependent of an unfinished job has
never been leased. Each transaction is shown to be a *plan*, in which every row
makes one of the permitted steps, followed by the walk; `StepKeepsRows` and
`StepKeepsDependents` carry the invariant over any plan, and each action has a
lemma that it is one. The least fixed point of the walk is expressed as an
intersection over sets, not as a recursion, so that it can be reasoned about.

The other theorems use `Inv` and follow each action in the same way, first
through the rows the transaction plans, then through the walk:

* *Wanted work.* No transaction that inserts nothing makes a job wanted
  (`WantsOnly`): a claim or a retry moves a job that was wanted, because one
  that is flagged is ended instead. What `persistScheduledJobs` inserts
  replaces all that was wanted for the same subjects (`ScheduledJobsWanted`);
  an activation leaves nothing wanted but what it inserts.
* *Refinement.* `Moves` lists the moves the reducer allows of one row, and
  `MovesAreReductions` shows that each is one; then every write is one of them.
  `Inv` is needed twice: a claim never fails a waiting job for its spent
  attempts (it has some left), and a leased job never fails for a dependency
  (its prerequisites are done), both of which the reducer would refuse.
* *Late answers.* Only `failJob` and `completeJob` give up a token and change
  its row, and they check it under the lock.
* *Capacity.* A transaction but a claim makes no lease live; what a claim adds
  to a scope was counted against its limit together with all that was live.

### BranchTracking

`BranchTrackingProofs` proves, for any revisions, configurations, orders of
evidence and bounds that meet `BranchAssumption` (the marks "absent" and "none"
are no revision and no configuration): `BranchInvariant` (`Spec => []BInv`),
and from it `TypeCorrect` (`TypeOK`), `CheckpointsAgree` (`CheckpointAgrees`),
`NothingObsoleteRuns` (`OnlyCurrentWorkRuns`) and `TrueEvidence`
(`EvidenceIsTrue`). `NothingUndone` (`NoUpdateIsUndone`) has a premise,
`Ordered`: events and observations carry a sequence, and every configuration
lists the branch. Without the first an observation that cannot be compared is
taken all the same, without the second an event is dropped.

`BInv` is three invariants that few actions move together: `WorldInv` of the
provider, `ScanInv` of the reconciliation checkpoint and its scans, `BranchInv`
of the branch checkpoint, its analyses and the pointer. What the run's
invariants lack to be inductive:

* the evidence of a checkpoint, of the pointer and of an observing scan names a
  state the provider has been in (else the provider's next change could belie
  it);
* a checkpoint's job was once inserted, and every inserted analysis is pinned
  to a revision and a configuration (else a completion could publish no
  snapshot);
* the base a worker read is a snapshot that was once promoted (else a reuse
  could publish none);
* the pointer's version is below the generation while the checkpoint's analysis
  is unfinished: each generation promotes at most once, which is what keeps the
  version in its range.

Most actions write one job and the checkpoint that names it; `AnalysisWrite`
and `ScanWrite` carry the invariant over any such write, and each action has a
lemma that it is one. `ScheduleBranchStep` is shared by events and
reconciliations. `NothingUndone` adds that evidence in the checkpoint is
ordered, and rests on one fact about `classifyProviderUpdate`: evidence that is
not stale moves the checkpoint forward (`MovesForward`).

### PullRequests

`PullRequestInvariant` (`PullSpec => []PullInv`), `PullRequestFollowed`
(`PullRequestIsFollowed`) and `PullRequestOnlyForward`
(`PullRequestMovesForward`), for any heads, configurations and bounds under
`HeadsAreRevisions`: the states "none" and "pending" of a row without an update
are no heads. What the property lacks to be inductive is why a request may be
dropped. `NoRequestWhenOrdered`: when events carry sequences nobody ever asks
the provider, so that an ordered event, which clears the request, clears none.
`ObservationCovers`: all that was accepted until now is no newer than what a
reconciliation at work has observed, because an event that is newer, or cannot
be compared, supersedes it; so its completion answers every request. The first
holds because `orders` is fixed per behaviour; a mixture is where the code
clears a request too early (section 6).

### Catalog, ledger, outbox and locks

* Catalog: `CatalogInvariant` and `Honest` (`CatalogIsHonest`), for any
  writers, readers, scopes, rows and promotions that meet five named
  assumptions about those constants (rows have scopes, promotions name known
  snapshots with orders and versions that are numbers, the marks "nobody" and
  "unconditional" are no writer and no version). The strengthening is
  `WritersHold`: a writer that promotes holds the branch's lock, and the
  pointer it read is therefore still the pointer when it commits. A promotion
  that was judged by the pointer it replaces extends the history
  (`PromotionExtends`); that stored rows are never replaced carries over what
  promotions, writers and readers were told (`RowsKept`).
* Ledger: `LedgerInvariant` and `LedgerKept` (`LedgerIsKept`), for
  any registrations, events and administrators, under `EventsAreWhole` (an
  event has a provider and touches some service) and `OrdersAreNumbers`. What
  the property lacks to be inductive is that a fingerprint that was activated is
  registered (else its services could still change) and that an event that
  activated is stored (else it could activate again); `ScheduledIsNewer` is the
  fact about `classifyProviderUpdate` it rests on, `HistoryExtends` carries it
  over any activation. Of the outbox, `DeliveriesHold` (`DeliveriesAreTrue`)
  and `SettledForGood`, together the safety half of `NoticesAreSettled`. The
  strengthening is that a waiting row has deliveries left, which `Retried` sees
  to and `Handed` relies on, and that every lease is of a notice that exists.
  `DeliveredLedgerKept` puts both together: transactions of the ledger
  interleaved with consumers of its notices keep the ledger, the deliveries
  and what is settled. A ledger step only queues, which keeps the rows that
  are there (`QueuedKeeps`); consumers add no notice and take none away
  (`DeliverAddsNothing`).
* Locks: `LockingInvariant`, `NoDeadlock` (`NoWaitCycle`) and
  `WorkIsUnderItsLocks` (`ActsUnderItsLocks`), for any clients, jobs and calls
  under `OperationsAreCalls` (what adds dependencies does so within a tenant
  whose configuration lock it starts out with) and `IdentitiesAreOrdered` (the
  canonical order is one). `LockingInv` says that a lock has one holder and
  that a client waits only for locks after all it holds (`Upward`; a restart
  lets go of everything first, else it would fail). Of the locks a set of
  clients hold and wait for take the last: its holder waits for none of them
  (`NoDeadlock`). For the second theorem the invariant has the second walk: what
  it went past has no dependent it has not seen (`WalkHolds`), which stays true
  because only who holds the tenant's configuration lock may add one, and that
  is held by the walker (`TenantsHeld`).

### Environment and publications

`ServingInvariant` (`Spec => []ServingInv`) with `RecordsHold`
(`RecordsAgree`), `EvidenceHolds` (`EvidenceNotIgnored`), `RequestHolds`
(`RequestSurvives`); `PublicationsInvariant`, `ReadersServed`
(`ReadersAreServed`) and `NothingGoesBack` (`NothingIsUndone`), under
`EventAssumption` and `PublicationAssumption`: finitely many artifacts serve at
a time, marks are no values. The first group is proved of EnvironmentServing,
and holds under Publications because publishing leaves the environment alone
(`PublishingServes`).

The strengthening ties what each drain remembers to the tables: what it is
about to deliver is on record, what it was told is of a state the provider has
been in. The core is `Unbeaten`: a session that answers under a ticket whose
checkpoint version is still current has an observation as new as any that was
recorded, since it observed after it took the ticket and each recording that
moves the checkpoint changes the version. `EvidenceInv` says the same of the
checkpoint where its orders decide; where they are opaque or of two
authorities it says it only while nothing waits to be reconciled.
`PreparedFor` says of every document ever prepared by which pin: a branch's
was the pointer's at that version, an environment's no newer than what is
served now. That the SQL judgement, the view and the query reader agree
(`ReadersHold`) is shown by reducing each to one judgement of the same state
(`PinIsJudgement`, `ViewIsJudgement`, `ReaderIsJudgement`).

### Planning, execution and comparison

`PlanningInvariant`, `PlanFaithful` (`PlanIsFaithful`), `ExecutionInvariant`
and `ExecutionFaithful` (`ExecutionIsFaithful`), for any snapshots that are
graphs. While the index is being closed it holds nothing that is not rested on
(`IndexIsSound`), everything read off an endpoint (`IndexIsRooted`), and, in a
pass that has not grown, all that the dependencies so far ask for
(`PassIsSatisfied`); at the end of such a pass it is therefore closed, and the
least closed set is below it. This is a loop's invariant and needs no
induction over the graph, nor that passes are few.

`ExecutionInv` says that an answer of the resolver was accepted only for the
job's own target (`Resolved`), and that what changed since an incremental base
is what the resolver named. A base is the service's own by
`AssociationsAreHonest`, since both of its readers select by the job's service.

`ContractDifferencesAreSound` (`DifferencesAreSound`) is about any two
snapshots, any claims and any conditions. It assumes what the schema of a
snapshot sees to (`SnapshotsAreWellFormed`: a fact of an endpoint is of one the
snapshot has, identities are of its version, claims are finitely many) and that
the canonical order lists each condition once (`ConditionsAreCanonical`); no
bound is left. The comparison is one step, so the invariant only says that the
answer is the one the snapshots have (`DifferencesInv`); what it takes is an
argument about that answer:

* Every difference comes from the one group its fact, subject and key name
  (`DraftOrigin`), and a group has no two of one change. So differences do not
  collide (`DraftsAreSingle`), nothing is removed that may be hidden
  (`DraftsAreConfirmed`), and the validator refuses an endpoint of a later
  identity version only (`DraftsAreSemantic`, `DraftsAreValid`).
* A fact of one side only is in the drafts of its own group, and no other
  group's draft holds it (`GroupTold`, `DraftFacts`): applying the drafts gives
  the target's facts (`FactsApplied`).
* Claims are a matter of counting. What a condition has too many of on one side
  has places there and none on the other (`PlacesAt`), so that no condition is
  ever paired with itself (`ChangedDiffers`). Among places the first n are some
  if asked for some and none if asked for none (`SomeFirst`, `NoneFirst`, from
  the least element of a finite set of numbers); hence an unconditional
  member is left alone or has a condition in its stead (`PairedAt`). When
  nothing is stated twice the places are exactly the members of one side only
  (`DistinctPlaces`), which gives the target's claims (`ClaimsTold`).
* In an answer without a breaking difference every group of an endpoint is
  equal, or grew by what is optional, or was relaxed without a change of form
  (`HarmlessMembers`); nothing may be paired, since paired conditions are never
  harmless, and a claim left alone may be so only as the single one of its
  owner that is now optional (`HarmlessLeaves`), so no demand is new
  (`HarmlessClaims`).

### Verification

`VerificationProofs` proves, for any captures, loads, documents, digests,
sessions and limits that meet `SubjectAssumption` (captures are no loads; the
maps of loads to captures and of captures to their scope; NULL is no value),
`ConfigurationAssumption` and `LimitAssumption` (positive limits, finitely many
captures and loads): `VerificationInvariant` (`Spec => []Inv`), `SuccessHolds`
(`SuccessHasItsReceipt`), `ClaimsGoOn` (`ClaimIsNeverBlocked`), `LimitsHold`
(`WithinLimits`), `SupersededGivenUp` (`SupersededOnlyCancelled`) and
`ReceiptsImplemented` (`ImplementsReceipts`). `Inv` adds to `TypeOK` and the
receipts of successes what a job's transactions rely on without reading it
again:

* `AdmittedRest`: the association, the root and, for a load, the receipt of the
  capture that admission saw are still there (a claim throws without them, and
  a load's receipt rests on its capture's); they are, because associations and
  receipts are only added and a job's root is that of its own document;
* `AttemptsLeft`: a waiting job has an attempt left, because `Failure` retries
  only below the limit and compares the session's attempt, which the lease it
  holds makes the row's (`OwnLease`);
* `SessionsHold`: a session under way has a job, and a digest once verified.

Every step is shown to be a set of row moves out of eight (`Moves`) and at most
one new receipt (`ReceiptsMove`); all theorems follow from that. A step leases
one job at most and admits one at most, each for what room it counted
(`Admissible`), which bounds the sets the limits count (`CountStays`).

### Field presence, search and semantics

* `PresenceInvariant` and `PresenceSound` (`PresenceIsSound`): a call between
  its two transactions names a policy and an import that are there, and these
  are only added to (`Extended`), so that a row is grounded when it is written
  under the lock and for good. Rows are finitely many, and a row's number is
  below the count of rows and tombstones together, because whoever deletes
  leaves a tombstone: that gives every new row a number of its own.
* `SearchInvariant` and `SearchHonest` (`SearchIsHonest`): as long as no limit
  stopped the scan, every service the caller may see has been searched or is
  still queued, and what was searched left its best matches among the
  candidates or a mark that something was cut (`Searched`). The answer takes
  the best of those, which are the best of all, because what is among the best
  of all is among the best of its own service (`BestOfBests`, from counting who
  is ahead). `CorporaAreScored` says that scores are numbers.
* `SemanticInvariant` (`SemanticInv`), `RetrievalInvariant` (`RetrievalInv`)
  and `AnswersGrounded` (`AnswersAreGrounded`): a call under way asks about
  endpoints of the contract it was pinned to, which is compared again before
  the answer is recorded; a discovery has every group of its shortlist left,
  waited for or answered once, and what it was told is in the history
  (`DiscoveryHolds`); a retrieval has a vector for each text it read, and puts
  a vector into the cache only when it is not there and the cache was not
  cleared since (`RetrievalHolds`), so that a key is cached once.
  `DiscoveryAssumption`: services and endpoints are finitely many.

## 5. What is only model-checked

* Liveness: `CancellationTakesEffect`, `EveryJobEnds`, `CheckpointCatchesUp`,
  `AdmittedJobsSettle`, `RequiredIsObserved`, `EveryCallEnds` and the second
  half of `NoticesAreSettled`. Fairness and ENABLED are beyond the proof
  system's backends. What these rest on is proved: the invariants, that
  settled stays settled, and that no transactions wait for each other.
* The violations of section 6, which are behaviours.

## 6. Where the code and its documents disagree

1. *A job waiting for a retry cannot be stopped.* `failJob` leaves an error
   code on the waiting row; `persistSupersede`, `persistCancel` and `cancelJob`
   do not clear it, and migration 0001 line 199 admits it only in `retry_wait`
   and `failed`. The event that wanted to stop the job is rolled back
   (`outstanding`). The models keep this: `CodeCheckPasses`, `Movable`.
2. *A failed reconciliation blocks a configuration that drops the branch*
   (`branch_activation`): `obsolete` beside an error code violates migration
   0001 lines 345-346.
3. *A reanalysis forced by a configuration change is never published while the
   branch does not move* (`branch_promotion`): the catalog refuses the same
   sequence with another snapshot.
4. *Going back to a published revision cannot reuse its snapshot*
   (`branch_reuse`): the association was stored as `analyzed`.

In 3 and 4 the model has the refusal as a guard, so that the attempt ends as
any failed attempt does and the other properties hold all the same.

Met while modelling, kept as the code does it, without a run of their own:

* *Environment.* The package's README says an explicit request is "cleared only
  after a complete exact provider confirmation", but
  `confirmServingReconciliation` (`repository.ts:396`) clears
  `explicit_reconciliation_requested` on an incomplete answer too
  (reconciliation itself stays required, which is what `RequestSurvives` says).
  A provider that answers with an event identity already on record is
  "superseded" each time. An exhausted task is not tried again while the
  version stays (`reconciliation-worker.ts:118`).
* *Ledger.* Activation notices are deduplicated by kind, fingerprint,
  repository and service, without the version (`repository.ts:327`): f, g, f
  queues none the second time; so are a job's repeated `retry_wait` notices. A
  configuration event that names the active configuration always ends in
  `EVENT_SUBJECT_MISMATCH`, because its impact is empty and its services may
  not be; `exact_replay` cannot be reached. An administrator's activation does
  not compare orders, so that ordering starts again from his evidence.
* *Catalog.* A snapshot's identifier is the analyzer's, its identity digest
  includes the configuration and the revision: a reanalysis that comes to the
  same identifier under another configuration is a conflict on every attempt.
* *Pull requests.* An open pull request whose preview a configuration change
  cancelled gets no new one until its head moves. With evidence ordered in one
  event and not in the next, a later ordered event clears the request an
  unordered one made (`scheduler.ts:735`). A pull request reopened without a
  sequence cannot be reconciled.
* *Differences.* Two snapshots of one future identity version with endpoints on
  one side only are refused by the comparison's own validator. Reason ranks are
  compared as unpadded strings, which is right for ten reasons, as many as
  there are (`schema.ts:515`).
* *Planner.* The ownership index does not read `endpoint.security`,
  `body.encoding` or the evidence of security schemes and diagnostics
  (`planner.ts:158`).
* *Field presence.* A record identifier that occurs twice makes the whole read
  fail until it expires. `samePin` compares the fingerprint of the
  configuration, not its activation. The window of an import may end in the
  future.
* *Semantics.* The kernel accepts a summary of 600 characters, discovery across
  services only 300: one valid longer summary makes the whole answer
  unavailable.

## 7. Abstractions

* A transaction is atomic; only in `Catalog`, whose locks are rows and one
  advisory lock, does it take two steps, and in `AdvisoryLocks` as many as it
  takes locks. That a transaction works under the locks of all it moves, which
  is why it may be atomic elsewhere, is `ActsUnderItsLocks`; the two are not
  composed. Reads before the lock are modelled by
  choosing what they return.
* Identities, hashes, documents and authorisation are left out where no
  property tells them apart; a snapshot is a revision under a configuration,
  evidence is the number of a provider state. Evidence tells the truth, so that
  two payloads under one sequence (`EVENT_ORDER_CONFLICT`) do not occur in the
  tracking modules; in `EventLedger` they do.
* There is a clock only where durations are compared (`JobQueue`,
  `FieldPresence`); elsewhere a lease is live or not, and may expire at any
  time.
* Notices are queued in `EventLedger` only: those of job transitions are the
  arbitrary `JobNotices` of `Outbox`. A notice's payload is its identity.
* `calculateConfigurationImpact` is taken at its widest in the tracking
  modules; `EventLedger` has it over sets of services.
* In BranchTracking `max_attempts` is not counted, and the queue's clock is
  left out. A refinement from JobQueue to it is not claimed.
* Publication leaves grants out, and revisions reused from another snapshot.
  Search counts bytes and endpoints as one size. Semantics is modelled for
  selections of an environment, not of a branch.

## 8. Not modelled

* *Locks below the advisory ones.* Rows are locked with FOR UPDATE and FOR
  SHARE under the tenant's configuration lock, in statements whose order is a
  matter of reviewing SQL; two identities that hash to one lock would only wait
  longer or, in an unlucky order, be aborted by PostgreSQL.
* *Evidence without a sequence.* That an incomparable observation is applied
  though the checkpoint may be newer (`reconciliation.ts:291`), that a second
  unordered event is coalesced onto a scan already under way
  (`scheduler.ts:609`) and that an analysis under way takes over unordered
  evidence (`execution.ts:491`) are in `BranchTracking` as behaviours; no
  property excludes them, because nothing in the code does.
* *Status, metrics, migrations, error types*: read-only projections.
* *Reading on demand, the matcher and the maintenance timer* of observations;
  *service lists and verification records* of the query package.
* *Intermediate representation and analyzers*: pure functions from text to
  documents. What they promise would be a semantics of TypeScript, Java and
  OpenAPI. *Connectors* and *applications* (portal, MCP server) are the
  environment of the models: adapters and rendering.
