---------------------------- MODULE AdvisoryLocks ----------------------------
(***************************************************************************)
(* How the transactions of packages/orchestration take PostgreSQL's        *)
(* advisory locks (locking.ts, database.ts).  A call finds out, before it  *)
(* holds anything, which jobs it will touch: its roots and, page by page,  *)
(* all that depend on them.  It takes the locks of those jobs in one       *)
(* canonical order, walks the dependencies again, and starts over, at most *)
(* MaxTries times, when a job it now finds asks for a lock it lacks.       *)
(*                                                                         *)
(* PostgreSQL: reads see what is committed; an advisory lock has one       *)
(* holder, is waited for, and goes with the transaction.  Two identities   *)
(* are taken never to hash to the same lock.  Row locks, which are taken   *)
(* under the tenant's configuration lock, are left out.                    *)
(***************************************************************************)
EXTENDS Integers, Sequences

CONSTANTS
  Clients,      \* connections of the pool; each serves one call at a time
  JobRows,      \* rows orchestration_jobs may hold, with what their locks name
  Operations,   \* the calls, as their transactions see the locks
  Null,         \* SQL's NULL
  Places,       \* how many lock identities there are
  Place         \* Place[l]: where the bytes of l's identity sort

VARIABLES
  phase,        \* phase[t]: where client t's call is
  call,         \* call[t]: the operation at work
  tries,        \* tries[t]: attempt of withRestartingOrchestrationTransaction
  carried,      \* carried[t]: `locks`, what an attempt starts out with
  roots,        \* roots[t]: the jobs the call is about
  seen,         \* seen[t], frontier[t]: of discoverTransitionClosure
  frontier,
  wanted,       \* wanted[t]: what acquireAdvisoryLocks still has to take
  acquired,         \* acquired[t]: the advisory locks of t's transaction
  dependencies  \* orchestration_job_dependencies: <<prerequisite, dependent>>

lockingVars ==
  <<phase, call, tries, carried, roots, seen, frontier, wanted, acquired, dependencies>>

MaxTries == 4

-----------------------------------------------------------------------------
(* Locks and their canonical order.                                        *)
LOCK_NAMESPACES ==
  <<"configuration.tenant", "capacity.global", "capacity.repository", "capacity.service",
    "subject.branch", "subject.pr", "reconciliation.branch", "reconciliation.pr",
    "analysis.checkpoint", "catalog.branch">>

Lock(namespace, parts) == [namespace |-> namespace, parts |-> parts]
configurationLock(tenant) == Lock("configuration.tenant", <<tenant>>)
ServiceParts(row) == <<row.tenant, row.repository, row.service>>
SubjectLock(namespace, row, part) == Lock(namespace, Append(ServiceParts(row), part))

jobLocks(row) ==
  {configurationLock(row.tenant), Lock("capacity.global", <<row.tenant>>),
   Lock("capacity.repository", <<row.tenant, row.repository>>),
   Lock("capacity.service", ServiceParts(row))}

RowLocks(row) ==
  UNION {jobLocks(row),
    IF row.branch = Null THEN {} ELSE {SubjectLock("subject.branch", row, row.branch)},
    IF row.branch # Null /\ row.kind = "branch_reconciliation"
    THEN {SubjectLock("reconciliation.branch", row, row.branch)} ELSE {},
    IF row.pr = Null THEN {} ELSE {SubjectLock("subject.pr", row, row.pr)},
    IF row.pr # Null /\ row.kind = "pr_reconciliation"
    THEN {SubjectLock("reconciliation.pr", row, row.pr)} ELSE {},
    IF row.analysis = Null THEN {} ELSE {SubjectLock("analysis.checkpoint", row, row.analysis)}}

transitionAdvisoryLocks(jobs) == UNION {RowLocks(row) : row \in jobs}

Locks ==
  UNION {transitionAdvisoryLocks(JobRows), UNION {o.initial : o \in Operations},
         UNION {UNION o.schedules : o \in Operations}}

Rank(l) == CHOOSE i \in DOMAIN LOCK_NAMESPACES : LOCK_NAMESPACES[i] = l.namespace

Before(l, m) == \/ Rank(l) < Rank(m)
                \/ Rank(l) = Rank(m) /\ Place[l] < Place[m]

(***************************************************************************)
(* An operation: initial, the locks its first attempt starts out with;     *)
(* candidates, the sets of jobs the database may tell it to begin from;    *)
(* rereads, whether it asks for them again under its locks; schedules, the *)
(* sets of locks the active configuration may make it add (                *)
(* discoverSchedulingLocks, discoverConfigurationTransitionLocks); writes, *)
(* the dependencies it may add.  What writes, or rereads, belongs to one   *)
(* tenant and starts out with that tenant's configuration lock.            *)
(***************************************************************************)
IsCall(o) ==
  /\ o.initial \subseteq Locks /\ o.candidates \subseteq SUBSET JobRows /\ o.rereads \in BOOLEAN
  /\ o.schedules \subseteq SUBSET Locks /\ o.writes \subseteq JobRows \X JobRows
  /\ \A e \in o.writes : /\ e[1].tenant = e[2].tenant
                         /\ configurationLock(e[1].tenant) \in o.initial
  /\ o.rereads => \A R \in o.candidates : \A row \in R :
                    configurationLock(row.tenant) \in o.initial

ASSUME OperationsAreCalls == \A o \in Operations : IsCall(o)
ASSUME IdentitiesAreOrdered ==
  /\ Places \in Nat /\ Place \in [Locks -> 0..Places]
  /\ \A l \in Locks : \E i \in DOMAIN LOCK_NAMESPACES : LOCK_NAMESPACES[i] = l.namespace
  /\ \A l, m \in Locks : l.namespace = m.namespace /\ Place[l] = Place[m] => l = m

NoCall == [initial |-> {}, candidates |-> {}, rereads |-> FALSE, schedules |-> {}, writes |-> {}]

-----------------------------------------------------------------------------
(* A transaction that ends, by COMMIT or by ROLLBACK, lets go of its locks.*)
LetGo(t) == acquired' = [acquired EXCEPT ![t] = {}]
Over(t) ==
  /\ phase' = [phase EXCEPT ![t] = "idle"] /\ call' = [call EXCEPT ![t] = NoCall]
  /\ tries' = [tries EXCEPT ![t] = 0]      /\ carried' = [carried EXCEPT ![t] = {}]
  /\ roots' = [roots EXCEPT ![t] = {}]     /\ seen' = [seen EXCEPT ![t] = {}]
  /\ frontier' = [frontier EXCEPT ![t] = {}] /\ wanted' = [wanted EXCEPT ![t] = {}]

Call(t, o) ==
  /\ phase[t] = "idle"
  /\ phase' = [phase EXCEPT ![t] = "begin"] /\ call' = [call EXCEPT ![t] = o]
  /\ tries' = [tries EXCEPT ![t] = 1]       /\ carried' = [carried EXCEPT ![t] = o.initial]
  /\ UNCHANGED <<roots, seen, frontier, wanted, acquired, dependencies>>

(* The closure is walked from the roots, whatever they are now.            *)
WalkFrom(t, R) == /\ roots' = [roots EXCEPT ![t] = R]
                  /\ seen' = [seen EXCEPT ![t] = R]
                  /\ frontier' = [frontier EXCEPT ![t] = R]

Discover(t) ==
  /\ phase[t] = "begin"
  /\ \E R \in call[t].candidates : WalkFrom(t, R)
  /\ phase' = [phase EXCEPT ![t] = "discovering"]
  /\ UNCHANGED <<call, tries, carried, wanted, acquired, dependencies>>

(* One round of the loop: the dependents of the frontier, not seen yet.    *)
Dependents(jobs) == {row \in JobRows : \E job \in jobs : <<job, row>> \in dependencies}
Walk(t) ==
  /\ phase[t] \in {"discovering", "checking"} /\ frontier[t] # {}
  /\ frontier' = [frontier EXCEPT ![t] = Dependents(frontier[t]) \ seen[t]]
  /\ seen' = [seen EXCEPT ![t] = seen[t] \cup Dependents(frontier[t])]
  /\ UNCHANGED <<phase, call, tries, carried, roots, wanted, acquired, dependencies>>

StartAcquiring(t) ==
  /\ phase[t] = "discovering" /\ frontier[t] = {}
  /\ \E scheduling \in call[t].schedules :
       wanted' = [wanted EXCEPT ![t] =
                    carried[t] \cup scheduling \cup transitionAdvisoryLocks(seen[t])]
  /\ phase' = [phase EXCEPT ![t] = "acquiring"]
  /\ UNCHANGED <<call, tries, carried, roots, seen, frontier, acquired, dependencies>>

(* acquireAdvisoryLocks: the next of the canonical order, when it is free. *)
BugCarriedFirst(t, l) ==                  \* two calls of it, carried locks first
  LET batch == IF wanted[t] \cap carried[t] = {} THEN wanted[t] ELSE wanted[t] \cap carried[t]
  IN  l \in batch /\ \A m \in batch : m = l \/ Before(l, m)
NextWanted(t, l) ==
  /\ l \in wanted[t]
  /\ \A m \in wanted[t] : m = l \/ Before(l, m)
Acquire(t) ==
  /\ phase[t] = "acquiring"
  /\ \E l \in wanted[t] :
       /\ NextWanted(t, l)
       /\ \A u \in Clients \ {t} : l \notin acquired[u]
       /\ acquired' = [acquired EXCEPT ![t] = @ \cup {l}]
       /\ wanted' = [wanted EXCEPT ![t] = @ \ {l}]
  /\ UNCHANGED <<phase, call, tries, carried, roots, seen, frontier, dependencies>>

(* Under the locks the walk is made again; what reads its roots from the   *)
(* state of the jobs (discoverActiveTransitionJobs) may begin elsewhere.   *)
Rediscover(t) ==
  /\ phase[t] = "acquiring" /\ wanted[t] = {}
  /\ \E R \in IF call[t].rereads THEN call[t].candidates ELSE {roots[t]} : WalkFrom(t, R)
  /\ phase' = [phase EXCEPT ![t] = "checking"]
  /\ UNCHANGED <<call, tries, carried, wanted, acquired, dependencies>>

BugTrustDiscovery(t) == TRUE              \* the first walk is relied upon
requireDiscoveredLocks(t) == transitionAdvisoryLocks(seen[t]) \subseteq acquired[t]
Proceed(t) ==
  /\ phase[t] = "checking" /\ frontier[t] = {} /\ requireDiscoveredLocks(t)
  /\ phase' = [phase EXCEPT ![t] = "working"]
  /\ UNCHANGED <<call, tries, carried, roots, seen, frontier, wanted, acquired, dependencies>>

(* OrchestrationLockRestart: roll back and begin again with the locks that *)
(* were missing as well, or give up with a retryable error.                *)
Restart(t, missing) ==
  /\ LetGo(t)
  /\ IF tries[t] = MaxTries THEN Over(t)
     ELSE /\ phase' = [phase EXCEPT ![t] = "begin"]
          /\ tries' = [tries EXCEPT ![t] = @ + 1]
          /\ carried' = [carried EXCEPT ![t] = @ \cup missing]
          /\ roots' = [roots EXCEPT ![t] = {}] /\ seen' = [seen EXCEPT ![t] = {}]
          /\ frontier' = [frontier EXCEPT ![t] = {}] /\ wanted' = [wanted EXCEPT ![t] = {}]
          /\ UNCHANGED call
  /\ UNCHANGED dependencies
MissesLocks(t) ==
  /\ phase[t] = "checking" /\ frontier[t] = {} /\ ~requireDiscoveredLocks(t)
  /\ Restart(t, transitionAdvisoryLocks(seen[t]) \ acquired[t])
(* Another configuration was activated before the locks were acquired:     *)
(* what it asks for is carried, all of it by ingestEvent, what is missing  *)
(* by activateConfigurationByCas.                                          *)
Reconfigured(t) ==
  /\ phase[t] = "checking"
  /\ \E scheduling \in call[t].schedules :
       \E missing \in {scheduling, scheduling \ acquired[t]} : missing # {} /\ Restart(t, missing)

Commit(t) ==
  /\ phase[t] = "working"
  /\ \E written \in SUBSET call[t].writes : dependencies' = dependencies \cup written
  /\ LetGo(t) /\ Over(t)
(* The call throws, finds nothing to do, or dies with its connection.      *)
BugNoRollback(t) ==                       \* the client goes back to the pool as it is
  /\ phase[t] # "idle"
  /\ Over(t) /\ UNCHANGED <<acquired, dependencies>>
Abort(t) ==
  /\ phase[t] # "idle"
  /\ LetGo(t) /\ Over(t) /\ UNCHANGED dependencies

-----------------------------------------------------------------------------
LockingInit ==
  /\ phase = [t \in Clients |-> "idle"] /\ call = [t \in Clients |-> NoCall]
  /\ tries = [t \in Clients |-> 0]      /\ carried = [t \in Clients |-> {}]
  /\ roots = [t \in Clients |-> {}]     /\ seen = [t \in Clients |-> {}]
  /\ frontier = [t \in Clients |-> {}]  /\ wanted = [t \in Clients |-> {}]
  /\ acquired = [t \in Clients |-> {}]  /\ dependencies = {}

Progress(t) ==
  Discover(t) \/ Walk(t) \/ StartAcquiring(t) \/ Rediscover(t) \/ Proceed(t)
    \/ MissesLocks(t) \/ Commit(t)
LockingNext ==
  \E t \in Clients :
    \/ \E o \in Operations : Call(t, o)
    \/ Progress(t) \/ Acquire(t) \/ Reconfigured(t) \/ Abort(t)

(* The event loop runs what a query's answer lets go on, and PostgreSQL    *)
(* hands a lock to those who wait for it in turn: who waits for a lock     *)
(* that is free again and again gets it.                                   *)
LockingFairness ==
  \A t \in Clients : WF_lockingVars(Progress(t)) /\ SF_lockingVars(Acquire(t))
LockingSpec == LockingInit /\ [][LockingNext]_lockingVars

-----------------------------------------------------------------------------
(* What hangs on a set of jobs by the dependencies as they are: the least  *)
(* set that holds the jobs and all dependents of its members.              *)
Closed(jobs) == \A row \in jobs : \A dep \in JobRows : <<row, dep>> \in dependencies => dep \in jobs
Closure(jobs) ==
  {row \in JobRows : \A C \in SUBSET JobRows : jobs \subseteq C /\ Closed(C) => row \in C}

(* acquireAdvisoryLocks: never does a group of transactions wait, each for *)
(* a lock another of them holds (PostgreSQL would abort one), although     *)
(* they find their locks from different jobs and restart with more.        *)
NoWaitCycle ==
  \A S \in SUBSET Clients :
    S # {} => \E t \in S : \A l \in wanted[t] :
                NextWanted(t, l) => \A u \in S \ {t} : l \notin acquired[u]

(* requireDiscoveredLocks: when a transaction gets to work it holds, and   *)
(* holds alone, the locks of all jobs that depend on its roots by then,    *)
(* whoever added dependencies after it looked.                             *)
ActsUnderItsLocks ==
  \A t \in Clients : phase[t] = "working" =>
    \A l \in transitionAdvisoryLocks(Closure(roots[t])) :
      l \in acquired[t] /\ \A u \in Clients \ {t} : l \notin acquired[u]

(* withRestartingOrchestrationTransaction: every call comes to an end,     *)
(* however often it is made to restart and whoever is ahead of it.         *)
EveryCallEnds == \A t \in Clients : phase[t] # "idle" ~> phase[t] = "idle"
=============================================================================
