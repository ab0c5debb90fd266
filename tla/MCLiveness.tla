------------------------------ MODULE MCLiveness ------------------------------
(***************************************************************************)
(* An instance, for TLC, of what hosts that keep calling the workers bring *)
(* about: JobQueue with its claims, EnvironmentServing with its two        *)
(* drains, Outbox with its consumers and AdvisoryLocks with its clients.   *)
(* They share no state; a behaviour is about the one in focus, and the     *)
(* others stay as they start.                                              *)
(***************************************************************************)
EXTENDS MCJobQueue, AdvisoryLocks

CONSTANTS Sessions, None, JobNotices, Consumers, MaxDeliveries, ClaimLimit

VARIABLES
  focus,
  bound, world, epoch, listed, ingested, inbox, attempts, binding, disposition,
  checkpoint, task, session, request,                           \* EnvironmentServing
  outbox, leases, acknowledged                                  \* Outbox

(* One environment: a provider that answers, an explicit request, workers  *)
(* that fail and die.                                                      *)
SomeServings == {[change |-> 0, complete |-> TRUE, pushed |-> FALSE]}
SomeBounds == {[opaque |-> FALSE, events |-> SomeServings, epochs |-> 1, requests |-> TRUE,
                failures |-> TRUE]}
Repair == INSTANCE EnvironmentServing WITH
  Artifacts <- {"a"}, Revisions <- {"r"}, RevisionOf <- "a" :> "r", MaxChange <- 0,
  ServingAt <- (0 :> {"a"}), ServingEvents <- SomeServings, AttemptEvents <- {},
  MaxEpoch <- 1, AuthorityOf <- <<"A">>, MaxAttempts <- 2, Bounds <- SomeBounds
repairVars == <<bound, world, epoch, listed, ingested, inbox, attempts, binding, disposition,
                checkpoint, task, session, request>>

Notices == INSTANCE Outbox
noticeVars == <<outbox, leases, acknowledged>>

(* A baseline and the preview that is made to wait for it, and a job of    *)
(* another tenant.  A worker claims over both tenants; an event adds the   *)
(* preview.                                                                *)
Row(tenant, branch, number, analysis) ==
  [tenant |-> tenant, repository |-> "r", service |-> "s", kind |-> "analysis",
   branch |-> branch, pr |-> number, analysis |-> analysis]
BaselineRow == Row("t", Null, Null, "x")
PreviewRow  == Row("t", Null, "1", Null)
OtherRow    == Row("u", "main", Null, Null)
SomeRows == {BaselineRow, PreviewRow, OtherRow}
Locking(initial, candidates) ==
  [initial |-> initial, candidates |-> candidates, rereads |-> FALSE, schedules |-> {{}},
   writes |-> {}]
SomeOperations ==
  {Locking({}, {{BaselineRow, OtherRow}}),                       \* claimJobs
   [Locking({configurationLock("t")}, {{BaselineRow}}) EXCEPT               \* ingestEvent
      !.rereads = TRUE, !.writes = {<<BaselineRow, PreviewRow>>},
      !.schedules = {{SubjectLock("subject.pr", PreviewRow, "1")}}]}
SomePlace == [l \in Locks |-> IF l.parts[1] = "t" THEN 0 ELSE 1]

HostedInit ==
  /\ focus \in {"queue", "repair", "notices", "locks"}
  /\ Init /\ Repair!Init /\ Notices!OutboxInit /\ LockingInit
HostedNext ==
  \/ focus = "queue" /\ Next /\ UNCHANGED <<focus, repairVars, noticeVars, lockingVars>>
  \/ focus = "repair" /\ Repair!Next /\ UNCHANGED <<focus, vars, noticeVars, lockingVars>>
  \/ /\ focus = "notices" /\ Notices!OutboxNext
     /\ UNCHANGED <<focus, vars, repairVars, lockingVars>>
  \/ focus = "locks" /\ LockingNext /\ UNCHANGED <<focus, vars, repairVars, noticeVars>>
(* The fairness of the components, of their actions here.                  *)
QueueFairness == /\ WF_vars(focus = "queue" /\ Tick)
                 /\ \A j \in Jobs : SF_vars(focus = "queue" /\ ClaimOf(j))
RepairFairness ==
  /\ SF_repairVars(/\ focus = "repair"
                   /\ \E s \in Sessions : Repair!claimNextTask(s) /\ Repair!Progress(s))
  /\ \A s \in Sessions :
       WF_repairVars(focus = "repair" /\ (Repair!InboxStep(s) \/ Repair!ReconcilerStep(s)))
NoticeFairness ==
  \A m \in JobNotices :
    /\ WF_noticeVars(focus = "notices" /\ m \in DOMAIN outbox /\ Notices!Taken(m))
    /\ WF_noticeVars(focus = "notices" /\ m \in DOMAIN outbox /\ Notices!ExpireLease(m))
ClientFairness ==
  \A t \in Clients : /\ WF_lockingVars(focus = "locks" /\ Progress(t))
                     /\ SF_lockingVars(focus = "locks" /\ Acquire(t))
Hosted ==
  /\ HostedInit /\ [][HostedNext]_<<focus, vars, repairVars, noticeVars, lockingVars>>
  /\ QueueFairness /\ RepairFairness /\ NoticeFairness /\ ClientFairness

(* EnvironmentServing: a checkpoint that is to be reconciled is observed   *)
(* by the reconciliation worker, unless its task was given up.             *)
RequiredIsObserved == Repair!RequiredIsObserved

(* Outbox: a notice is delivered by whom it was last handed to, stays      *)
(* settled, and is settled in the end though every consumer dies.          *)
NoticesAreSettled == Notices!NoticesAreSettled
=============================================================================
