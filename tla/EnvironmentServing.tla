------------------------- MODULE EnvironmentServing -------------------------
(***************************************************************************)
(* packages/environment: what one environment of one service serves.       *)
(*                                                                         *)
(* Deployment events are ingested by the orchestration ledger, which fixes *)
(* the configuration they were accepted under and, by a trigger, queues    *)
(* them in an inbox.  The inbox worker (inbox.ts) records deployment       *)
(* attempts with the artifact bindings they claim, and serving             *)
(* observations, which move one checkpoint (repository.ts).  Where the     *)
(* order of observations does not decide, a repair task makes the          *)
(* reconciliation worker (reconciliation-worker.ts) ask the provider       *)
(* itself: it takes a ticket on the checkpoint, observes outside of any    *)
(* transaction, ingests the answer as an event like any other, and         *)
(* confirms the ticket with it (reconciler.ts).                            *)
(*                                                                         *)
(* The checkpoint's version only grows and is only compared for equality,  *)
(* so that a holder of a version (a task, a ticket, a publication) keeps   *)
(* whether it still is the current one ("fresh").  request_generation is   *)
(* kept the same way ("asked": a request came since the claim), and so is  *)
(* a lease token ("token": the row still has mine).  There is no clock: to *)
(* a transaction that looks, a lease has expired or not, a row that waits  *)
(* is due or not, and a checkpoint is old or not.                          *)
(***************************************************************************)
EXTENDS Integers, FiniteSets

CONSTANTS
  Artifacts,        \* artifact_id
  Revisions,        \* immutable revisions
  RevisionOf,       \* the revision the provider reports of an artifact, or None
  MaxChange,        \* bound on what the provider serves after the first state
  ServingAt,        \* ServingAt[k]: artifacts the provider serves after change k
  ServingEvents,    \* serving observations: [change, complete, pushed]
  AttemptEvents,    \* deployment attempts: [artifact, revision]
  MaxEpoch,         \* bound on configuration activations
  AuthorityOf,      \* AuthorityOf[n]: deployment authority in configuration n
  Sessions,         \* drain calls under way, of either worker
  MaxAttempts,      \* max_attempts (8)
  Bounds,           \* what may happen in a behaviour: see bound
  None              \* SQL NULL

Epochs  == 1 .. MaxEpoch
Changes == 0 .. MaxChange

(* A serving observation reports the state after a change, wholly or not;  *)
(* its source reference and its effective order name the change.  It was   *)
(* pushed by the provider or answers an exact observation.                 *)
Events == ServingEvents \cup AttemptEvents

ASSUME EventAssumption ==
  /\ MaxChange \in Nat /\ MaxEpoch \in Nat \ {0}
  /\ ServingEvents \subseteq [change : Changes, complete : BOOLEAN, pushed : BOOLEAN]
  /\ AttemptEvents \subseteq [artifact : Artifacts, revision : Revisions]
  /\ RevisionOf \in [Artifacts -> Revisions \cup {None}]
  /\ ServingAt \in [Changes -> SUBSET Artifacts]
  /\ \A k \in Changes : IsFiniteSet(ServingAt[k])      \* the list of an event
  /\ None \notin Revisions /\ None \notin Events /\ None \notin Sessions
  /\ ServingEvents \cap AttemptEvents = {}
  /\ MaxAttempts \in Nat \ {0}
  /\ Bounds \subseteq [opaque : BOOLEAN, events : SUBSET Events, epochs : Epochs,
                      requests : BOOLEAN, failures : BOOLEAN]

VARIABLES
  bound,            \* the provider's orders are opaque cursors; the events that
                    \* may occur; epochs; an explicit request; failures
  world,            \* number of changes of the provider so far
  epoch,            \* epoch of the active configuration
  listed,           \* the active configuration has the environment
  ingested,         \* active_config_fingerprint of an event, 0 if unknown
  inbox,            \* environment_deployment_inbox
  attempts,         \* environment_deployment_attempts
  binding,          \* environment_artifact_bindings
  disposition,      \* environment_serving_observations
  checkpoint,       \* environment_serving_checkpoints
  task,             \* environment_reconciliation_tasks
  session,          \* what each drain remembers
  request           \* history of an explicit request: none, open, observed
                    \* (an incomplete answer was confirmed) or answered

provider == <<bound, world>>
ledger   == <<epoch, listed, ingested>>
records  == <<attempts, binding, disposition>>
vars == <<provider, ledger, inbox, records, checkpoint, task, session, request>>

-----------------------------------------------------------------------------
Dispositions == {"none", "applied", "stale", "replay", "reconciliation_required"}

InboxStates == {"absent", "pending", "leased", "retry_wait", "delivered", "exhausted"}
TaskStates  == {"absent", "queued", "leased", "retry_wait", "resolved", "exhausted"}
InboxRows == [state : InboxStates, attempts : 0 .. MaxAttempts]
TaskRows  == [state : TaskStates, attempts : 0 .. MaxAttempts, fresh : BOOLEAN]
NoInboxRow == [state |-> "absent", attempts |-> 0]
NoTask == [state |-> "absent", attempts |-> 0, fresh |-> FALSE]

Checkpoints == [exists : BOOLEAN, current : ServingEvents \cup {None},
                pending : ServingEvents \cup {None}, required : BOOLEAN,
                explicit : BOOLEAN]
NoCheckpoint == [exists |-> FALSE, current |-> None, pending |-> None,
                 required |-> FALSE, explicit |-> FALSE]

(* An inbox session records and then delivers; a reconciliation session    *)
(* asks for a ticket, observes, ingests, confirms and then answers.        *)
SessionStates == {"idle", "recording", "delivering",
                  "asking", "observing", "ingesting", "confirming", "answering"}
Outcomes == {"none", "success", "conflict", "denied", "storage_error",
             "no_pending", "applied", "pending", "superseded"}
SessionRecords == [pc : SessionStates, event : Events \cup {None}, outcome : Outcomes,
                   token : BOOLEAN, fresh : BOOLEAN, epoch : {0} \cup Epochs,
                   asked : BOOLEAN]
Idle == [pc |-> "idle", event |-> None, outcome |-> "none", token |-> FALSE,
         fresh |-> FALSE, epoch |-> 0, asked |-> FALSE]

TypeOK ==
  /\ bound \in Bounds /\ world \in Changes /\ epoch \in Epochs /\ listed \in BOOLEAN
  /\ ingested \in [Events -> {0} \cup Epochs]
  /\ inbox \in [Events -> InboxRows]
  /\ attempts \subseteq AttemptEvents
  /\ binding \in [Artifacts -> Revisions \cup {None}]
  /\ disposition \in [ServingEvents -> Dispositions]
  /\ checkpoint \in Checkpoints
  /\ checkpoint.required \/ checkpoint.pending = None
  /\ task \in TaskRows
  /\ session \in [Sessions -> SessionRecords]
  /\ request \in {"none", "open", "observed", "answered"}

Init ==
  /\ bound \in Bounds /\ world = 0 /\ epoch = 1 /\ listed = TRUE
  /\ ingested = [e \in Events |-> 0]
  /\ inbox = [e \in Events |-> NoInboxRow]
  /\ attempts = {} /\ binding = [a \in Artifacts |-> None]
  /\ disposition = [e \in ServingEvents |-> "none"]
  /\ checkpoint = NoCheckpoint /\ task = NoTask
  /\ session = [s \in Sessions |-> Idle]
  /\ request = "none"

-----------------------------------------------------------------------------
(* The provider, the configuration and the event ledger.                   *)

ProviderChanges ==
  /\ world < MaxChange
  /\ world' = world + 1
  /\ UNCHANGED <<bound, ledger, inbox, records, checkpoint, task, session, request>>

ActivateConfiguration ==
  /\ epoch < bound.epochs
  /\ epoch' = epoch + 1
  /\ listed' \in BOOLEAN
  /\ UNCHANGED <<provider, ingested, inbox, records, checkpoint, task, session, request>>

(* A known event does nothing.  A new one is refused unless the active     *)
(* configuration has its environment; its inbox row comes with it.         *)
Ingest(e) ==
  /\ e \in bound.events
  /\ ingested[e] # 0 \/ listed
  /\ ingested' = [ingested EXCEPT ![e] = IF @ = 0 THEN epoch ELSE @]
  /\ inbox' = [inbox EXCEPT ![e] = IF @.state = "absent" THEN [@ EXCEPT !.state = "pending"]
                                                         ELSE @]

IngestEvent(e) ==
  /\ ingested[e] = 0
  /\ e \in ServingEvents => e.change <= world /\ e.pushed
  /\ Ingest(e)
  /\ UNCHANGED <<provider, epoch, listed, records, checkpoint, task, session, request>>

(* Every write of the checkpoint adds one to its version.                  *)
Outdated(sessions) == [s \in Sessions |-> [sessions[s] EXCEPT !.fresh = FALSE]]
MoveCheckpoint(c, sessions) ==
  /\ checkpoint' = c
  /\ task' = [task EXCEPT !.fresh = FALSE]
  /\ session' = Outdated(sessions)

(* The trigger on reconciliation.requested, in the ingesting transaction.  *)
RequestReconciliation ==
  /\ listed
  /\ bound.requests /\ request = "none"
  /\ MoveCheckpoint([checkpoint EXCEPT !.exists = TRUE, !.required = TRUE, !.explicit = TRUE],
                    [s \in Sessions |-> [session[s] EXCEPT !.asked = TRUE]])
  /\ request' = "open"
  /\ UNCHANGED <<provider, ledger, inbox, records>>

-----------------------------------------------------------------------------
(* The inbox worker.                                                       *)

(* A task that waits may be claimed beyond max_attempts: the count is only *)
(* compared with it, and the model lets it stop there.                     *)
OutOfAttempts(r) == r.attempts >= MaxAttempts
Lease(r) == [r EXCEPT !.state = "leased",
                      !.attempts = IF OutOfAttempts(r) THEN @ ELSE @ + 1]
End(r, state) == [r EXCEPT !.state = state, !.attempts = IF state = "retry_wait" THEN @ ELSE 0]

InboxSessions == {"recording", "delivering"}
TaskSessions  == SessionStates \ (InboxSessions \cup {"idle"})
OnInbox(s, e) == session[s].pc \in InboxSessions /\ session[s].event = e
OnTask(s)     == session[s].pc \in TaskSessions
WithoutTokens(sessions, taken) ==
  [s \in Sessions |-> IF s \in taken THEN [sessions[s] EXCEPT !.token = FALSE]
                      ELSE sessions[s]]

Leased(e) == inbox[e].state = "leased"
DueInbox(e) == \/ inbox[e].state \in {"pending", "retry_wait"}
               \/ Leased(e) /\ ~OutOfAttempts(inbox[e])

(* Expired rows without attempts left are given up, then a due row, or one *)
(* whose lease has expired, is leased.                                     *)
claimNextInbox(s) ==
  /\ session[s].pc = "idle"
  /\ \E over \in SUBSET {e \in Events : Leased(e) /\ OutOfAttempts(inbox[e])},
       picked \in {{}} \cup {{e} : e \in {f \in Events : DueInbox(f)}} :
       LET taken == {t \in Sessions : \E e \in over \cup picked : OnInbox(t, e)}
           others == WithoutTokens(session, taken) IN
       /\ over \cup picked # {}
       /\ inbox' = [e \in Events |-> CASE e \in over   -> End(inbox[e], "exhausted")
                                       [] e \in picked -> Lease(inbox[e])
                                       [] OTHER        -> inbox[e]]
       /\ session' = IF picked = {} THEN others
                     ELSE [others EXCEPT ![s] = [Idle EXCEPT !.pc = "recording",
                            !.event = CHOOSE e \in picked : TRUE, !.token = TRUE]]
  /\ UNCHANGED <<provider, ledger, records, checkpoint, task, request>>

Recorded(s, outcome) ==
  [session EXCEPT ![s].pc = "delivering", ![s].outcome = outcome]

(* The attempt and the first binding of its artifact, or neither.          *)
Bindable(e) == binding[e.artifact] \in {None, e.revision}

recordAttempt(s) ==
  LET e == session[s].event IN
  /\ session[s].pc = "recording" /\ e \in AttemptEvents
  /\ IF Bindable(e)
       THEN /\ attempts' = attempts \cup {e}
            /\ binding' = [binding EXCEPT ![e.artifact] = e.revision]
            /\ session' = Recorded(s, "success")
       ELSE /\ UNCHANGED <<attempts, binding>>
            /\ session' = Recorded(s, "conflict")
  /\ UNCHANGED <<provider, ledger, inbox, disposition, checkpoint, task, request>>

SameAuthority(e, f) == AuthorityOf[ingested[e]] = AuthorityOf[ingested[f]]
classifyServingObservation(current, e) ==
  IF bound.opaque THEN "reconcile"
  ELSE IF current = None THEN "apply"
  ELSE IF ~SameAuthority(current, e) THEN "reconcile"
  ELSE IF current.change < e.change THEN "apply"
  ELSE IF e.change < current.change THEN "stale"
  ELSE IF e.complete = current.complete THEN "replay" ELSE "reconcile"

Classification(e) == IF ingested[e] # epoch THEN "reconcile"
                     ELSE classifyServingObservation(checkpoint.current, e)
DispositionOf(class) == CASE class = "apply"     -> "applied"
                          [] class = "reconcile" -> "reconciliation_required"
                          [] OTHER               -> class

BugApplied(c, e) ==                                \* the explicit flag not kept
  [c EXCEPT !.exists = TRUE, !.current = e, !.pending = IF e.complete THEN None ELSE e,
            !.required = ~e.complete]
Applied(c, e) ==
  [c EXCEPT !.exists = TRUE, !.current = e, !.pending = IF e.complete THEN None ELSE e,
            !.required = ~e.complete \/ c.explicit]
ReconcileLater(c, e) ==
  [c EXCEPT !.exists = TRUE, !.pending = e, !.required = TRUE]

recordServingObservation(s) ==
  LET e == session[s].event
      class == Classification(e)
      done == Recorded(s, "success") IN
  /\ session[s].pc = "recording" /\ e \in ServingEvents
  /\ IF disposition[e] # "none"
       THEN UNCHANGED <<disposition, checkpoint, task>> /\ session' = done
       ELSE /\ disposition' = [disposition EXCEPT ![e] = DispositionOf(class)]
            /\ CASE class = "apply"     -> MoveCheckpoint(Applied(checkpoint, e), done)
                 [] class = "reconcile" -> MoveCheckpoint(ReconcileLater(checkpoint, e), done)
                 [] OTHER -> UNCHANGED <<checkpoint, task>> /\ session' = done
  /\ UNCHANGED <<provider, ledger, inbox, attempts, binding, request>>

(* A storage error, before or after what was recorded.                     *)
StorageError(s) ==
  /\ bound.failures
  /\ session[s].pc \in {"recording", "delivering"}
  /\ session[s].outcome # "storage_error"
  /\ session' = Recorded(s, "storage_error")
  /\ UNCHANGED <<provider, ledger, inbox, records, checkpoint, task, request>>

BugInboxState(outcome, r) ==                       \* the last attempt counts as done
  IF outcome = "success" \/ OutOfAttempts(r) THEN "delivered"
  ELSE IF outcome # "storage_error" THEN "exhausted" ELSE "retry_wait"
InboxState(outcome, r) ==
  IF outcome = "success" THEN "delivered"
  ELSE IF outcome # "storage_error" \/ OutOfAttempts(r) THEN "exhausted"
  ELSE "retry_wait"

finishInbox(s) ==
  LET e == session[s].event IN
  /\ session[s].pc = "delivering"
  /\ inbox' = IF ~session[s].token THEN inbox      \* lease_lost
              ELSE [inbox EXCEPT ![e] = End(@, InboxState(session[s].outcome, @))]
  /\ session' = [session EXCEPT ![s] = Idle]
  /\ UNCHANGED <<provider, ledger, records, checkpoint, task, request>>

-----------------------------------------------------------------------------
(* The reconciliation worker: the parts of its claim, in their order.      *)

Discovered(c) == IF ~c.exists /\ listed
                   THEN [NoCheckpoint EXCEPT !.exists = TRUE, !.required = TRUE] ELSE c
Outlived(c, aged) ==
  /\ c.exists /\ ~c.required /\ listed
  /\ \/ aged
     \/ c.current = None
     \/ ingested[c.current] # epoch
Refreshed(c, aged) == IF Outlived(c, aged) THEN [c EXCEPT !.required = TRUE] ELSE c

Queued == [NoTask EXCEPT !.state = "queued", !.fresh = TRUE]
BugRequeued(t, c) ==                               \* a moved version not noticed
  IF c.required /\ listed /\ t.state \in {"absent", "resolved"} THEN Queued ELSE t
Requeued(t, c) ==
  IF c.required /\ listed /\ (~t.fresh \/ t.state \in {"absent", "resolved"})
    THEN Queued ELSE t
Retired(t, c, expired) ==
  IF /\ t.state # "absent"
     /\ \/ ~listed
        \/ ~c.required /\ (t.state = "leased" => expired)
    THEN End(t, "resolved") ELSE t
GivenUp(t, expired) ==
  IF t.state = "leased" /\ expired /\ OutOfAttempts(t) THEN End(t, "exhausted") ELSE t

ClaimableTask(t, c, expired, due) ==
  /\ c.required /\ t.fresh /\ listed
  /\ \/ t.state = "queued"
     \/ t.state = "retry_wait" /\ due
     \/ t.state = "leased" /\ expired

claimNextTask(s) ==
  /\ session[s].pc = "idle"
  /\ \E aged, due, expired \in BOOLEAN :
       LET found == Discovered(checkpoint)
           moved == Outlived(found, aged)
           c == Refreshed(found, aged)
           t == GivenUp(Retired(Requeued([task EXCEPT !.fresh = @ /\ ~moved], c), c, expired),
                        expired)
           claims == ClaimableTask(t, c, expired, due)
           others == WithoutTokens(IF moved THEN Outdated(session) ELSE session,
                       {u \in Sessions : OnTask(u) /\ (claims \/ t.state # "leased")}) IN
       /\ checkpoint' = c
       /\ task' = IF claims THEN Lease(t) ELSE t
       /\ session' = IF claims THEN [others EXCEPT ![s] =
                                      [Idle EXCEPT !.pc = "asking", !.token = TRUE]]
                     ELSE others
       /\ <<checkpoint, task>>' # <<checkpoint, task>>
  /\ UNCHANGED <<provider, ledger, inbox, records, request>>

Answer(s, outcome) == [session EXCEPT ![s].pc = "answering", ![s].outcome = outcome]

getPendingServingReconciliation(s) ==
  /\ session[s].pc = "asking"
  /\ session' = IF checkpoint.required /\ listed
                  THEN [session EXCEPT ![s].pc = "observing", ![s].fresh = TRUE,
                                       ![s].epoch = epoch]
                  ELSE Answer(s, "no_pending")
  /\ UNCHANGED <<provider, ledger, inbox, records, checkpoint, task, request>>

(* The provider answers with an event of its present state, an event it    *)
(* answered with before, too.                                              *)
Observe(s) ==
  /\ session[s].pc = "observing"
  /\ \E e \in ServingEvents :
       /\ e \in bound.events /\ e.change = world /\ ~e.pushed
       /\ session' = [session EXCEPT ![s].pc = "ingesting", ![s].event = e]
  /\ UNCHANGED <<provider, ledger, inbox, records, checkpoint, task, request>>

IngestAnswer(s) ==
  LET e == session[s].event IN
  /\ session[s].pc = "ingesting"
  /\ Ingest(e)
  /\ session' = [session EXCEPT ![s].pc = "confirming"]
  /\ UNCHANGED <<provider, epoch, listed, records, checkpoint, task, request>>

(* The provider's answer is of another scope, or something failed.         *)
ReconcileFails(s) ==
  /\ bound.failures
  /\ session[s].pc \in {"asking", "observing", "ingesting", "confirming"}
  /\ \/ session' = Answer(s, "storage_error")
     \/ /\ session[s].pc = "observing"
        /\ session' = Answer(s, "denied")
  /\ UNCHANGED <<provider, ledger, inbox, records, checkpoint, task, request>>

BugTicketHolds(s) ==                               \* the version not compared
  session[s].epoch = epoch /\ ingested[session[s].event] = epoch
TicketHolds(s) ==
  /\ session[s].fresh
  /\ session[s].epoch = epoch
  /\ ingested[session[s].event] = epoch

confirmServingReconciliation(s) ==
  LET e == session[s].event IN
  /\ session[s].pc = "confirming"
  /\ IF TicketHolds(s) /\ disposition[e] = "none"
       THEN /\ disposition' = [disposition EXCEPT ![e] =
                 IF e.complete THEN "applied" ELSE "reconciliation_required"]
            /\ MoveCheckpoint(Applied([checkpoint EXCEPT !.explicit = FALSE], e),
                              Answer(s, IF e.complete THEN "applied" ELSE "pending"))
            /\ request' = IF request \in {"none", "answered"} THEN request
                           ELSE IF e.complete THEN "answered" ELSE "observed"
       ELSE /\ session' = Answer(s, IF /\ TicketHolds(s)
                                       /\ checkpoint.current = e /\ checkpoint.pending = e
                                      THEN "pending" ELSE "superseded")
            /\ UNCHANGED <<disposition, checkpoint, task, request>>
  /\ UNCHANGED <<provider, ledger, inbox, attempts, binding>>

TaskState(outcome) ==
  CASE outcome \in {"applied", "no_pending"} -> "resolved"
    [] outcome = "denied" -> "exhausted"
    [] outcome = "storage_error" /\ OutOfAttempts(task) -> "exhausted"
    [] OTHER -> "retry_wait"

(* An incomplete answer backs off against the version it made itself,      *)
(* unless a request came meanwhile.                                        *)
finishTask(s) ==
  LET outcome == session[s].outcome IN
  /\ session[s].pc = "answering"
  /\ task' = IF ~session[s].token THEN task
             ELSE [End(task, TaskState(outcome)) EXCEPT
                     !.fresh = @ \/ (outcome = "pending" /\ ~session[s].asked)]
  /\ session' = [session EXCEPT ![s] = Idle]
  /\ UNCHANGED <<provider, ledger, inbox, records, checkpoint, request>>

-----------------------------------------------------------------------------
(* A process dies.                                                         *)

Die(s) ==
  /\ bound.failures
  /\ session[s].pc # "idle"
  /\ session' = [session EXCEPT ![s] = Idle]
  /\ UNCHANGED <<provider, ledger, inbox, records, checkpoint, task, request>>

-----------------------------------------------------------------------------
InboxStep(s) ==
  \/ recordAttempt(s) \/ recordServingObservation(s) \/ finishInbox(s)
ReconcilerStep(s) ==
  \/ getPendingServingReconciliation(s) \/ Observe(s) \/ IngestAnswer(s)
  \/ confirmServingReconciliation(s) \/ finishTask(s)

Next ==
  \/ ProviderChanges \/ ActivateConfiguration \/ RequestReconciliation
  \/ \E e \in Events : IngestEvent(e)
  \/ \E s \in Sessions :
       \/ claimNextInbox(s) \/ claimNextTask(s)
       \/ InboxStep(s) \/ ReconcilerStep(s)
       \/ StorageError(s) \/ ReconcileFails(s) \/ Die(s)

Spec == Init /\ [][Next]_vars
(* Fairness: hosts call both drains again and again, sessions proceed, an  *)
(* old lease is found expired.                                             *)
Progress(s) == session'[s].pc = "asking" \/ task'.state = "exhausted"
Fairness ==
  /\ SF_vars(\E s \in Sessions : claimNextTask(s) /\ Progress(s))
  /\ \A s \in Sessions : WF_vars(InboxStep(s) \/ ReconcilerStep(s))
FairSpec == Spec /\ Fairness

-----------------------------------------------------------------------------
(* views.ts: what getEnvironment presents.                                 *)

ObservationCurrent == checkpoint.current # None /\ ingested[checkpoint.current] = epoch
Trusted == /\ listed /\ checkpoint.exists
           /\ ~checkpoint.required /\ ObservationCurrent

-----------------------------------------------------------------------------
(* Properties.                                                             *)

(* The tables have their types, and the immutable ones, the bindings, the  *)
(* checkpoint and the inbox agree, whatever sessions died between          *)
(* recording and finishing: delivered is said only of an event that is on  *)
(* record, attempts never disagree about an artifact's revision, and the   *)
(* checkpoint rests on and waits for recorded observations that were not   *)
(* stale.                                                                  *)
RecordsAgree ==
  /\ TypeOK
  /\ \A e \in Events : inbox[e].state = "delivered" =>
       IF e \in AttemptEvents THEN e \in attempts ELSE disposition[e] # "none"
  /\ \A e \in attempts : binding[e.artifact] = e.revision
  /\ \A e \in {checkpoint.current, checkpoint.pending} \ {None} :
       disposition[e] \in {"applied", "reconciliation_required"}

(* While nothing is to be reconciled, the environment is presented as its  *)
(* newest recorded observation of the active configuration left it.        *)
EvidenceNotIgnored ==
  Trusted => \A e \in ServingEvents :
    disposition[e] # "none" /\ ingested[e] = epoch => e.change <= checkpoint.current.change

(* Late deliveries, late confirmations of a ticket and configuration       *)
(* changes never take the checkpoint back to an older state.               *)
NoServingUndone ==
  [][checkpoint.current # None => checkpoint.current.change <= checkpoint'.current.change]_vars

(* An explicit request survives whatever the inbox still delivers: until a *)
(* provider answer made after it is confirmed, the state stays to be       *)
(* reconciled.                                                             *)
RequestSurvives == request = "open" => checkpoint.required

(* A state that is to be reconciled is observed, unless its task was given *)
(* up or the environment left the configuration.                           *)
GivenUpTask == task.state = "exhausted" /\ task.fresh
RequiredIsObserved ==
  checkpoint.required ~>
    \/ ~checkpoint.required \/ ~listed \/ GivenUpTask
    \/ \E s \in Sessions : session[s].pc = "observing" /\ session[s].fresh
=============================================================================
