-------------------------- MODULE VerificationJobs --------------------------
(***************************************************************************)
(* The two verification queues of packages/orchestration of one tenant:    *)
(* the bytes of a runtime capture are verified by capture-verification-*,  *)
(* the documents loaded into a verified capture by loaded-document-        *)
(* verification-*.  A job is one subject (a capture or a load) under one   *)
(* configuration epoch (fingerprint, document hash and checkpoint of the   *)
(* active configuration); its identity is the hash of both.                *)
(*                                                                         *)
(* Every transaction of a queue takes that queue's tenant advisory lock    *)
(* first (capture-admission or loaded-document-admission), so that one     *)
(* transaction is one action.  The two locks differ, but a transaction of  *)
(* the second queue reads only immutable rows of the first.                *)
(*                                                                         *)
(* There is no clock: a lease has a boolean "live", and Expire ends it at  *)
(* any moment; a heartbeat keeps it alive by being a reason for Expire not *)
(* to happen.  A random lease token is named by <<job, attempt>>, since    *)
(* every claim adds one to attempt_count.  Access grants and the host's    *)
(* authorisation callbacks are read anew in every transaction and may      *)
(* refuse any of them: an action that needs them may simply not happen,    *)
(* or, for a session that is under way, Abandon it.  As any candidate may  *)
(* be refused, any candidate may be the first one a claim is allowed to    *)
(* take, so that the admission order of the candidates is left out.        *)
(***************************************************************************)
EXTENDS Integers, FiniteSets

CONSTANTS
  Captures,        \* capture_identity_digest of the tenant's captures
  Loads,           \* load_identity_digest of the documents loaded into them
  CaptureOf,       \* the capture a document was loaded into
  Services,        \* (repository, service) pairs
  ServiceOf,       \* the service of a capture's scope
  Environments,
  EnvironmentOf,   \* the environment of a capture's scope
  Roots,           \* service roots
  RootOf,          \* RootOf[e][c]: root of c's service in epoch e's document
  NoRoot,          \* the document does not list c's service or environment
  MaxEpoch,        \* bound on configuration activations
  Digests,         \* results a verification may come to
  Sessions,        \* runOne calls under way, in all runner processes
  MaxAttempts,     \* MAX_ATTEMPTS (3)
  MaxLeases,       \* live leases of a tenant's queue (2)
  MaxQueued,       \* maxQueuedPerTenant
  BatchSize,       \* batchSize of the maintenance
  None             \* SQL NULL

Subjects == Captures \cup Loads
Epochs   == 1 .. MaxEpoch
Jobs     == Subjects \X Epochs
Receipts == [root : Roots, digest : Digests]

ASSUME SubjectAssumption ==
  /\ Captures \cap Loads = {}
  /\ CaptureOf \in [Loads -> Captures]
  /\ ServiceOf \in [Captures -> Services]
  /\ EnvironmentOf \in [Captures -> Environments]
  /\ None \notin Receipts /\ None \notin Jobs /\ None \notin Digests
  /\ None \notin Sessions

ASSUME ConfigurationAssumption ==
  /\ MaxEpoch \in Nat
  /\ NoRoot \notin Roots
  /\ RootOf \in [Epochs -> [Captures -> Roots \cup {NoRoot}]]

ASSUME LimitAssumption ==
  /\ MaxAttempts \in Nat \ {0} /\ MaxLeases \in Nat \ {0}
  /\ MaxQueued \in Nat \ {0} /\ BatchSize \in Nat \ {0}
  /\ IsFiniteSet(Captures) /\ IsFiniteSet(Loads)

VARIABLES
  epoch,           \* epoch of the active configuration, 0 before the first
  associations,    \* orchestration_observed_capture_associations
  receipt,         \* the two verification tables, by subject
  row,             \* the two job_state tables, by job
  session          \* what each runOne call remembers

vars == <<epoch, associations, receipt, row, session>>

-----------------------------------------------------------------------------
(* Rows and sessions.                                                      *)

UnfinishedStates == {"queued", "leased", "retry_wait"}
TerminalStates   == {"succeeded", "failed", "cancelled"}
JobStates        == {"absent"} \cup UnfinishedStates \cup TerminalStates

(* safe_error_code, terminal_reason and verification_error_code: the CHECKs*)
(* of the tables allow one of them at a time.                              *)
Codes == {"none", "exhausted", "unverified", "transient", "superseded"}

Rows == [state : JobStates, attempts : 0 .. MaxAttempts, live : BOOLEAN,
         code : Codes, digest : Digests \cup {None}]
NoRow == [state |-> "absent", attempts |-> 0, live |-> FALSE,
          code |-> "none", digest |-> None]

(* leased: a capture is claimed and not yet bound; verifying: the host's   *)
(* verifier runs; verified: it answered; refused and transient: a failure  *)
(* is still to be recorded.  lost: a heartbeat failed.                     *)
SessionStates == {"idle", "leased", "verifying", "verified", "refused", "transient"}
SessionRecords == [pc : SessionStates, job : Jobs \cup {None}, attempt : 0 .. MaxAttempts,
             lost : BOOLEAN, digest : Digests \cup {None}]
Idle == [pc |-> "idle", job |-> None, attempt |-> 0, lost |-> FALSE, digest |-> None]

Subject(j)  == j[1]
EpochOf(j)  == j[2]
IsCapture(j) == Subject(j) \in Captures
QueueOf(j)  == IF IsCapture(j) THEN Captures ELSE Loads
CaptureFor(j) == IF IsCapture(j) THEN Subject(j) ELSE CaptureOf[Subject(j)]
JobRoot(j)  == RootOf[EpochOf(j)][CaptureFor(j)]

Unfinished(j) == row[j].state \in UnfinishedStates
Live(j)       == row[j].state = "leased" /\ row[j].live
Expired(j)    == row[j].state = "leased" /\ ~row[j].live

(* The CHECK constraints of the job tables (migrations 0009-0011 and       *)
(* 0015-0017): an update that broke one would abort the transaction that   *)
(* makes it, again and again.                                              *)
CodesOf(state) == CASE state = "failed"     -> {"exhausted", "unverified", "transient"}
                    [] state = "retry_wait" -> {"transient"}
                    [] state = "cancelled"  -> {"superseded"}
                    [] OTHER                -> {"none"}
RowConstraints(r) ==
  /\ r.live => r.state = "leased"
  /\ (r.state = "succeeded") = (r.digest # None)
  /\ r.code \in CodesOf(r.state)
  /\ r.state \in {"leased", "retry_wait", "succeeded"} => r.attempts > 0

TypeOK ==
  /\ epoch \in 0 .. MaxEpoch
  /\ associations \subseteq Captures
  /\ receipt \in [Subjects -> Receipts \cup {None}]
  /\ row \in [Jobs -> Rows] /\ \A j \in Jobs : RowConstraints(row[j])
  /\ session \in [Sessions -> SessionRecords]

Init ==
  /\ epoch = 0
  /\ associations = {}
  /\ receipt = [s \in Subjects |-> None]
  /\ row = [j \in Jobs |-> NoRow]
  /\ session = [s \in Sessions |-> Idle]

-----------------------------------------------------------------------------
(* Configuration and associations.                                         *)

ActivateConfiguration ==
  /\ epoch < MaxEpoch
  /\ epoch' = epoch + 1
  /\ UNCHANGED <<associations, receipt, row, session>>

(* An association is immutable and named by the hash of its own columns.   *)
AppendAssociation(c) ==
  /\ c \notin associations
  /\ associations' = associations \cup {c}
  /\ UNCHANGED <<epoch, receipt, row, session>>

-----------------------------------------------------------------------------
(* Admission.                                                              *)

QuotaLeft(queue) ==
  Cardinality({j \in Jobs : Subject(j) \in queue /\ Unfinished(j)}) < MaxQueued

Insert(j) ==
  /\ row[j].state = "absent"     \* else "existing"
  /\ QuotaLeft(QueueOf(j))
  /\ row' = [row EXCEPT ![j] = [NoRow EXCEPT !.state = "queued"]]

AdmitCapture(c) ==
  /\ epoch > 0
  /\ c \in associations
  /\ RootOf[epoch][c] # NoRoot
  /\ Insert(<<c, epoch>>)
  /\ UNCHANGED <<epoch, associations, receipt, session>>

(* The bytes of the capture have to be verified at the root the active     *)
(* document gives the service.                                             *)
BugvalidByteParent(c, root) == receipt[c] # None
validByteParent(c, root) == receipt[c] # None /\ receipt[c].root = root

AdmitLoad(l) ==
  LET c == CaptureOf[l] IN
  /\ epoch > 0
  /\ c \in associations
  /\ RootOf[epoch][c] # NoRoot
  /\ validByteParent(c, RootOf[epoch][c])
  /\ Insert(<<l, epoch>>)
  /\ UNCHANGED <<epoch, associations, receipt, session>>

-----------------------------------------------------------------------------
(* Claims and heartbeats.                                                  *)

BugReadyCapture(j) == row[j].state = "queued"
ReadyCapture(j) == row[j].state = "queued" \/ Expired(j)
ReadyLoad(j)    == row[j].state \in {"queued", "retry_wait"} \/ Expired(j)

CaptureCandidates == {j \in Jobs : IsCapture(j) /\ EpochOf(j) = epoch /\ ReadyCapture(j)}
LoadCandidates    == {j \in Jobs : ~IsCapture(j) /\ EpochOf(j) = epoch /\ ReadyLoad(j)}

(* What the claim of a candidate checks of the rows it rests on, and       *)
(* throws on, taking every other candidate of the transaction with it.     *)
validAdmission(j) == Subject(j) \in associations /\ JobRoot(j) # NoRoot
verifyParents(j) ==
  /\ CaptureFor(j) \in associations
  /\ JobRoot(j) # NoRoot
  /\ validByteParent(CaptureFor(j), JobRoot(j))

OutOfAttempts(j) == row[j].attempts >= MaxAttempts
Exhausted(j)     == OutOfAttempts(j) /\ row[j].state = "leased"

Exhaust(r) == [r EXCEPT !.state = "failed", !.live = FALSE, !.code = "exhausted"]
Lease(r)   == [r EXCEPT !.state = "leased", !.attempts = @ + 1, !.live = TRUE,
                        !.code = "none"]

LiveLeases(queue) == {j \in Jobs : Subject(j) \in queue /\ Live(j)}
SameService(j, k) == ServiceOf[CaptureFor(j)] = ServiceOf[CaptureFor(k)]
SameEnvironment(j, k) == EnvironmentOf[CaptureFor(j)] = EnvironmentOf[CaptureFor(k)]

BugCaptureCapacity(j) ==                   \* leases of other epochs not counted
  {k \in LiveLeases(Captures) : SameService(j, k) /\ EpochOf(k) = epoch} = {}
CaptureCapacity(j) == {k \in LiveLeases(Captures) : SameService(j, k)} = {}
LoadCapacity(j) ==
  {k \in LiveLeases(Loads) : SameService(j, k) /\ SameEnvironment(j, k)} = {}

(* The claim visits permitted candidates: the ones out of attempts fail,   *)
(* the first other one of a service with a free place is leased, if any.   *)
WithClaimed(gone, taken) ==
  [j \in Jobs |-> CASE j \in gone  -> Exhaust(row[j])
                    [] j \in taken -> Lease(row[j])
                    [] OTHER       -> row[j]]

Claimed(j) == [pc |-> IF IsCapture(j) THEN "leased" ELSE "verifying", job |-> j,
               attempt |-> row[j].attempts + 1, lost |-> FALSE, digest |-> None]

claimCapture(s) ==
  /\ session[s].pc = "idle"
  /\ Cardinality(LiveLeases(Captures)) < MaxLeases
  /\ \E gone \in SUBSET {j \in CaptureCandidates : Exhausted(j)} :
       /\ \A j \in gone : validAdmission(j)
       /\ \/ /\ row' = WithClaimed(gone, {}) /\ gone # {}
             /\ UNCHANGED session
          \/ \E j \in CaptureCandidates :
               /\ ~OutOfAttempts(j) /\ validAdmission(j) /\ CaptureCapacity(j)
               /\ row' = WithClaimed(gone, {j})
               /\ session' = [session EXCEPT ![s] = Claimed(j)]
  /\ UNCHANGED <<epoch, associations, receipt>>

claimLoad(s) ==
  /\ session[s].pc = "idle"
  /\ Cardinality(LiveLeases(Loads)) < MaxLeases
  /\ \E gone \in SUBSET {j \in LoadCandidates : Exhausted(j)} :
       /\ \A j \in gone : verifyParents(j)
       /\ \/ /\ row' = WithClaimed(gone, {}) /\ gone # {}
             /\ UNCHANGED session
          \/ \E j \in LoadCandidates :
               /\ ~OutOfAttempts(j) /\ verifyParents(j) /\ LoadCapacity(j)
               /\ row' = WithClaimed(gone, {j})
               /\ session' = [session EXCEPT ![s] = Claimed(j)]
  /\ UNCHANGED <<epoch, associations, receipt>>

(* The session's own lease, live, of a job of the active configuration.    *)
HoldsLease(s) ==
  /\ Live(session[s].job)
  /\ row[session[s].job].attempts = session[s].attempt
BugauthorizedBinding(s) == HoldsLease(s)   \* the epoch not compared
authorizedBinding(s) == EpochOf(session[s].job) = epoch /\ HoldsLease(s)

heartbeat(s) ==
  LET j == session[s].job IN
  /\ session[s].pc = "verifying" /\ ~session[s].lost
  /\ \/ /\ authorizedBinding(s)
        /\ row' = [row EXCEPT ![j].live = TRUE]
        /\ UNCHANGED session
     \/ /\ session' = [session EXCEPT ![s].lost = TRUE]   \* refused or no answer
        /\ UNCHANGED row
  /\ UNCHANGED <<epoch, associations, receipt>>

Expire(j) ==
  /\ Live(j)
  /\ row' = [row EXCEPT ![j].live = FALSE]
  /\ UNCHANGED <<epoch, associations, receipt, session>>

-----------------------------------------------------------------------------
(* The runners.                                                            *)

Capturing(s) == session[s].job # None /\ IsCapture(session[s].job)
Loading(s)   == session[s].job # None /\ ~IsCapture(session[s].job)
Leave(s)     == session' = [session EXCEPT ![s] = Idle]
GoTo(s, pc)  == session' = [session EXCEPT ![s].pc = pc]

(* The capture runner binds the job in a transaction of its own before it  *)
(* calls the verifier.                                                     *)
bindCapture(s) ==
  /\ session[s].pc = "leased"
  /\ IF authorizedBinding(s) THEN GoTo(s, "verifying") ELSE Leave(s)
  /\ UNCHANGED <<epoch, associations, receipt, row>>

(* The host's verifier answers, outside any transaction.  A failure that   *)
(* is not the verifier's verdict leaves a capture's lease to expire; a     *)
(* load (whose verifier also has a deadline) records it for a retry.       *)
Verdicts(s) == {"verified", "refused"} \cup (IF Loading(s) THEN {"transient"} ELSE {"idle"})
verifierAnswers(s) ==
  /\ session[s].pc = "verifying"
  /\ IF session[s].lost THEN Leave(s)
     ELSE \E verdict \in Verdicts(s) :
            IF verdict = "idle" THEN Leave(s)
            ELSE \E d \in Digests :
                   session' = [session EXCEPT ![s].pc = verdict,
                     ![s].digest = IF verdict = "verified" THEN d ELSE None]
  /\ UNCHANGED <<epoch, associations, receipt, row>>

Produced(s) == [root |-> JobRoot(session[s].job), digest |-> session[s].digest]
BugAgrees(s) == TRUE                      \* ON CONFLICT DO NOTHING, unread
Agrees(s)   == receipt[Subject(session[s].job)] \in {None, Produced(s)}
Succeed(r, d) == [r EXCEPT !.state = "succeeded", !.live = FALSE, !.code = "none",
                           !.digest = d]

(* The receipt is inserted unless one is there, and the job succeeds with  *)
(* it, in one transaction.                                                 *)
WriteReceipt(s) ==
  LET j == session[s].job IN
  /\ receipt' = [receipt EXCEPT ![Subject(j)] = IF @ = None THEN Produced(s) ELSE @]
  /\ row' = [row EXCEPT ![j] = Succeed(@, session[s].digest)]

appendCapture(s) ==
  /\ session[s].pc = "verified" /\ Capturing(s)
  /\ \/ /\ authorizedBinding(s) /\ Agrees(s)
        /\ WriteReceipt(s)
        /\ Leave(s)
     \/ /\ authorizedBinding(s) /\ ~Agrees(s)       \* CAPTURE_VERIFICATION_CONFLICT
        /\ GoTo(s, "refused")
        /\ UNCHANGED <<receipt, row>>
     \/ /\ ~authorizedBinding(s)
        /\ Leave(s)
        /\ UNCHANGED <<receipt, row>>
  /\ UNCHANGED <<epoch, associations>>

(* The rows of the capture are read again in the transaction.  A storage   *)
(* error may hide a commit that took place: the runner then tries to       *)
(* record a failure it must not be able to record.                         *)
appendLoad(s) ==
  /\ session[s].pc = "verified" /\ Loading(s)
  /\ \/ /\ authorizedBinding(s) /\ verifyParents(session[s].job) /\ Agrees(s)
        /\ WriteReceipt(s)
        /\ Leave(s) \/ GoTo(s, "transient")
     \/ /\ GoTo(s, "transient")                     \* rolled back
        /\ UNCHANGED <<receipt, row>>
     \/ /\ ~(authorizedBinding(s) /\ verifyParents(session[s].job) /\ Agrees(s))
        /\ Leave(s)                                 \* lease_lost
        /\ UNCHANGED <<receipt, row>>
  /\ UNCHANGED <<epoch, associations>>

Refuse(r) == [r EXCEPT !.state = "failed", !.live = FALSE, !.code = "unverified"]
Retry(r)  == [r EXCEPT !.state = "retry_wait", !.live = FALSE, !.code = "transient"]
GiveUp(r) == [r EXCEPT !.state = "failed", !.live = FALSE, !.code = "transient"]

terminalFailure(s) ==
  LET j == session[s].job IN
  /\ session[s].pc = "refused" /\ Capturing(s)
  /\ IF authorizedBinding(s) THEN row' = [row EXCEPT ![j] = Refuse(@)]
                             ELSE UNCHANGED row
  /\ Leave(s)
  /\ UNCHANGED <<epoch, associations, receipt>>

BugFailure(s) == IF session[s].pc = "refused" THEN Refuse(row[session[s].job])
                 ELSE IF session[s].attempt > MaxAttempts THEN GiveUp(row[session[s].job])
                 ELSE Retry(row[session[s].job])
Failure(s) == IF session[s].pc = "refused" THEN Refuse(row[session[s].job])
              ELSE IF session[s].attempt >= MaxAttempts THEN GiveUp(row[session[s].job])
              ELSE Retry(row[session[s].job])

recordFailure(s) ==
  LET j == session[s].job IN
  /\ session[s].pc \in {"refused", "transient"} /\ Loading(s)
  /\ IF authorizedBinding(s) /\ verifyParents(j)
       THEN row' = [row EXCEPT ![j] = Failure(s)]
       ELSE UNCHANGED row
  /\ Leave(s)
  /\ UNCHANGED <<epoch, associations, receipt>>

(* A refused authorisation, a storage error or the death of the process.   *)
Abandon(s) ==
  /\ session[s].pc # "idle"
  /\ Leave(s)
  /\ UNCHANGED <<epoch, associations, receipt, row>>

-----------------------------------------------------------------------------
(* Maintenance: a bounded batch of the jobs of other epochs is cancelled;  *)
(* candidates that are locked or not permitted are passed over.            *)

Superseded(queue) ==
  {j \in Jobs : Subject(j) \in queue /\ Unfinished(j) /\ EpochOf(j) # epoch}
Cancel(r) == [r EXCEPT !.state = "cancelled", !.live = FALSE, !.code = "superseded",
                       !.digest = None]
WithCancelled(batch) ==
  row' = [j \in Jobs |-> IF j \in batch THEN Cancel(row[j]) ELSE row[j]]

cancelSupersededCaptures(batch) ==
  /\ epoch > 0
  /\ batch \subseteq Superseded(Captures) /\ Cardinality(batch) \in 1 .. BatchSize
  /\ WithCancelled(batch)
  /\ UNCHANGED <<epoch, associations, receipt, session>>

cancelSupersededLoads(batch) ==
  /\ epoch > 0
  /\ batch \subseteq Superseded(Loads) /\ Cardinality(batch) \in 1 .. BatchSize
  /\ WithCancelled(batch)
  /\ UNCHANGED <<epoch, associations, receipt, session>>

-----------------------------------------------------------------------------
SessionStep(s) ==
  \/ bindCapture(s)
  \/ verifierAnswers(s)
  \/ appendCapture(s)
  \/ appendLoad(s)
  \/ terminalFailure(s)
  \/ recordFailure(s)

Next ==
  \/ ActivateConfiguration
  \/ \E c \in Captures : AppendAssociation(c) \/ AdmitCapture(c)
  \/ \E l \in Loads : AdmitLoad(l)
  \/ \E s \in Sessions : \/ claimCapture(s) \/ claimLoad(s)
                         \/ heartbeat(s)
                         \/ SessionStep(s)
                         \/ Abandon(s)
  \/ \E j \in Jobs : Expire(j)
  \/ \E batch \in SUBSET Jobs : \/ cancelSupersededCaptures(batch)
                                \/ cancelSupersededLoads(batch)

Spec == Init /\ [][Next]_vars

(* Fairness: runners poll, the host's verifier answers, maintenance runs,  *)
(* a lease that is not renewed runs out.  A claim takes the oldest         *)
(* permitted candidate, each of which is claimed at most MaxAttempts       *)
(* times, so that a job that is claimable again and again is claimed.      *)
Settles(j) == row'[j] # row[j]
FairSpec ==
  /\ Spec
  /\ \A s \in Sessions : WF_vars(SessionStep(s))
  /\ \A j \in Jobs :
       /\ WF_vars(Expire(j))
       /\ SF_vars((\E s \in Sessions : claimCapture(s) \/ claimLoad(s)) /\ Settles(j))
       /\ WF_vars((\E batch \in SUBSET Jobs : \/ cancelSupersededCaptures(batch)
                                             \/ cancelSupersededLoads(batch)) /\ Settles(j))

-----------------------------------------------------------------------------
(* Properties.                                                             *)

(* Rows keep their types, within the attempts the tables admit.            *)
(* claimOne never has more than MaxLeases live leases of a queue out, nor  *)
(* two in one service (of one environment, for loads), whatever expires,   *)
(* is renewed or is claimed again, and the queue keeps to its quota.       *)
WithinLimits ==
  /\ TypeOK
  /\ \A queue \in {Captures, Loads} :
       /\ Cardinality(LiveLeases(queue)) <= MaxLeases
       /\ \A j, k \in LiveLeases(queue) :
            (queue = Captures \/ SameEnvironment(j, k)) /\ SameService(j, k) => j = k
       /\ Cardinality({j \in Jobs : Subject(j) \in queue /\ Unfinished(j)}) <= MaxQueued

(* claimOne throws, and with it everything the claim did for the others is *)
(* rolled back, when a candidate's parent rows do not match or when a job  *)
(* that is not leased has no attempt left.  No admitted job ever becomes   *)
(* such a candidate.                                                       *)
ClaimIsNeverBlocked ==
  /\ \A j \in CaptureCandidates : validAdmission(j) /\ (OutOfAttempts(j) => Exhausted(j))
  /\ \A j \in LoadCandidates : verifyParents(j) /\ (OutOfAttempts(j) => Exhausted(j))

(* A succeeded job points at the receipt of its subject, taken at the root *)
(* its own configuration gives the service.                                *)
SuccessHasItsReceipt ==
  \A j \in Jobs : row[j].state = "succeeded" =>
    receipt[Subject(j)] = [root |-> JobRoot(j), digest |-> row[j].digest]

(* Work of another configuration is only ever given up: once its epoch has *)
(* passed, a job may lose its lease or be cancelled and nothing else, even *)
(* with a verifier that answers after the activation.                      *)
SupersededOnlyCancelled ==
  [][\A j \in Jobs : EpochOf(j) # epoch =>
       \/ row'[j] = row[j]
       \/ row'[j] = [row[j] EXCEPT !.live = FALSE]
       \/ row'[j].state = "cancelled" /\ Unfinished(j)]_vars

(* Receipts: what the readers of the two tables are promised.              *)
ReceiptBook == INSTANCE VerificationReceipts WITH NoReceipt <- None
ImplementsReceipts == ReceiptBook!Spec

(* Every admitted job comes to an end, whatever fails on the way: attempts *)
(* run out, a refusal is recorded, or the configuration moves on.          *)
AdmittedJobsSettle ==
  \A j \in Jobs : (row[j].state # "absent") ~> (row[j].state \in TerminalStates)
=============================================================================
