--------------------------- MODULE BranchTracking ---------------------------
(***************************************************************************)
(* How packages/orchestration follows one configured branch of a service:  *)
(* events and exact reconciliation move the branch checkpoint              *)
(* (scheduler.ts, reconciliation.ts, ordering.ts), the checkpoint pins one *)
(* analysis job, and its completion promotes a snapshot to the catalog's   *)
(* branch pointer (execution.ts, packages/catalog).  Every action is one   *)
(* transaction under the tenant's configuration lock.                      *)
(*                                                                         *)
(* The provider is a sequence of states: provider[n] is what the branch    *)
(* was after its n-th change.  Evidence tells the truth about one of them: *)
(* its n is the provider reference and, where the evidence is ordered, the *)
(* sequence number.  A job is named by its generation; JobQueue has the    *)
(* queue in detail, and its attempts and clock are left out here: a lease  *)
(* may expire, and an attempt be the last, at any time.                    *)
(*                                                                         *)
(* A definition Bug... precedes the one it is a faulty variant of and is   *)
(* used by no action.                                                      *)
(***************************************************************************)
EXTENDS Checkpoints, Sequences, FiniteSets

CONSTANTS
  Revisions,     \* immutable revisions of the repository
  Configs,       \* registered configuration fingerprints
  Intended,      \* the configurations whose intended_branches list the branch
  EventOrders,   \* may an event's evidence carry a sequence?  a set of BOOLEANs
  ScanOrders,    \* the same of what the exact reconciler observes
  MaxChanges,    \* bound on the changes of the branch
  MaxAnalyses,   \* bound on analysis_generation
  MaxScans       \* bound on the reconciliation generation

ASSUME BranchAssumption ==
  /\ Intended \subseteq Configs
  /\ EventOrders \subseteq BOOLEAN /\ ScanOrders \subseteq BOOLEAN
  /\ MaxChanges \in Nat /\ MaxAnalyses \in Nat /\ MaxScans \in Nat
  /\ {"absent", "none"} \cap Revisions = {} /\ "none" \notin Configs

VARIABLES
  provider,   \* the states the branch went through
  seen,       \* the provider states whose event was ingested
  active,     \* orchestration_active_configurations.config_fingerprint
  branch,     \* the row of orchestration_branch_checkpoints
  scanning,   \* the row of orchestration_reconciliation_checkpoints
  analysis,   \* analysis[g]: the branch_analysis job of generation g
  scan,       \* scan[g]: the branch_reconciliation job of generation g
  linked,     \* orchestration_revision_snapshots, by revision and config
  pointer     \* the row of catalog_branch_pointers

rows == <<branch, scanning, analysis, scan>>
vars == <<provider, seen, active, branch, scanning, analysis, scan, linked, pointer>>

-----------------------------------------------------------------------------
Changes  == 1..MaxChanges
Analyses == 1..MaxAnalyses
Scans    == 1..MaxScans

(* Evidence about provider state n, with or without a sequence.            *)
Evidence == [n : 0..MaxChanges, ordered : BOOLEAN]

(* A snapshot is what one revision is under one configuration; good is the *)
(* last_successful_* columns of the checkpoint, and base what a worker read*)
(* of them before it analysed, with the version of the pointer.            *)
Snapshots == Revisions \X Configs
NoSnapshot == <<"none", "none">>
NoGood  == [revision |-> "none", snapshot |-> NoSnapshot]
Goods   == {NoGood} \cup [revision : Revisions, snapshot : Snapshots]
NoBase  == [good |-> NoGood, version |-> 0]
NoLink  == [snapshot |-> NoSnapshot, kind |-> "none"]

NoAnalysis == [state |-> "none", revision |-> "none", evidence |-> NoEvidence,
               config |-> "none", read |-> FALSE, base |-> NoBase]
NoScan     == [state |-> "none", config |-> "none", observed |-> None]

-----------------------------------------------------------------------------
Desired(n) == IF provider[n] = "absent" THEN "absent" ELSE "present"

-----------------------------------------------------------------------------
(* scheduleBranch, once the update is accepted: another look at the same   *)
(* target only renews the evidence, absence stops the work, a new target   *)
(* is pinned to a job of the next generation.                              *)
BugSameTarget(n) ==
  /\ branch.desired = Desired(n)
  /\ branch.desired = "present" =>
       branch.job # None /\ analysis[branch.job].config = active
SameSemanticTarget(n) ==
  /\ branch.desired = Desired(n)
  /\ branch.desired = "present" =>
       /\ branch.revision = provider[n]
       /\ branch.job # None
       /\ analysis[branch.job].config = active

scheduleBranch(evidence, forceRepair) ==
  LET n == evidence.n IN
  \/ /\ ~forceRepair /\ SameSemanticTarget(n)
     /\ branch' = [branch EXCEPT !.evidence = evidence]
     /\ UNCHANGED analysis
  \/ /\ forceRepair \/ ~SameSemanticTarget(n)
     /\ Movable(analysis, branch.job)
     /\ IF Desired(n) = "absent"
        THEN /\ analysis' = Stop(analysis, branch.job)
             /\ branch' = [branch EXCEPT !.desired = "absent", !.revision = "none",
                  !.evidence = evidence, !.job = None, !.outcome = "absent"]
        ELSE LET g == branch.generation + 1 IN
             /\ g \in Analyses
             /\ analysis' = [Stop(analysis, branch.job) EXCEPT
                  ![g] = [NoAnalysis EXCEPT !.state = "queued", !.config = active,
                          !.revision = provider[n], !.evidence = evidence]]
             /\ branch' = [branch EXCEPT !.desired = "present",
                  !.revision = provider[n], !.evidence = evidence,
                  !.generation = g, !.job = g, !.outcome = "queued"]

(* scheduleBranchReconciliation: a reconciliation of the same reference    *)
(* that is under way serves this request too.                              *)
scheduleBranchReconciliation(reference) ==
  LET g == scanning.generation + 1
      coalesced == /\ scanning.reference = reference
                   /\ scanning.job # None
                   /\ Unfinished(scan[scanning.job])
  IN  IF coalesced THEN UNCHANGED <<scanning, scan>>
      ELSE /\ Movable(scan, scanning.job)
           /\ g \in Scans
           /\ scan' = [Stop(scan, scanning.job) EXCEPT
                ![g] = [NoScan EXCEPT !.state = "queued", !.config = active]]
           /\ scanning' = [reference |-> reference, generation |-> g, job |-> g,
                           outcome |-> "none", code |-> FALSE]

-----------------------------------------------------------------------------
(* The provider, which lies outside the system, and its events.  Events    *)
(* may come late, out of order or never; ingestEvent drops a redelivery.   *)

Change(state) ==
  /\ Len(provider) < MaxChanges
  /\ provider' = Append(provider, state)
  /\ UNCHANGED <<seen, active, rows, linked, pointer>>

(* branch.updated, through ingestEvent and scheduleEventTargets.           *)
IngestUpdate(n, ordered) ==
  LET evidence == [n |-> n, ordered |-> ordered]
      class == classifyProviderUpdate(branch.evidence, evidence)
  IN  /\ n \in DOMAIN provider /\ n \notin seen
      /\ seen' = seen \cup {n}
      /\ \/ /\ active \notin Intended \/ class \in {"stale", "exact_replay"}
            /\ UNCHANGED rows
         \/ /\ active \in Intended /\ class = "incomparable"
            /\ scheduleBranchReconciliation(n)
            /\ UNCHANGED <<branch, analysis>>
         \/ /\ active \in Intended /\ class \in {"first", "newer"}
            /\ scheduleBranch(evidence, FALSE)
            /\ UNCHANGED <<scanning, scan>>
      /\ UNCHANGED <<provider, active, linked, pointer>>

(* reconciliation.requested, with a reference of its own (0).              *)
RequestScan ==
  /\ active \in Intended
  /\ scheduleBranchReconciliation(0)
  /\ UNCHANGED <<provider, seen, active, branch, analysis, linked, pointer>>

(* scheduleConfigurationTransition: what the branch has under way ends; a  *)
(* configuration that lists the branch asks for a reconciliation, one that *)
(* does not makes the last one obsolete without clearing its error code,   *)
(* which the CHECK of the reconciliation table then refuses.               *)
ActivateConfiguration(c) ==
  /\ c # active
  /\ active' = c
  /\ Movable(analysis, branch.job) /\ Movable(scan, scanning.job)
  /\ analysis' = Stop(analysis, branch.job)
  /\ branch' = IF branch.desired = "none" THEN branch
               ELSE [branch EXCEPT !.job = None, !.outcome = "cancelled"]
  /\ IF c \in Intended
     THEN LET g == scanning.generation + 1 IN
          /\ g \in Scans
          /\ scan' = [Stop(scan, scanning.job) EXCEPT
               ![g] = [NoScan EXCEPT !.state = "queued", !.config = c]]
          /\ scanning' = [reference |-> 0, generation |-> g, job |-> g,
                          outcome |-> "none", code |-> FALSE]
     ELSE /\ scan' = Stop(scan, scanning.job)
          /\ ~scanning.code
          /\ scanning' = IF scanning.generation = 0 THEN scanning
                         ELSE [scanning EXCEPT !.job = None, !.outcome = "obsolete"]
  /\ UNCHANGED <<provider, seen, linked, pointer>>

(* cancelJob, by an operator: the checkpoint forgets the job.              *)
CancelAnalysis(g) ==
  /\ Unfinished(analysis[g]) /\ Movable(analysis, g)
  /\ analysis' = Stop(analysis, g)
  /\ branch' = IF branch.job # g THEN branch
               ELSE [branch EXCEPT !.job = None, !.outcome = "cancelled"]
  /\ UNCHANGED <<provider, seen, active, scanning, scan, linked, pointer>>
CancelScan(g) ==
  /\ Unfinished(scan[g]) /\ Movable(scan, g)
  /\ scan' = Stop(scan, g)
  /\ scanning' = IF scanning.job # g THEN scanning
                 ELSE [scanning EXCEPT !.job = None, !.outcome = "obsolete"]
  /\ UNCHANGED <<provider, seen, active, branch, analysis, linked, pointer>>

-----------------------------------------------------------------------------
(* Workers: claimJobs, expired leases and failed attempts.  Whether this   *)
(* attempt was the last (max_attempts) is not counted here.                *)

Report(g, state) ==
  IF branch.job = g THEN [branch EXCEPT !.outcome = Outcome(state)] ELSE branch

BugClaimQueued(g) ==
  /\ analysis[g].state = "queued"
  /\ analysis' = [analysis EXCEPT ![g].state = "leased"]
  /\ branch' = Report(g, "leased")
  /\ UNCHANGED <<provider, seen, active, scanning, scan, linked, pointer>>
ClaimAnalysis(g) ==
  /\ analysis[g].state \in WaitingStates
  /\ analysis' = [analysis EXCEPT ![g] = [@ EXCEPT
       !.state = "leased", !.read = FALSE, !.base = NoBase]]
  /\ branch' = Report(g, "leased")
  /\ UNCHANGED <<provider, seen, active, scanning, scan, linked, pointer>>
ClaimScan(g) ==
  /\ scan[g].state \in WaitingStates
  /\ scan' = [scan EXCEPT ![g] = [@ EXCEPT !.state = "leased", !.observed = None]]
  /\ UNCHANGED <<provider, seen, active, branch, scanning, analysis, linked, pointer>>

EndAnalysis(g) ==
  /\ Held(analysis[g])
  /\ \E state \in Ends(analysis[g].state) :
       /\ analysis' = [analysis EXCEPT ![g].state = state]
       /\ branch' = Report(g, state)
  /\ UNCHANGED <<provider, seen, active, scanning, scan, linked, pointer>>
EndScan(g) ==
  /\ Held(scan[g])
  /\ \E state \in Ends(scan[g].state) :
       /\ scan' = [scan EXCEPT ![g].state = state]
       /\ scanning' = IF scanning.job = g /\ state = "failed"
                      THEN [scanning EXCEPT !.outcome = "failed", !.code = TRUE]
                      ELSE scanning
  /\ UNCHANGED <<provider, seen, active, branch, analysis, linked, pointer>>

-----------------------------------------------------------------------------
(* Exact reconciliation: the worker asks the provider outside of any       *)
(* transaction, and acts on the answer in a later one.                     *)

CurrentScan(g) ==
  /\ scan[g].state = "leased"
  /\ scan[g].config = active
  /\ scanning.job = g

Observe(g) ==
  /\ CurrentScan(g) /\ scan[g].observed = None
  /\ provider # <<>>
  /\ scan' = [scan EXCEPT ![g].observed = Len(provider)]
  /\ UNCHANGED <<provider, seen, active, branch, scanning, analysis, linked, pointer>>

inProgress == /\ branch.job # None
              /\ analysis[branch.job].config = active
              /\ analysis[branch.job].state \in WaitingStates \cup {"leased"}
fullyPromoted(n) == /\ branch.outcome = "succeeded"
                    /\ branch.good.revision = provider[n]
                    /\ pointer.snapshot = branch.good.snapshot
sameTarget(n) == branch.desired = "present" /\ branch.revision = provider[n]
forceRepair(n) == /\ Desired(n) = "present"
                  /\ ~(sameTarget(n) /\ (inProgress \/ fullyPromoted(n)))

(* scheduleAuthoritativeBranch and finishReconciliation.  An observation   *)
(* that cannot be compared with the checkpoint is taken all the same.      *)
CompleteScan(g, ordered) ==
  LET n == scan[g].observed
      evidence == [n |-> n, ordered |-> ordered]
  IN  /\ CurrentScan(g) /\ n # None
      /\ classifyProviderUpdate(branch.evidence, evidence) # "stale"
      /\ scheduleBranch(evidence, forceRepair(n))
      /\ scan' = [scan EXCEPT ![g].state = "succeeded"]
      /\ scanning' = [scanning EXCEPT !.code = FALSE,
           !.outcome = CASE Desired(n) = "absent" -> "absent"
                         [] forceRepair(n)        -> "repaired"
                         [] OTHER                 -> "no_work"]
      /\ UNCHANGED <<provider, seen, active, linked, pointer>>

-----------------------------------------------------------------------------
(* Branch analysis: the worker reads the base it will update from          *)
(* (baseForBranch), analyses, and completes in a later transaction.        *)

PrepareAnalysis(g) ==
  /\ analysis[g].state = "leased" /\ ~analysis[g].read
  /\ analysis' = [analysis EXCEPT ![g] = [@ EXCEPT !.read = TRUE,
       !.base = IF pointer.version # 0 /\ branch.good.snapshot = pointer.snapshot
                THEN [good |-> branch.good, version |-> pointer.version] ELSE NoBase]]
  /\ UNCHANGED <<provider, seen, active, branch, scanning, scan, linked, pointer>>

(* The checkpoint still wants exactly what the job was pinned to.          *)
Pinned(g) ==
  /\ branch.job = g
  /\ branch.desired = "present"
  /\ branch.revision = analysis[g].revision
  /\ analysis[g].config = active /\ active \in Intended
  /\ isMonotoneProviderConfirmation(analysis[g].evidence, branch.evidence)

BaseUnchanged(g) ==
  analysis[g].base # NoBase =>
    /\ branch.good = analysis[g].base.good
    /\ pointer.snapshot = analysis[g].base.good.snapshot
    /\ pointer.version = analysis[g].base.version

(* The planner may reuse the base where nothing but the revision changed   *)
(* (mayReuse of packages/updates); else the revision is analysed in full.  *)
ResultOf(g, reuse) ==
  IF reuse THEN [snapshot |-> analysis[g].base.good.snapshot, kind |-> "reused"]
  ELSE [snapshot |-> <<analysis[g].revision, analysis[g].config>>, kind |-> "analyzed"]
MayReuse(g) == /\ analysis[g].base # NoBase
               /\ analysis[g].base.good.snapshot[2] = analysis[g].config

(* The association of a revision is immutable: ON CONFLICT DO NOTHING, and *)
(* the stored row must then equal the one at hand.                         *)
Associate(key, link) ==
  /\ linked[key] \in {NoLink, link}
  /\ linked' = [linked EXCEPT ![key] = link]

(* promoteBranch of the catalog, under the branch's pointer lock.  Where   *)
(* both sequences are known only a newer one may move the pointer.         *)
ExactReplay(snapshot) ==
  pointer.snapshot = snapshot /\ pointer.evidence = branch.evidence
PromotionInOrder ==
  pointer.version # 0 /\ pointer.evidence.ordered /\ branch.evidence.ordered
    => branch.evidence.n > pointer.evidence.n
BugPromote(snapshot) ==
  \/ /\ pointer.evidence = branch.evidence
     /\ UNCHANGED pointer
  \/ /\ pointer.evidence # branch.evidence
     /\ PromotionInOrder
     /\ pointer' = [version |-> pointer.version + 1, snapshot |-> snapshot,
                    evidence |-> branch.evidence]
promoteBranch(snapshot) ==
  \/ /\ ExactReplay(snapshot)
     /\ UNCHANGED pointer
  \/ /\ ~ExactReplay(snapshot)
     /\ PromotionInOrder
     /\ pointer' = [version |-> pointer.version + 1, snapshot |-> snapshot,
                    evidence |-> branch.evidence]

CompleteAnalysis(g, reuse) ==
  LET link == ResultOf(g, reuse)
  IN  /\ analysis[g].state = "leased" /\ analysis[g].read
      /\ reuse => MayReuse(g)
      /\ Pinned(g) /\ BaseUnchanged(g)
      /\ Associate(<<analysis[g].revision, analysis[g].config>>, link)
      /\ promoteBranch(link.snapshot)
      /\ analysis' = [analysis EXCEPT ![g].state = "succeeded"]
      /\ branch' = [branch EXCEPT !.outcome = "succeeded",
           !.good = [revision |-> analysis[g].revision, snapshot |-> link.snapshot]]
      /\ UNCHANGED <<provider, seen, active, scanning, scan>>

-----------------------------------------------------------------------------
Init ==
  /\ provider = <<>> /\ seen = {}
  /\ active \in Configs
  /\ branch = [desired |-> "none", revision |-> "none", evidence |-> NoEvidence,
               generation |-> 0, job |-> None, outcome |-> "none", good |-> NoGood]
  /\ scanning = [reference |-> 0, generation |-> 0, job |-> None,
                 outcome |-> "none", code |-> FALSE]
  /\ analysis = [g \in Analyses |-> NoAnalysis]
  /\ scan = [g \in Scans |-> NoScan]
  /\ linked = [key \in Snapshots |-> NoLink]
  /\ pointer = [version |-> 0, snapshot |-> NoSnapshot, evidence |-> NoEvidence]

Next ==
  \/ \E state \in Revisions \cup {"absent"} : Change(state)
  \/ \E n \in Changes, ordered \in EventOrders : IngestUpdate(n, ordered)
  \/ RequestScan
  \/ \E c \in Configs : ActivateConfiguration(c)
  \/ \E g \in Analyses : CancelAnalysis(g) \/ ClaimAnalysis(g) \/ EndAnalysis(g)
                           \/ PrepareAnalysis(g)
  \/ \E g \in Analyses, reuse \in BOOLEAN : CompleteAnalysis(g, reuse)
  \/ \E g \in Scans : CancelScan(g) \/ ClaimScan(g) \/ EndScan(g) \/ Observe(g)
  \/ \E g \in Scans, ordered \in ScanOrders : CompleteScan(g, ordered)

Spec == Init /\ [][Next]_vars

(* Producers redeliver an event until it is accepted, and hosts poll for   *)
(* work.  A job has a bounded number of attempts, so that it cannot refuse *)
(* an event for ever: an event accepted time and again is accepted.        *)
FairSpec ==
  /\ Spec
  /\ \A n \in Changes : SF_vars(\E ordered \in EventOrders : IngestUpdate(n, ordered))
  /\ \A g \in Analyses : WF_vars(ClaimAnalysis(g))

-----------------------------------------------------------------------------
(* Properties.                                                             *)

(* Rows stay in their ranges; those of the migrations' CHECKs among them.  *)
TypeOK ==
  /\ provider \in Seq(Revisions \cup {"absent"}) /\ seen \subseteq DOMAIN provider
  /\ active \in Configs
  /\ branch \in [desired : {"none", "present", "absent"},
                  revision : Revisions \cup {"none"}, evidence : Evidence,
                  generation : 0..MaxAnalyses, job : 0..MaxAnalyses,
                  outcome : {"none", "queued", "leased", "retry_wait", "succeeded",
                             "failed", "cancelled", "absent"},
                  good : Goods]
  /\ scanning \in [reference : 0..MaxChanges, generation : 0..MaxScans,
                    job : 0..MaxScans, code : BOOLEAN,
                    outcome : {"none", "no_work", "repaired", "absent", "obsolete", "failed"}]
  /\ analysis \in [Analyses -> [state : JobStates, revision : Revisions \cup {"none"},
                    evidence : Evidence, config : Configs \cup {"none"}, read : BOOLEAN,
                    base : [good : Goods, version : 0..MaxAnalyses]]]
  /\ scan \in [Scans -> [state : JobStates, config : Configs \cup {"none"},
                         observed : 0..MaxChanges]]
  /\ linked \in [Snapshots -> [snapshot : Snapshots \cup {NoSnapshot},
                               kind : {"none", "analyzed", "reused"}]]
  /\ pointer \in [version : 0..MaxAnalyses, snapshot : Snapshots \cup {NoSnapshot},
                   evidence : Evidence]

(* Six statements write the checkpoint's job, generation, target and       *)
(* outcome apart from the job itself: they never drift from the job.       *)
CheckpointFollowsJob ==
  /\ branch.job # None =>
       /\ branch.job = branch.generation
       /\ branch.desired = "present"
       /\ branch.revision = analysis[branch.job].revision
       /\ branch.outcome = Outcome(analysis[branch.job].state)
  /\ scanning.job # None =>
       /\ scanning.job = scanning.generation
       /\ scanning.code <=> scan[scanning.job].state = "failed"

(* Work that is still wanted is the checkpoint's, of the active            *)
(* configuration: a job nobody looks at any more never keeps running.      *)
OnlyCurrentWorkRuns ==
  /\ \A g \in Analyses : analysis[g].state \in WaitingStates \cup {"leased"} =>
       branch.job = g /\ analysis[g].config = active
  /\ \A g \in Scans : scan[g].state \in WaitingStates \cup {"leased"} =>
       scanning.job = g /\ scan[g].config = active

(* The checkpoint (orchestration) and the branch pointer (catalog) name    *)
(* the same snapshot, associated with the revision it was promoted for.    *)
PointerAgreesWithCheckpoint ==
  /\ pointer.version = 0 <=> branch.good = NoGood
  /\ pointer.snapshot = branch.good.snapshot
  /\ branch.good # NoGood => \E c \in Configs :
       linked[<<branch.good.revision, c>>].snapshot = pointer.snapshot

(* The checkpoint tells the truth about the two records it stands between: *)
(* the job it asked for and the snapshot the catalog serves.               *)
CheckpointAgrees == CheckpointFollowsJob /\ PointerAgreesWithCheckpoint

(* What the checkpoint desires, and what the pointer serves, is what its   *)
(* evidence says of the provider, however late and in whatever order the   *)
(* evidence came.                                                          *)
EvidenceIsTrue ==
  /\ branch.desired # "none" =>
       /\ branch.desired = Desired(branch.evidence.n)
       /\ sameTarget(branch.evidence.n) \/ branch.desired = "absent"
  /\ pointer.version # 0 => branch.good.revision = provider[pointer.evidence.n]

(* With ordered evidence an accepted update is never undone by an older    *)
(* event or an observation made before it.                                 *)
NoUpdateIsUndone == \A n \in seen : branch.evidence.n >= n

(* Every change of the branch reaches the checkpoint, or a newer one does. *)
CheckpointCatchesUp ==
  \A n \in Changes : Len(provider) = n ~> branch.evidence.n >= n

(* README.md of the package, lines 35-36: configuration changes cancel     *)
(* obsolete work.  Nothing but a job that cannot be moved (see JobQueue)   *)
(* should keep a registered configuration from becoming active.            *)
ActivationIsNeverBlocked ==
  \A c \in Configs \ {active} :
    /\ Movable(analysis, branch.job) /\ Movable(scan, scanning.job)
    /\ c \in Intended => scanning.generation < MaxScans
    => ENABLED ActivateConfiguration(c)

(* docs/NODEJS_ANALYZER_BACKLOG.md, lines 102-103: configuration changes   *)
(* force reanalysis.  A full analysis of what the checkpoint still wants   *)
(* is published.                                                           *)
EligibleAnalysisIsPublished ==
  \A g \in Analyses :
    analysis[g].state = "leased" /\ analysis[g].read /\ Pinned(g) /\ BaseUnchanged(g)
      => ENABLED CompleteAnalysis(g, FALSE)

(* README.md of the package, lines 26-27: an unchanged target may reuse an *)
(* existing snapshot.                                                      *)
UnchangedTargetMayReuse ==
  \A g \in Analyses :
    /\ analysis[g].state = "leased" /\ Pinned(g) /\ BaseUnchanged(g) /\ MayReuse(g)
    /\ PromotionInOrder
    => ENABLED CompleteAnalysis(g, TRUE)
=============================================================================
