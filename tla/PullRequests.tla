---------------------------- MODULE PullRequests ----------------------------
(***************************************************************************)
(* How packages/orchestration follows one pull request of a service:       *)
(* events and exact reconciliation move the pull request checkpoint        *)
(* (schedulePullRequest of scheduler.ts, reconciliation.ts), which points  *)
(* at one job, a preview analysis or a reconciliation.  Every action is    *)
(* one transaction under the tenant's configuration lock; jobs are named   *)
(* by their generation as in BranchTracking, and the baseline a preview    *)
(* waits for is JobQueue's.                                                *)
(*                                                                         *)
(* history[n] is the pull request after its n-th change: open at a head    *)
(* revision, closed (or merged), or open against a base branch the service *)
(* does not list.  An event may come late, out of order, more than once    *)
(* under new identities, or never.                                         *)
(***************************************************************************)
EXTENDS Checkpoints, Sequences

CONSTANTS
  Heads,          \* revisions of the head branch
  Configs,        \* registered configurations, each of which lists the service
  MaxChanges,     \* bound on the changes of the pull request
  MaxPreviews,    \* bound on analysis_generation
  MaxScans        \* bound on reconciliation_generation

VARIABLES
  orders,     \* do events, and does the exact observer, carry sequences?
  history,   \* the states the pull request went through
  accepted,   \* the provider states of which an event was taken
  active,     \* orchestration_active_configurations.config_fingerprint
  pr,         \* the row of orchestration_pr_checkpoints
  preview,    \* preview[g]: the pr_preview_analysis job of generation g
  scan        \* scan[g]: the pr_reconciliation job of generation g

pullVars == <<orders, history, accepted, active, pr, preview, scan>>

Changes  == 1..MaxChanges
Previews == 1..MaxPreviews
Scans    == 1..MaxScans

(* The observer of the configured base branch refuses a pull request that  *)
(* is open elsewhere (observedPullRequest).                                *)
Followed(n) == history[n] # "elsewhere"
Terminal(n) == history[n] = "closed"

NoJob     == [kind |-> "none", g |-> None]
NoPreview == [state |-> "none", config |-> "none", head |-> "none"]
NoScan    == [state |-> "none", config |-> "none", observed |-> None]

-----------------------------------------------------------------------------
(* The job the checkpoint points at is superseded or cancelled: stageCancel*)
(* and stageSupersede differ in the flag they set, not told apart here.    *)
Stoppable == /\ pr.job.kind = "preview" => Movable(preview, pr.job.g)
             /\ pr.job.kind = "scan"    => Movable(scan, pr.job.g)
StoppedPreviews ==
  IF pr.job.kind = "preview" THEN Stop(preview, pr.job.g) ELSE preview
StoppedScans == IF pr.job.kind = "scan" THEN Stop(scan, pr.job.g) ELSE scan

(* The update becomes the checkpoint: an open pull request gets a preview  *)
(* pinned to its head, a closed one is left without a job.                 *)
NextPreview(evidence) ==
  [state |-> "queued", config |-> active, head |-> history[evidence.n]]
applyUpdate(evidence) ==
  LET g == pr.generation + 1
      next == [pr EXCEPT !.state = history[evidence.n], !.evidence = evidence,
                 !.generation = g, !.request = NoEvidence]
  IN  /\ g \in Previews
      /\ \/ /\ Terminal(evidence.n)
            /\ pr' = [next EXCEPT !.job = NoJob, !.outcome = "cancelled"]
            /\ preview' = StoppedPreviews
         \/ /\ ~Terminal(evidence.n)
            /\ pr' = [next EXCEPT !.job = [kind |-> "preview", g |-> g], !.outcome = "queued"]
            /\ preview' = [StoppedPreviews EXCEPT ![g] = NextPreview(evidence)]

(* What cannot be compared asks the provider: the request is kept until an *)
(* update is applied.                                                      *)
requestScan(evidence) ==
  LET g == pr.scans + 1 IN
  /\ Stoppable /\ g \in Scans
  /\ preview' = StoppedPreviews
  /\ scan' = [StoppedScans EXCEPT ![g] =
       [state |-> "queued", config |-> active, observed |-> None]]
  /\ pr' = [pr EXCEPT !.state = IF @ = "none" THEN "pending" ELSE @,
       !.scans = g, !.job = [kind |-> "scan", g |-> g], !.request = evidence,
       !.outcome = "queued"]

(* The reconciliation an earlier request asked for is still to answer.     *)
Coalesced == pr.job.kind = "scan" /\ Unfinished(scan[pr.job.g])
Repeated(evidence) ==
  /\ pr.request # NoEvidence
  /\ classifyProviderUpdate(pr.request, evidence) = "exact_replay"

(* schedulePullRequest, of an event about a followed base branch.          *)
schedulePullRequest(evidence) ==
  LET class == classifyProviderUpdate(pr.evidence, evidence) IN
  \/ /\ \/ Repeated(evidence) /\ Coalesced
        \/ ~Repeated(evidence) /\ class \in {"stale", "exact_replay"}
     /\ UNCHANGED <<pr, preview, scan>>
  \/ /\ \/ Repeated(evidence) /\ ~Coalesced
        \/ ~Repeated(evidence) /\ class = "incomparable"
     /\ requestScan(evidence)
  \/ /\ ~Repeated(evidence) /\ class \in {"first", "newer"}
     /\ Stoppable /\ scan' = StoppedScans
     /\ applyUpdate(evidence)

-----------------------------------------------------------------------------
ProviderChange(state) ==
  /\ Len(history) < MaxChanges
  /\ history' = Append(history, state)
  /\ UNCHANGED <<orders, accepted, active, pr, preview, scan>>

(* pull_request.updated, through ingestEvent and scheduleEventTargets.     *)
IngestPullRequest(n) ==
  /\ n \in DOMAIN history
  /\ \/ /\ ~Followed(n)
        /\ UNCHANGED <<accepted, pr, preview, scan>>
     \/ /\ Followed(n)
        /\ accepted' = accepted \cup {n}
        /\ schedulePullRequest([n |-> n, ordered |-> orders.event])
  /\ UNCHANGED <<orders, history, active>>

(* scheduleConfigurationTransition asks for reconciliations of branches    *)
(* only: the pull request loses its job and keeps its request.             *)
ActivateConfiguration(c) ==
  /\ c # active /\ Stoppable
  /\ active' = c
  /\ preview' = StoppedPreviews /\ scan' = StoppedScans
  /\ pr' = IF pr.state = "none" THEN pr
           ELSE [pr EXCEPT !.job = NoJob, !.outcome = "cancelled"]
  /\ UNCHANGED <<orders, history, accepted>>

(* cancelJob, by an operator, of the job at hand.                          *)
BugCancelForgets ==
  /\ pr.job # NoJob /\ Stoppable
  /\ IF pr.job.kind = "preview" THEN Unfinished(preview[pr.job.g])
                                ELSE Unfinished(scan[pr.job.g])
  /\ preview' = StoppedPreviews /\ scan' = StoppedScans
  /\ pr' = [pr EXCEPT !.job = NoJob, !.request = NoEvidence, !.outcome = "cancelled"]
  /\ UNCHANGED <<orders, history, accepted, active>>
CancelCurrent ==
  /\ pr.job # NoJob /\ Stoppable
  /\ IF pr.job.kind = "preview" THEN Unfinished(preview[pr.job.g])
                                ELSE Unfinished(scan[pr.job.g])
  /\ preview' = StoppedPreviews /\ scan' = StoppedScans
  /\ pr' = [pr EXCEPT !.job = NoJob, !.outcome = "cancelled"]
  /\ UNCHANGED <<orders, history, accepted, active>>

-----------------------------------------------------------------------------
(* Workers.  updateCheckpointState reports the state of the current job.   *)
Report(kind, g, state) ==
  IF pr.job = [kind |-> kind, g |-> g] THEN [pr EXCEPT !.outcome = Outcome(state)]
  ELSE pr

ClaimPreview(g) ==
  /\ preview[g].state \in WaitingStates
  /\ preview' = [preview EXCEPT ![g].state = "leased"]
  /\ pr' = Report("preview", g, "leased")
  /\ UNCHANGED <<orders, history, accepted, active, scan>>
ClaimScan(g) ==
  /\ scan[g].state \in WaitingStates
  /\ scan' = [scan EXCEPT ![g] = [@ EXCEPT !.state = "leased", !.observed = None]]
  /\ pr' = Report("scan", g, "leased")
  /\ UNCHANGED <<orders, history, accepted, active, preview>>

EndPreview(g) ==
  /\ Held(preview[g])
  /\ \E state \in Ends(preview[g].state) :
       /\ preview' = [preview EXCEPT ![g].state = state]
       /\ pr' = Report("preview", g, state)
  /\ UNCHANGED <<orders, history, accepted, active, scan>>
EndScan(g) ==
  /\ Held(scan[g])
  /\ \E state \in Ends(scan[g].state) :
       /\ scan' = [scan EXCEPT ![g].state = state]
       /\ pr' = Report("scan", g, state)
  /\ UNCHANGED <<orders, history, accepted, active, preview>>

(* The completion of a preview: what the checkpoint wants is still what    *)
(* the job was pinned to.  The checkpoint's outcome is left as it is.      *)
PreviewCurrent(g) ==
  /\ pr.job = [kind |-> "preview", g |-> g]
  /\ pr.generation = g
  /\ pr.state = preview[g].head
  /\ preview[g].config = active
CompletePreview(g) ==
  /\ preview[g].state = "leased" /\ PreviewCurrent(g)
  /\ preview' = [preview EXCEPT ![g].state = "succeeded"]
  /\ pr' = [pr EXCEPT !.result = g]
  /\ UNCHANGED <<orders, history, accepted, active, scan>>

(* Exact reconciliation: observed outside of any transaction.              *)
CurrentScan(g) ==
  /\ scan[g].state = "leased" /\ scan[g].config = active
  /\ pr.job = [kind |-> "scan", g |-> g] /\ pr.scans = g
Observe(g) ==
  /\ CurrentScan(g) /\ scan[g].observed = None
  /\ history # <<>> /\ Followed(Len(history))
  /\ scan' = [scan EXCEPT ![g].observed = Len(history)]
  /\ UNCHANGED <<orders, history, accepted, active, pr, preview>>

(* An observation may renew what it cannot be compared with, but it may    *)
(* open a closed pull request only when it is known to be newer.           *)
Admissible(evidence) ==
  pr.state # "pending" =>
    LET class == classifyProviderUpdate(pr.evidence, evidence) IN
    /\ class # "stale"
    /\ ~Terminal(evidence.n) /\ pr.state = "closed" => class = "newer"
CompleteScan(g) ==
  LET evidence == [n |-> scan[g].observed, ordered |-> orders.scan]
  IN  /\ CurrentScan(g) /\ evidence.n # None /\ Admissible(evidence)
      /\ applyUpdate(evidence)
      /\ scan' = [scan EXCEPT ![g].state = "succeeded"]
      /\ UNCHANGED <<orders, history, accepted, active>>

-----------------------------------------------------------------------------
PullInit ==
  /\ orders \in [event : BOOLEAN, scan : BOOLEAN]
  /\ history = <<>> /\ accepted = {}
  /\ active \in Configs
  /\ pr = [state |-> "none", evidence |-> NoEvidence, generation |-> 0, scans |-> 0,
           job |-> NoJob, request |-> NoEvidence, outcome |-> "none", result |-> None]
  /\ preview = [g \in Previews |-> NoPreview]
  /\ scan = [g \in Scans |-> NoScan]

PullNext ==
  \/ \E state \in Heads \cup {"closed", "elsewhere"} : ProviderChange(state)
  \/ \E n \in Changes : IngestPullRequest(n)
  \/ \E c \in Configs : ActivateConfiguration(c)
  \/ CancelCurrent
  \/ \E g \in Previews : ClaimPreview(g) \/ EndPreview(g) \/ CompletePreview(g)
  \/ \E g \in Scans : ClaimScan(g) \/ EndScan(g) \/ Observe(g) \/ CompleteScan(g)

PullSpec == PullInit /\ [][PullNext]_pullVars

-----------------------------------------------------------------------------
(* Properties.                                                             *)

(* What schedulePullRequest accepted is not forgotten: the checkpoint has  *)
(* it or something newer, or the request to ask the provider stands, and   *)
(* no preview is made beside such a request.                               *)
UpdateRemembered ==
  /\ \A n \in accepted : pr.evidence.n >= n \/ pr.request # NoEvidence
  /\ pr.request # NoEvidence => pr.job.kind # "preview"

(* A job that runs or waits unstopped is the one the checkpoint points at, *)
(* under the active configuration, and a preview is of the open head; the  *)
(* last preview result is of a head the pull request really had.           *)
OnlyWantedWorkRuns ==
  /\ \A g \in Previews : preview[g].state \in WaitingStates \cup {"leased"} =>
       /\ pr.job = [kind |-> "preview", g |-> g]
       /\ preview[g].head = pr.state /\ preview[g].config = active
  /\ \A g \in Scans : scan[g].state \in WaitingStates \cup {"leased"} =>
       pr.job = [kind |-> "scan", g |-> g] /\ scan[g].config = active
  /\ pr.result # None => /\ preview[pr.result].state = "succeeded"
                         /\ \E n \in DOMAIN history : history[n] = preview[pr.result].head

(* What schedulePullRequest accepted is in the checkpoint or still asked   *)
(* of the provider, and only the job the checkpoint points at waits or     *)
(* runs.                                                                   *)
PullRequestIsFollowed == UpdateRemembered /\ OnlyWantedWorkRuns

(* No late event and no observation made before a later update takes the   *)
(* checkpoint back to an older state of the pull request.                  *)
PullRequestMovesForward == [][pr'.evidence.n >= pr.evidence.n]_pullVars
=============================================================================
