------------------------- MODULE PullRequestsProofs -------------------------
(***************************************************************************)
(* What PullRequests promises, for any heads, configurations and bounds.   *)
(* The argument: evidence that cannot be compared leaves a request behind, *)
(* and the request goes only with an update that covers all that was       *)
(* accepted.  The update of an event does, because it is newer than what   *)
(* the checkpoint has (NoRequestWhenOrdered); the update of an observation *)
(* does, because any event accepted since either tells no more than was    *)
(* observed or takes the job away (ObservationCovers).                     *)
(***************************************************************************)
EXTENDS PullRequests, TLAPS

(* The states of a checkpoint that never had an update are no revisions.   *)
HeadsAreRevisions == Heads \cap {"none", "pending"} = {}

ProviderStates == Heads \cup {"closed", "elsewhere"}
Evidence == [n : Nat, ordered : BOOLEAN]
Jobs == {NoJob} \cup [kind : {"preview"}, g : Previews] \cup [kind : {"scan"}, g : Scans]
CheckpointRows ==
  [state : ProviderStates \cup {"none", "pending"}, evidence : Evidence,
   generation : Nat, scans : Nat, job : Jobs, request : Evidence,
   outcome : JobStates \cup {"cancelled"}, result : Nat]
PreviewRows ==
  [state : JobStates, config : Configs \cup {"none"}, head : ProviderStates \cup {"none", "pending"}]
ScanRows == [state : JobStates, config : Configs \cup {"none"}, observed : Nat]

WorldInv ==
  /\ orders \in [event : BOOLEAN, scan : BOOLEAN]
  /\ history \in Seq(ProviderStates)
  /\ accepted \subseteq DOMAIN history
  /\ active \in Configs

TypeOK ==
  /\ WorldInv
  /\ pr \in CheckpointRows
  /\ preview \in [Previews -> PreviewRows]
  /\ scan \in [Scans -> ScanRows]

(* The checkpoint tells what its evidence says, and points at the newest   *)
(* job of a kind.                                                          *)
CheckpointTells ==
  /\ pr.evidence.n # None => /\ pr.evidence.n \in DOMAIN history
                             /\ pr.state = history[pr.evidence.n]
  /\ pr.request.n # None => pr.request.n \in DOMAIN history
  /\ pr.state = "none" => pr.job = NoJob
  /\ pr.job.kind = "preview" => pr.evidence.n # None /\ pr.job.g = pr.generation

(* A provider that orders its events is never asked.                       *)
NoRequestWhenOrdered ==
  orders.event =>
    /\ pr.request = NoEvidence
    /\ pr.evidence.n # None => pr.evidence.ordered
    /\ pr.job.kind # "scan"

WantedStates == WaitingStates \cup {"leased"}

PreviewInv ==
  /\ \A g \in Previews : preview[g].state \in WantedStates =>
       /\ pr.job = [kind |-> "preview", g |-> g]
       /\ preview[g].head = pr.state /\ preview[g].config = active
  /\ pr.result # None =>
       /\ pr.result \in Previews /\ pr.result <= pr.generation
       /\ preview[pr.result].state = "succeeded"
       /\ \E n \in DOMAIN history : history[n] = preview[pr.result].head

ScanInv ==
  \A g \in Scans : scan[g].state \in WantedStates =>
    pr.job = [kind |-> "scan", g |-> g] /\ scan[g].config = active

(* What a reconciliation under way observed covers what was accepted, also *)
(* since.                                                                  *)
ObservationCovers ==
  \A g \in Scans : scan[g].state = "leased" /\ scan[g].observed # None =>
    /\ scan[g].observed \in DOMAIN history
    /\ \A n \in accepted \cup {pr.evidence.n, pr.request.n} : n <= scan[g].observed

PullInv ==
  /\ TypeOK /\ CheckpointTells /\ NoRequestWhenOrdered
  /\ PreviewInv /\ ScanInv /\ ObservationCovers /\ UpdateRemembered

-----------------------------------------------------------------------------
(* Jobs that are stopped.                                                  *)

LEMMA StateFacts ==
  /\ WaitingStates = {"queued", "retry_wait", "coded"}
  /\ WantedStates = {"queued", "retry_wait", "coded", "leased"}
  /\ JobStates = {"queued", "retry_wait", "coded", "none", "leased", "stopping",
                  "succeeded", "failed", "stopped"}
  /\ \A s \in JobStates :
       /\ StopState(s) \in JobStates /\ StopState(s) \notin WantedStates
       /\ s = "succeeded" => StopState(s) = "succeeded"
       /\ Outcome(s) \in JobStates
BY DEF WaitingStates, WantedStates, JobStates, StopState, Outcome

LEMMA FunctionWrite ==
  ASSUME NEW A, NEW B, NEW f \in [A -> B], NEW a \in A, NEW b \in B
  PROVE  /\ [f EXCEPT ![a] = b] \in [A -> B]
         /\ \A h \in A : [f EXCEPT ![a] = b][h] = IF h = a THEN b ELSE f[h]
OBVIOUS

LEMMA JobsTyped ==
  ASSUME pr.job \in Jobs
  PROVE  /\ pr.job.kind = "preview" => pr.job.g \in Previews /\ pr.job.g # None
         /\ pr.job.kind = "scan" => pr.job.g \in Scans /\ pr.job.g # None
         /\ pr.job = [kind |-> pr.job.kind, g |-> pr.job.g]
         /\ pr.job.kind = "none" => pr.job = NoJob
         /\ pr.job.kind \in {"none", "preview", "scan"}
BY DEF Jobs, NoJob, Previews, Scans, None

LEMMA RowWrites ==
  /\ \A r \in PreviewRows : \A s \in JobStates :
       /\ [r EXCEPT !.state = s] \in PreviewRows
       /\ [r EXCEPT !.state = s].state = s
       /\ [r EXCEPT !.state = s].config = r.config
       /\ [r EXCEPT !.state = s].head = r.head
  /\ \A r \in ScanRows : \A s \in JobStates :
       /\ [r EXCEPT !.state = s] \in ScanRows
       /\ [r EXCEPT !.state = s].state = s
       /\ [r EXCEPT !.state = s].config = r.config
       /\ [r EXCEPT !.state = s].observed = r.observed
  /\ \A r \in ScanRows : \A n \in Nat :
       /\ [r EXCEPT !.observed = n] \in ScanRows
       /\ [r EXCEPT !.observed = n].state = r.state
       /\ [r EXCEPT !.observed = n].config = r.config
       /\ [r EXCEPT !.observed = n].observed = n
BY DEF PreviewRows, ScanRows

LEMMA Pointed ==
  /\ PreviewInv => \A h \in Previews : preview[h].state \in WantedStates =>
       pr.job.kind = "preview" /\ pr.job.g = h
  /\ ScanInv => \A h \in Scans : scan[h].state \in WantedStates =>
       pr.job.kind = "scan" /\ pr.job.g = h
<1>1. \A h : /\ [kind |-> "preview", g |-> h].kind = "preview"
             /\ [kind |-> "preview", g |-> h].g = h
             /\ [kind |-> "scan", g |-> h].kind = "scan"
             /\ [kind |-> "scan", g |-> h].g = h
  OBVIOUS
<1> QED
  BY <1>1, Zenon DEF PreviewInv, ScanInv

LEMMA PreviewsStopped ==
  ASSUME TypeOK, PreviewInv
  PROVE  /\ StoppedPreviews \in [Previews -> PreviewRows]
         /\ \A h \in Previews :
              /\ StoppedPreviews[h].state \notin WantedStates
              /\ preview[h].state = "succeeded" => StoppedPreviews[h].state = "succeeded"
              /\ StoppedPreviews[h].head = preview[h].head
              /\ StoppedPreviews[h].config = preview[h].config
<1>1. pr.job \in Jobs /\ preview \in [Previews -> PreviewRows]
  BY DEF TypeOK, CheckpointRows
<1>2. \A h \in Previews : preview[h] \in PreviewRows /\ preview[h].state \in JobStates
  BY <1>1 DEF PreviewRows
<1>3. CASE pr.job.kind # "preview"
  <2>1. \A h \in Previews : preview[h].state \notin WantedStates
    BY <1>3, Pointed
  <2> QED
    BY <1>1, <1>3, <2>1 DEF StoppedPreviews
<1>4. CASE pr.job.kind = "preview"
  <2> DEFINE g == pr.job.g
             row == [preview[g] EXCEPT !.state = StopState(preview[g].state)]
  <2>1. g \in Previews /\ g # None
    BY <1>1, <1>4, JobsTyped
  <2>2. StoppedPreviews = [preview EXCEPT ![g] = row]
    BY <1>4, <2>1 DEF StoppedPreviews, Stop
  <2>3. preview[g] \in PreviewRows /\ StopState(preview[g].state) \in JobStates
    BY <1>2, <2>1, StateFacts
  <2>4. /\ row \in PreviewRows /\ row.state = StopState(preview[g].state)
        /\ row.config = preview[g].config /\ row.head = preview[g].head
    BY <2>3, RowWrites
  <2>5. /\ row.state \notin WantedStates
        /\ preview[g].state = "succeeded" => row.state = "succeeded"
    BY <1>2, <2>1, <2>4, StateFacts
  <2>6. \A h \in Previews : h # g => preview[h].state \notin WantedStates
    BY Pointed
  <2> HIDE DEF g, row
  <2>7. /\ [preview EXCEPT ![g] = row] \in [Previews -> PreviewRows]
        /\ \A h \in Previews :
             [preview EXCEPT ![g] = row][h] = IF h = g THEN row ELSE preview[h]
    BY <1>1, <2>1, <2>4
  <2> QED
    BY <2>2, <2>4, <2>5, <2>6, <2>7
<1> QED
  BY <1>3, <1>4

LEMMA ScansStopped ==
  ASSUME TypeOK, ScanInv
  PROVE  /\ StoppedScans \in [Scans -> ScanRows]
         /\ \A h \in Scans : StoppedScans[h].state \notin WantedStates
<1>1. pr.job \in Jobs /\ scan \in [Scans -> ScanRows]
  BY DEF TypeOK, CheckpointRows
<1>2. \A h \in Scans : scan[h] \in ScanRows /\ scan[h].state \in JobStates
  BY <1>1 DEF ScanRows
<1>3. CASE pr.job.kind # "scan"
  <2>1. \A h \in Scans : scan[h].state \notin WantedStates
    BY <1>3, Pointed
  <2> QED
    BY <1>1, <1>3, <2>1 DEF StoppedScans
<1>4. CASE pr.job.kind = "scan"
  <2> DEFINE g == pr.job.g
             row == [scan[g] EXCEPT !.state = StopState(scan[g].state)]
  <2>1. g \in Scans /\ g # None
    BY <1>1, <1>4, JobsTyped
  <2>2. StoppedScans = [scan EXCEPT ![g] = row]
    BY <1>4, <2>1 DEF StoppedScans, Stop
  <2>3. scan[g] \in ScanRows /\ StopState(scan[g].state) \in JobStates
    BY <1>2, <2>1, StateFacts
  <2>4. row \in ScanRows /\ row.state = StopState(scan[g].state)
    BY <2>3, RowWrites
  <2>5. row.state \notin WantedStates
    BY <1>2, <2>1, <2>4, StateFacts
  <2>6. \A h \in Scans : h # g => scan[h].state \notin WantedStates
    BY Pointed
  <2> HIDE DEF g, row
  <2>7. /\ [scan EXCEPT ![g] = row] \in [Scans -> ScanRows]
        /\ \A h \in Scans : [scan EXCEPT ![g] = row][h] = IF h = g THEN row ELSE scan[h]
    BY <1>1, <2>1, <2>4
  <2> QED
    BY <2>2, <2>5, <2>6, <2>7
<1> QED
  BY <1>3, <1>4

-----------------------------------------------------------------------------
(* An update that tells at least what was accepted.                        *)

AppliedRow(evidence) ==
  [pr EXCEPT !.state = history[evidence.n], !.evidence = evidence,
     !.generation = pr.generation + 1, !.request = NoEvidence]

LEMMA AppliedRowFacts ==
  ASSUME TypeOK, NEW evidence \in Evidence, evidence.n \in DOMAIN history,
         NEW job \in Jobs, NEW outcome \in {"cancelled", "queued"},
         pr' = [AppliedRow(evidence) EXCEPT !.job = job, !.outcome = outcome]
  PROVE  /\ pr' \in CheckpointRows
         /\ pr'.state = history[evidence.n] /\ pr'.evidence = evidence
         /\ pr'.generation = pr.generation + 1 /\ pr'.scans = pr.scans
         /\ pr'.job = job /\ pr'.request = NoEvidence /\ pr'.result = pr.result
<1>1. pr \in CheckpointRows /\ NoEvidence \in Evidence
  BY DEF TypeOK, NoEvidence, Evidence
<1>2. history[evidence.n] \in ProviderStates
  BY DEF TypeOK, WorldInv
<1>3. outcome \in JobStates \cup {"cancelled"}
  BY StateFacts
<1> DEFINE from == history[evidence.n]
<1>0. [pr EXCEPT !.state = from, !.evidence = evidence,
         !.generation = pr.generation + 1, !.request = NoEvidence] \in CheckpointRows
  <2>1. from \in ProviderStates \cup {"none", "pending"} /\ pr.generation + 1 \in Nat
    BY <1>1, <1>2 DEF CheckpointRows
  <2> HIDE DEF from
  <2> QED
    BY <1>1, <2>1 DEF CheckpointRows
<1>4. /\ AppliedRow(evidence) \in CheckpointRows
      /\ AppliedRow(evidence).state = history[evidence.n]
      /\ AppliedRow(evidence).evidence = evidence
      /\ AppliedRow(evidence).generation = pr.generation + 1
      /\ AppliedRow(evidence).scans = pr.scans
      /\ AppliedRow(evidence).request = NoEvidence
      /\ AppliedRow(evidence).result = pr.result
  BY <1>0, <1>1 DEF AppliedRow, CheckpointRows
<1> QED
  BY <1>3, <1>4 DEF CheckpointRows

LEMMA ProviderTyped ==
  ASSUME WorldInv, NEW n \in DOMAIN history
  PROVE  /\ history[n] \in ProviderStates /\ n \in Nat /\ n # None
         /\ HeadsAreRevisions => history[n] # "none"
BY DEF WorldInv, HeadsAreRevisions, ProviderStates, None

LEMMA Applied ==
  ASSUME HeadsAreRevisions, PullInv, NEW evidence \in Evidence,
         evidence.n \in DOMAIN history, orders.event => evidence.ordered,
         applyUpdate(evidence),
         accepted' \subseteq DOMAIN history, \A n \in accepted' : n <= evidence.n,
         UNCHANGED <<orders, history, active>>,
         scan' \in [Scans -> ScanRows], \A h \in Scans : scan'[h].state \notin WantedStates
  PROVE  PullInv'
<1> DEFINE g == pr.generation + 1
<1>1. g \in Previews /\ pr.generation \in Nat /\ pr.result \in Nat
  BY DEF applyUpdate, PullInv, TypeOK, CheckpointRows
<1>2. /\ StoppedPreviews \in [Previews -> PreviewRows]
      /\ \A h \in Previews :
           /\ StoppedPreviews[h].state \notin WantedStates
           /\ preview[h].state = "succeeded" => StoppedPreviews[h].state = "succeeded"
           /\ StoppedPreviews[h].head = preview[h].head
           /\ StoppedPreviews[h].config = preview[h].config
  BY PreviewsStopped DEF PullInv
<1>3. PICK job \in Jobs, outcome \in {"cancelled", "queued"} :
        /\ pr' = [AppliedRow(evidence) EXCEPT !.job = job, !.outcome = outcome]
        /\ \/ job = NoJob /\ preview' = StoppedPreviews
           \/ /\ job = [kind |-> "preview", g |-> g]
              /\ preview' = [StoppedPreviews EXCEPT ![g] = NextPreview(evidence)]
  <2>1. NoJob \in Jobs /\ [kind |-> "preview", g |-> g] \in Jobs
    BY <1>1 DEF Jobs
  <2>2. CASE /\ pr' = [AppliedRow(evidence) EXCEPT !.job = NoJob, !.outcome = "cancelled"]
             /\ preview' = StoppedPreviews
    BY <2>1, <2>2
  <2>3. CASE /\ pr' = [AppliedRow(evidence) EXCEPT !.job = [kind |-> "preview", g |-> g],
                                                   !.outcome = "queued"]
             /\ preview' = [StoppedPreviews EXCEPT ![g] = NextPreview(evidence)]
    BY <2>1, <2>3
  <2> QED
    BY <2>2, <2>3 DEF applyUpdate, AppliedRow
<1>4. /\ pr' \in CheckpointRows
      /\ pr'.state = history[evidence.n] /\ pr'.evidence = evidence
      /\ pr'.generation = g /\ pr'.job = job
      /\ pr'.request = NoEvidence /\ pr'.result = pr.result
  <2>1. TypeOK /\ pr' = [AppliedRow(evidence) EXCEPT !.job = job, !.outcome = outcome]
    BY <1>3 DEF PullInv
  <2> QED
    BY <2>1, AppliedRowFacts
<1>5. /\ history[evidence.n] \in ProviderStates /\ evidence.n # None
      /\ history[evidence.n] # "none"
  BY ProviderTyped DEF PullInv, TypeOK
<1>6. NextPreview(evidence) \in PreviewRows
  BY <1>5, StateFacts DEF NextPreview, PreviewRows, PullInv, TypeOK, WorldInv
<1>7. /\ preview' \in [Previews -> PreviewRows]
      /\ \A h \in Previews :
           \/ preview'[h] = StoppedPreviews[h]
           \/ h = g /\ job = [kind |-> "preview", g |-> g] /\ preview'[h] = NextPreview(evidence)
      /\ \A h \in Previews : h # g => preview'[h] = StoppedPreviews[h]
  <2>1. CASE job = NoJob /\ preview' = StoppedPreviews
    BY <1>2, <2>1
  <2>2. CASE /\ job = [kind |-> "preview", g |-> g]
             /\ preview' = [StoppedPreviews EXCEPT ![g] = NextPreview(evidence)]
    BY <1>1, <1>2, <1>6, <2>2
  <2> QED
    BY <1>3, <2>1, <2>2
<1>8. TypeOK'
  BY <1>4, <1>7 DEF PullInv, TypeOK, WorldInv
<1>9. CheckpointTells'
  BY <1>3, <1>4, <1>5 DEF CheckpointTells, NoJob, NoEvidence, None
<1>10. NoRequestWhenOrdered'
  BY <1>3, <1>4 DEF NoRequestWhenOrdered, NoJob
<1>11. PreviewInv'
  <2>1. ASSUME NEW h \in Previews, preview'[h].state \in WantedStates
        PROVE  /\ pr'.job = [kind |-> "preview", g |-> h]
               /\ preview'[h].head = pr'.state /\ preview'[h].config = active'
    <3>1. h = g /\ job = [kind |-> "preview", g |-> g] /\ preview'[h] = NextPreview(evidence)
      BY <1>2, <1>7, <2>1
    <3> QED
      BY <1>4, <3>1 DEF NextPreview
  <2>2. ASSUME pr'.result # None
        PROVE  /\ pr'.result \in Previews /\ pr'.result <= pr'.generation
               /\ preview'[pr'.result].state = "succeeded"
               /\ \E n \in DOMAIN history' : history'[n] = preview'[pr'.result].head
    <3>1. /\ pr.result \in Previews /\ pr.result <= pr.generation
          /\ preview[pr.result].state = "succeeded"
          /\ \E n \in DOMAIN history : history[n] = preview[pr.result].head
      BY <1>4, <2>2 DEF PullInv, PreviewInv
    <3>2. preview'[pr.result] = StoppedPreviews[pr.result]
      BY <1>1, <1>7, <3>1
    <3> QED
      BY <1>1, <1>2, <1>4, <3>1, <3>2
  <2> QED
    BY <2>1, <2>2 DEF PreviewInv
<1>12. ScanInv' /\ ObservationCovers'
  BY StateFacts DEF ScanInv, ObservationCovers
<1>13. UpdateRemembered'
  <2>1. \A n \in accepted' : evidence.n >= n
    BY DEF PullInv, TypeOK, WorldInv, Evidence
  <2> QED
    BY <1>4, <2>1 DEF UpdateRemembered
<1> QED
  BY <1>8, <1>9, <1>10, <1>11, <1>12, <1>13 DEF PullInv

-----------------------------------------------------------------------------
(* A reconciliation that is asked for.                                     *)

LEMMA RequestedRowFacts ==
  ASSUME TypeOK, NEW evidence \in Evidence, NEW g \in Scans, g = pr.scans + 1,
         pr' = [pr EXCEPT !.state = IF pr.state = "none" THEN "pending" ELSE pr.state,
                  !.scans = g, !.job = [kind |-> "scan", g |-> g], !.request = evidence,
                  !.outcome = "queued"]
  PROVE  /\ pr' \in CheckpointRows
         /\ pr'.state = IF pr.state = "none" THEN "pending" ELSE pr.state
         /\ pr'.evidence = pr.evidence /\ pr'.generation = pr.generation
         /\ pr'.job = [kind |-> "scan", g |-> g]
         /\ pr'.request = evidence /\ pr'.result = pr.result
<1>1. pr \in CheckpointRows /\ g \in Nat
  BY DEF TypeOK, CheckpointRows, Scans
<1>2. [kind |-> "scan", g |-> g] \in Jobs /\ "queued" \in JobStates \cup {"cancelled"}
  BY StateFacts DEF Jobs
<1> DEFINE state == IF pr.state = "none" THEN "pending" ELSE pr.state
<1>3. state \in ProviderStates \cup {"none", "pending"}
  BY <1>1 DEF CheckpointRows
<1>4. pr' = [pr EXCEPT !.state = state, !.scans = g, !.job = [kind |-> "scan", g |-> g],
                       !.request = evidence, !.outcome = "queued"]
  OBVIOUS
<1> HIDE DEF state
<1>5. /\ pr' \in CheckpointRows
      /\ pr'.state = state
      /\ pr'.evidence = pr.evidence /\ pr'.generation = pr.generation
      /\ pr'.job = [kind |-> "scan", g |-> g]
      /\ pr'.request = evidence /\ pr'.result = pr.result
  BY <1>1, <1>2, <1>3, <1>4 DEF CheckpointRows
<1> QED
  BY <1>5 DEF state

LEMMA NewScan ==
  ASSUME TypeOK
  PROVE  /\ [state |-> "queued", config |-> active, observed |-> None] \in ScanRows
         /\ [state |-> "queued", config |-> active, observed |-> None].state = "queued"
         /\ [state |-> "queued", config |-> active, observed |-> None].config = active
BY StateFacts DEF ScanRows, TypeOK, WorldInv, None

(* No job waits or runs, and the last result is what it was.               *)
LEMMA PreviewsQuiet ==
  ASSUME PullInv, preview' = StoppedPreviews, UNCHANGED history,
         pr'.result = pr.result, pr'.generation = pr.generation
  PROVE  PreviewInv' /\ preview' \in [Previews -> PreviewRows]
<1>1. /\ StoppedPreviews \in [Previews -> PreviewRows]
      /\ \A h \in Previews :
           /\ StoppedPreviews[h].state \notin WantedStates
           /\ preview[h].state = "succeeded" => StoppedPreviews[h].state = "succeeded"
           /\ StoppedPreviews[h].head = preview[h].head
  BY PreviewsStopped DEF PullInv
<1>2. pr.result # None =>
        /\ pr.result \in Previews /\ pr.result <= pr.generation
        /\ preview[pr.result].state = "succeeded"
        /\ \E n \in DOMAIN history : history[n] = preview[pr.result].head
  BY DEF PullInv, PreviewInv
<1> QED
  BY <1>1, <1>2 DEF PreviewInv

LEMMA Requested ==
  ASSUME HeadsAreRevisions, PullInv, NEW evidence \in Evidence,
         evidence.n \in DOMAIN history, ~orders.event,
         requestScan(evidence),
         accepted' \subseteq DOMAIN history, UNCHANGED <<orders, history, active>>
  PROVE  PullInv'
<1> DEFINE g == pr.scans + 1
           row == [state |-> "queued", config |-> active, observed |-> None]
<1>1. /\ g \in Scans /\ preview' = StoppedPreviews
      /\ scan' = [StoppedScans EXCEPT ![g] = row]
      /\ pr' = [pr EXCEPT !.state = IF pr.state = "none" THEN "pending" ELSE pr.state,
                  !.scans = g, !.job = [kind |-> "scan", g |-> g], !.request = evidence,
                  !.outcome = "queued"]
  BY DEF requestScan
<1>2. /\ pr' \in CheckpointRows
      /\ pr'.state = IF pr.state = "none" THEN "pending" ELSE pr.state
      /\ pr'.evidence = pr.evidence /\ pr'.generation = pr.generation
      /\ pr'.job = [kind |-> "scan", g |-> g]
      /\ pr'.request = evidence /\ pr'.result = pr.result
  <2>1. TypeOK
    BY DEF PullInv
  <2> QED
    BY <1>1, <2>1, RequestedRowFacts
<1>3. /\ StoppedScans \in [Scans -> ScanRows]
      /\ \A h \in Scans : StoppedScans[h].state \notin WantedStates
  BY ScansStopped DEF PullInv
<1>4. row \in ScanRows /\ row.state = "queued" /\ row.config = active
  BY NewScan DEF PullInv
<1> HIDE DEF row
<1>5. /\ scan' \in [Scans -> ScanRows]
      /\ \A h \in Scans : scan'[h] = IF h = g THEN row ELSE StoppedScans[h]
  BY <1>1, <1>3, <1>4
<1>6. PreviewInv' /\ preview' \in [Previews -> PreviewRows]
  BY <1>1, <1>2, PreviewsQuiet
<1>7. TypeOK'
  BY <1>2, <1>5, <1>6 DEF PullInv, TypeOK, WorldInv
<1>8. evidence.n \in Nat /\ evidence.n # None
  BY ProviderTyped DEF PullInv, TypeOK
<1>9. CheckpointTells'
  <2>1. CheckpointTells
    BY DEF PullInv
  <2>2. pr.evidence.n # None => pr.state # "none"
    BY <2>1, ProviderTyped DEF CheckpointTells, PullInv, TypeOK
  <2>3. pr'.state # "none" /\ pr'.job.kind = "scan"
    BY <1>2
  <2> QED
    BY <1>2, <2>1, <2>2, <2>3 DEF CheckpointTells
<1>10. NoRequestWhenOrdered'
  BY DEF NoRequestWhenOrdered
<1>11. ScanInv'
  BY <1>2, <1>3, <1>4, <1>5 DEF ScanInv
<1>12. ObservationCovers'
  BY <1>3, <1>4, <1>5, StateFacts DEF ObservationCovers
<1>13. UpdateRemembered'
  BY <1>2, <1>8 DEF UpdateRemembered, NoEvidence, None
<1> QED
  BY <1>6, <1>7, <1>9, <1>10, <1>11, <1>12, <1>13 DEF PullInv

-----------------------------------------------------------------------------
(* An event.                                                               *)

LEMMA Classified ==
  ASSUME NEW current \in Evidence, NEW next \in Evidence
  PROVE  LET class == classifyProviderUpdate(current, next) IN
         /\ class \in {"first", "newer", "stale", "exact_replay", "incomparable"}
         /\ class = "first" => current.n = None /\ next.ordered
         /\ class = "newer" => next.n > current.n /\ next.ordered
         /\ class \in {"stale", "exact_replay"} => next.n <= current.n
         /\ class = "incomparable" => ~next.ordered \/ (current.n # None /\ ~current.ordered)
BY DEF classifyProviderUpdate, Evidence, None

LEMMA Accepted ==
  ASSUME PullInv, NEW n \in DOMAIN history, accepted' = accepted \cup {n},
         \/ n <= pr.evidence.n
         \/ pr.request # NoEvidence /\ n <= pr.request.n,
         UNCHANGED <<orders, history, active, pr, preview, scan>>
  PROVE  PullInv'
<1>1. /\ n \in Nat /\ pr.evidence.n \in Nat /\ pr.request.n \in Nat
      /\ DOMAIN history \subseteq Nat
  BY DEF PullInv, TypeOK, WorldInv, CheckpointRows, Evidence
<1>2. TypeOK' /\ CheckpointTells' /\ NoRequestWhenOrdered' /\ PreviewInv' /\ ScanInv'
  BY DEF PullInv, TypeOK, WorldInv, CheckpointTells, NoRequestWhenOrdered, PreviewInv, ScanInv
<1>3. ObservationCovers'
  <2>1. ASSUME NEW g \in Scans, scan[g].state = "leased", scan[g].observed # None
        PROVE  /\ scan[g].observed \in DOMAIN history
               /\ \A m \in accepted \cup {n, pr.evidence.n, pr.request.n} : m <= scan[g].observed
    <3>1. /\ scan[g].observed \in DOMAIN history
          /\ \A m \in accepted \cup {pr.evidence.n, pr.request.n} : m <= scan[g].observed
      BY <2>1 DEF PullInv, ObservationCovers
    <3>2. n <= scan[g].observed
      BY <1>1, <3>1
    <3> QED
      BY <3>1, <3>2
  <2> QED
    BY <2>1 DEF ObservationCovers
<1>4. UpdateRemembered'
  BY <1>1 DEF PullInv, UpdateRemembered
<1> QED
  BY <1>2, <1>3, <1>4 DEF PullInv

LEMMA IngestStep ==
  ASSUME HeadsAreRevisions, PullInv, NEW n \in Changes, IngestPullRequest(n)
  PROVE  PullInv'
<1>1. n \in DOMAIN history /\ UNCHANGED <<orders, history, active>>
  BY DEF IngestPullRequest
<1>2. CASE UNCHANGED <<accepted, pr, preview, scan>>
  BY <1>1, <1>2 DEF PullInv, TypeOK, WorldInv, CheckpointTells, NoRequestWhenOrdered,
     PreviewInv, ScanInv, ObservationCovers, UpdateRemembered
<1>3. CASE /\ accepted' = accepted \cup {n}
           /\ schedulePullRequest([n |-> n, ordered |-> orders.event])
  <2> DEFINE evidence == [n |-> n, ordered |-> orders.event]
             class == classifyProviderUpdate(pr.evidence, evidence)
  <2>1. /\ evidence \in Evidence /\ evidence.n = n /\ evidence.ordered = orders.event
        /\ pr.evidence \in Evidence /\ pr.request \in Evidence
        /\ DOMAIN history \subseteq Nat
    BY DEF PullInv, TypeOK, WorldInv, CheckpointRows, Evidence, Changes
  <2>2. accepted' \subseteq DOMAIN history
    BY <1>1, <1>3 DEF PullInv, TypeOK, WorldInv
  <2>3. schedulePullRequest(evidence)
    BY <1>3
  <2>4. Repeated(evidence) => pr.request # NoEvidence /\ evidence.n <= pr.request.n
    <3> HIDE DEF evidence
    <3> QED
      BY <2>1, Classified DEF Repeated
  <2>5. /\ class \in {"first", "newer", "stale", "exact_replay", "incomparable"}
        /\ class = "first" => pr.evidence.n = None /\ evidence.ordered
        /\ class = "newer" => evidence.n > pr.evidence.n /\ evidence.ordered
        /\ class \in {"stale", "exact_replay"} => evidence.n <= pr.evidence.n
        /\ class = "incomparable" =>
             ~evidence.ordered \/ (pr.evidence.n # None /\ ~pr.evidence.ordered)
    <3> HIDE DEF evidence
    <3> QED
      BY <2>1, Classified
  <2> HIDE DEF evidence, class
  <2>6. CASE /\ Repeated(evidence) \/ class \in {"stale", "exact_replay"}
             /\ UNCHANGED <<pr, preview, scan>>
    BY <1>1, <1>3, <2>1, <2>4, <2>5, <2>6, Accepted
  <2>7. CASE /\ Repeated(evidence) \/ class = "incomparable"
             /\ requestScan(evidence)
    <3>1. ~orders.event
      BY <2>1, <2>4, <2>5, <2>7 DEF PullInv, NoRequestWhenOrdered
    <3> QED
      BY <1>1, <2>1, <2>2, <2>7, <3>1, Requested
  <2>8. CASE /\ class \in {"first", "newer"} /\ scan' = StoppedScans
             /\ applyUpdate(evidence)
    <3>1. orders.event
      BY <2>1, <2>5, <2>8
    <3>2. \A m \in accepted : m <= pr.evidence.n
      BY <2>1, <3>1 DEF PullInv, NoRequestWhenOrdered, UpdateRemembered, TypeOK, WorldInv
    <3>3. pr.evidence.n <= evidence.n
      BY <1>1, <2>1, <2>5, <2>8 DEF None, Evidence
    <3>4. \A m \in accepted' : m <= evidence.n
      BY <1>1, <1>3, <2>1, <3>2, <3>3 DEF Evidence, PullInv, TypeOK, WorldInv
    <3>5. scan' \in [Scans -> ScanRows] /\ \A h \in Scans : scan'[h].state \notin WantedStates
      BY <2>8, ScansStopped DEF PullInv
    <3>6. orders.event => evidence.ordered
      BY <2>5, <2>8
    <3> QED
      BY <1>1, <2>1, <2>2, <2>8, <3>4, <3>5, <3>6, Applied
  <2> QED
    BY <2>3, <2>6, <2>7, <2>8 DEF schedulePullRequest, class
<1> QED
  BY <1>2, <1>3 DEF IngestPullRequest

-----------------------------------------------------------------------------
(* The job of the checkpoint is taken away, and the request stays.         *)

LEMMA Dropped ==
  ASSUME PullInv, preview' = StoppedPreviews, scan' = StoppedScans,
         pr' = [pr EXCEPT !.job = NoJob, !.outcome = "cancelled"],
         active' \in Configs, UNCHANGED <<orders, history, accepted>>
  PROVE  PullInv'
<1>1. pr \in CheckpointRows /\ NoJob \in Jobs
  BY DEF PullInv, TypeOK, Jobs
<1>2. /\ pr' \in CheckpointRows /\ pr'.job = NoJob
      /\ pr'.state = pr.state /\ pr'.evidence = pr.evidence /\ pr'.request = pr.request
      /\ pr'.generation = pr.generation /\ pr'.result = pr.result
  BY <1>1 DEF CheckpointRows
<1>3. PreviewInv' /\ preview' \in [Previews -> PreviewRows]
  BY <1>2, PreviewsQuiet
<1>4. /\ scan' \in [Scans -> ScanRows]
      /\ \A h \in Scans : scan'[h].state \notin WantedStates
  BY ScansStopped DEF PullInv
<1>5. TypeOK'
  BY <1>2, <1>3, <1>4 DEF PullInv, TypeOK, WorldInv
<1>6. CheckpointTells' /\ NoRequestWhenOrdered' /\ UpdateRemembered'
  BY <1>2 DEF PullInv, CheckpointTells, NoRequestWhenOrdered, UpdateRemembered, NoJob
<1>7. ScanInv' /\ ObservationCovers'
  BY <1>4, StateFacts DEF ScanInv, ObservationCovers
<1> QED
  BY <1>3, <1>5, <1>6, <1>7 DEF PullInv

LEMMA ActivateStep ==
  ASSUME PullInv, NEW c \in Configs, ActivateConfiguration(c)
  PROVE  PullInv'
<1>1. /\ active' \in Configs /\ preview' = StoppedPreviews /\ scan' = StoppedScans
      /\ UNCHANGED <<orders, history, accepted>>
  BY DEF ActivateConfiguration
<1>2. CASE pr.state = "none"
  <2>1. pr.job = NoJob /\ pr' = pr
    BY <1>2 DEF ActivateConfiguration, PullInv, CheckpointTells
  <2>2. pr.job.kind = "none"
    BY <2>1 DEF NoJob
  <2>3. PreviewInv' /\ preview' \in [Previews -> PreviewRows]
    BY <1>1, <2>1, PreviewsQuiet
  <2>4. /\ scan' \in [Scans -> ScanRows]
        /\ \A h \in Scans : scan'[h].state \notin WantedStates
    BY <1>1, ScansStopped DEF PullInv
  <2>5. TypeOK'
    BY <1>1, <2>1, <2>3, <2>4 DEF PullInv, TypeOK, WorldInv
  <2>6. CheckpointTells' /\ NoRequestWhenOrdered' /\ UpdateRemembered'
    BY <1>1, <2>1 DEF PullInv, CheckpointTells, NoRequestWhenOrdered, UpdateRemembered
  <2>7. ScanInv' /\ ObservationCovers'
    BY <2>4, StateFacts DEF ScanInv, ObservationCovers
  <2> QED
    BY <2>3, <2>5, <2>6, <2>7 DEF PullInv
<1>3. CASE pr.state # "none"
  BY <1>1, <1>3, Dropped DEF ActivateConfiguration
<1> QED
  BY <1>2, <1>3

LEMMA CancelStep ==
  ASSUME PullInv, CancelCurrent
  PROVE  PullInv'
BY Dropped DEF CancelCurrent, PullInv, TypeOK, WorldInv

-----------------------------------------------------------------------------
(* Workers.                                                                *)

(* What a report leaves alone.                                             *)
SameCheckpoint ==
  /\ pr' \in CheckpointRows
  /\ pr'.state = pr.state /\ pr'.evidence = pr.evidence /\ pr'.request = pr.request
  /\ pr'.generation = pr.generation /\ pr'.job = pr.job

LEMMA Reported ==
  ASSUME TypeOK, NEW kind, NEW g, NEW state \in JobStates, pr' = Report(kind, g, state)
  PROVE  SameCheckpoint /\ pr'.result = pr.result
<1>1. pr \in CheckpointRows /\ Outcome(state) \in JobStates \cup {"cancelled"}
  BY StateFacts DEF TypeOK
<1>2. CASE pr' = pr
  BY <1>1, <1>2 DEF SameCheckpoint
<1>3. CASE pr' = [pr EXCEPT !.outcome = Outcome(state)]
  BY <1>1, <1>3 DEF SameCheckpoint, CheckpointRows
<1> QED
  BY <1>2, <1>3 DEF Report

LEMMA PreviewStep ==
  ASSUME PullInv, SameCheckpoint, NEW g \in Previews, NEW state \in JobStates,
         preview' = [preview EXCEPT ![g].state = state],
         state \in WantedStates => preview[g].state \in WantedStates,
         \/ pr'.result = pr.result /\ preview[g].state # "succeeded"
         \/ /\ pr'.result = g /\ g <= pr.generation /\ state = "succeeded"
            /\ \E n \in DOMAIN history : history[n] = preview[g].head,
         UNCHANGED <<orders, history, accepted, active, scan>>
  PROVE  PullInv'
<1> DEFINE row == [preview[g] EXCEPT !.state = state]
<1>1. preview \in [Previews -> PreviewRows] /\ preview[g] \in PreviewRows
  BY DEF PullInv, TypeOK
<1>2. /\ row \in PreviewRows /\ row.state = state
      /\ row.config = preview[g].config /\ row.head = preview[g].head
  BY <1>1, RowWrites
<1>3. preview' = [preview EXCEPT ![g] = row]
  OBVIOUS
<1> HIDE DEF row
<1>4. /\ preview' \in [Previews -> PreviewRows]
      /\ \A h \in Previews : preview'[h] = IF h = g THEN row ELSE preview[h]
  BY <1>1, <1>2, <1>3
<1>5. TypeOK'
  BY <1>4 DEF SameCheckpoint, PullInv, TypeOK, WorldInv
<1>6. CheckpointTells' /\ NoRequestWhenOrdered' /\ UpdateRemembered' /\ ScanInv'
  BY DEF SameCheckpoint, PullInv, CheckpointTells, NoRequestWhenOrdered, UpdateRemembered, ScanInv
<1>7. ObservationCovers'
  BY DEF SameCheckpoint, PullInv, ObservationCovers
<1>8. PreviewInv'
  <2>1. ASSUME NEW h \in Previews, preview'[h].state \in WantedStates
        PROVE  /\ pr'.job = [kind |-> "preview", g |-> h]
               /\ preview'[h].head = pr'.state /\ preview'[h].config = active'
    <3>1. /\ preview[h].state \in WantedStates
          /\ preview'[h].head = preview[h].head /\ preview'[h].config = preview[h].config
      BY <1>2, <1>4, <2>1
    <3> QED
      BY <3>1 DEF SameCheckpoint, PullInv, PreviewInv
  <2>2. ASSUME pr'.result # None
        PROVE  /\ pr'.result \in Previews /\ pr'.result <= pr'.generation
               /\ preview'[pr'.result].state = "succeeded"
               /\ \E n \in DOMAIN history' : history'[n] = preview'[pr'.result].head
    <3>1. CASE pr'.result = pr.result /\ preview[g].state # "succeeded"
      <4>1. /\ pr.result \in Previews /\ pr.result <= pr.generation
            /\ preview[pr.result].state = "succeeded"
            /\ \E n \in DOMAIN history : history[n] = preview[pr.result].head
        BY <2>2, <3>1 DEF PullInv, PreviewInv
      <4> QED
        BY <1>4, <3>1, <4>1 DEF SameCheckpoint
    <3>2. CASE /\ pr'.result = g /\ g <= pr.generation /\ state = "succeeded"
               /\ \E n \in DOMAIN history : history[n] = preview[g].head
      BY <1>2, <1>4, <3>2 DEF SameCheckpoint
    <3> QED
      BY <3>1, <3>2
  <2> QED
    BY <2>1, <2>2 DEF PreviewInv
<1> QED
  BY <1>5, <1>6, <1>7, <1>8 DEF PullInv

LEMMA ClaimPreviewStep ==
  ASSUME PullInv, NEW g \in Previews, ClaimPreview(g)
  PROVE  PullInv'
<1>1. "leased" \in JobStates /\ preview[g].state \in WantedStates /\ preview[g].state # "succeeded"
  BY StateFacts DEF ClaimPreview
<1>2. SameCheckpoint /\ pr'.result = pr.result
  BY <1>1, Reported DEF ClaimPreview, PullInv
<1> QED
  BY <1>1, <1>2, PreviewStep DEF ClaimPreview

LEMMA EndsFacts ==
  ASSUME NEW state \in {"leased", "stopping"}, NEW end \in Ends(state)
  PROVE  /\ end \in JobStates /\ end # "leased"
         /\ end \in WantedStates => state \in WantedStates
BY StateFacts DEF Ends

LEMMA EndPreviewStep ==
  ASSUME PullInv, NEW g \in Previews, EndPreview(g)
  PROVE  PullInv'
<1>1. PICK state \in Ends(preview[g].state) :
        preview' = [preview EXCEPT ![g].state = state] /\ pr' = Report("preview", g, state)
  BY DEF EndPreview
<1>2. preview[g].state \in {"leased", "stopping"}
  BY DEF EndPreview, Held
<1>3. state \in JobStates /\ (state \in WantedStates => preview[g].state \in WantedStates)
  BY <1>2, EndsFacts
<1>4. SameCheckpoint /\ pr'.result = pr.result
  BY <1>1, <1>3, Reported DEF PullInv
<1> QED
  BY <1>1, <1>2, <1>3, <1>4, PreviewStep DEF EndPreview

LEMMA CompletePreviewStep ==
  ASSUME PullInv, NEW g \in Previews, CompletePreview(g)
  PROVE  PullInv'
<1>1. pr \in CheckpointRows /\ g \in Nat /\ "succeeded" \in JobStates
  BY StateFacts DEF PullInv, TypeOK, Previews
<1>2. pr' = [pr EXCEPT !.result = g] /\ g = pr.generation
  BY DEF CompletePreview, PreviewCurrent
<1>3. SameCheckpoint /\ pr'.result = g
  BY <1>1, <1>2 DEF SameCheckpoint, CheckpointRows
<1>4. pr.job = [kind |-> "preview", g |-> g] /\ preview[g].head = pr.state
  BY DEF CompletePreview, PreviewCurrent
<1>5. pr.job.kind = "preview"
  BY <1>4
<1>6. \E n \in DOMAIN history : history[n] = preview[g].head
  BY <1>4, <1>5 DEF PullInv, CheckpointTells
<1>7. "succeeded" \notin WantedStates /\ g <= pr.generation
  BY <1>1, <1>2, StateFacts
<1> QED
  BY <1>1, <1>3, <1>6, <1>7, PreviewStep DEF CompletePreview

LEMMA ScanStep ==
  ASSUME PullInv, SameCheckpoint, pr'.result = pr.result,
         NEW g \in Scans, NEW row \in ScanRows, scan' = [scan EXCEPT ![g] = row],
         row.config = scan[g].config,
         row.state \in WantedStates => scan[g].state \in WantedStates,
         row.state = "leased" /\ row.observed # None =>
           /\ row.observed \in DOMAIN history
           /\ \A n \in accepted \cup {pr.evidence.n, pr.request.n} : n <= row.observed,
         UNCHANGED <<orders, history, accepted, active, preview>>
  PROVE  PullInv'
<1>1. /\ scan' \in [Scans -> ScanRows]
      /\ \A h \in Scans : scan'[h] = IF h = g THEN row ELSE scan[h]
  BY DEF PullInv, TypeOK
<1>2. TypeOK'
  BY <1>1 DEF SameCheckpoint, PullInv, TypeOK, WorldInv
<1>3. CheckpointTells' /\ NoRequestWhenOrdered' /\ UpdateRemembered'
  BY DEF SameCheckpoint, PullInv, CheckpointTells, NoRequestWhenOrdered, UpdateRemembered
<1>4. PreviewInv'
  BY DEF SameCheckpoint, PullInv, PreviewInv
<1>5. ScanInv'
  BY <1>1 DEF SameCheckpoint, PullInv, ScanInv
<1>6. ObservationCovers'
  BY <1>1 DEF SameCheckpoint, PullInv, ObservationCovers
<1> QED
  BY <1>2, <1>3, <1>4, <1>5, <1>6 DEF PullInv

LEMMA ClaimScanStep ==
  ASSUME PullInv, NEW g \in Scans, ClaimScan(g)
  PROVE  PullInv'
<1>1. scan[g] \in ScanRows /\ "leased" \in JobStates /\ 0 \in Nat
  BY StateFacts DEF PullInv, TypeOK
<1>2. scan[g].state \in WantedStates
  BY StateFacts DEF ClaimScan
<1>3. SameCheckpoint /\ pr'.result = pr.result
  BY <1>1, Reported DEF ClaimScan, PullInv
<1> DEFINE row == [scan[g] EXCEPT !.state = "leased", !.observed = None]
<1>4. row \in ScanRows /\ row.config = scan[g].config /\ row.observed = None
  BY <1>1 DEF ScanRows, None
<1>5. scan' = [scan EXCEPT ![g] = row] /\ UNCHANGED <<orders, history, accepted, active, preview>>
  BY DEF ClaimScan
<1> HIDE DEF row
<1> QED
  BY <1>2, <1>3, <1>4, <1>5, ScanStep

LEMMA EndScanStep ==
  ASSUME PullInv, NEW g \in Scans, EndScan(g)
  PROVE  PullInv'
<1>1. PICK state \in Ends(scan[g].state) :
        scan' = [scan EXCEPT ![g].state = state] /\ pr' = Report("scan", g, state)
  BY DEF EndScan
<1>2. scan[g].state \in {"leased", "stopping"} /\ scan[g] \in ScanRows
  BY DEF EndScan, Held, PullInv, TypeOK
<1>3. /\ state \in JobStates /\ state # "leased"
      /\ state \in WantedStates => scan[g].state \in WantedStates
  BY <1>2, EndsFacts
<1>4. SameCheckpoint /\ pr'.result = pr.result
  BY <1>1, <1>3, Reported DEF PullInv
<1> DEFINE row == [scan[g] EXCEPT !.state = state]
<1>5. row \in ScanRows /\ row.config = scan[g].config /\ row.state = state
  BY <1>2, <1>3, RowWrites
<1>6. scan' = [scan EXCEPT ![g] = row] /\ UNCHANGED <<orders, history, accepted, active, preview>>
  BY <1>1 DEF EndScan
<1> HIDE DEF row
<1> QED
  BY <1>3, <1>4, <1>5, <1>6, ScanStep

LEMMA ObserveStep ==
  ASSUME PullInv, NEW g \in Scans, Observe(g)
  PROVE  PullInv'
<1>1. scan[g] \in ScanRows /\ scan[g].state = "leased"
  BY DEF PullInv, TypeOK, Observe, CurrentScan
<1>2. /\ Len(history) \in DOMAIN history /\ Len(history) \in Nat
      /\ \A n \in DOMAIN history : n \in Nat /\ n <= Len(history)
  BY DEF PullInv, TypeOK, WorldInv, Observe
<1> DEFINE row == [scan[g] EXCEPT !.observed = Len(history)]
<1>3. /\ row \in ScanRows /\ row.config = scan[g].config /\ row.state = scan[g].state
      /\ row.observed = Len(history)
  BY <1>1, <1>2, RowWrites
<1>4. /\ scan' = [scan EXCEPT ![g] = row]
      /\ UNCHANGED <<orders, history, accepted, active, pr, preview>>
  BY DEF Observe
<1>5. SameCheckpoint /\ pr'.result = pr.result
  BY <1>4 DEF SameCheckpoint, PullInv, TypeOK
<1>6. \A n \in accepted \cup {pr.evidence.n, pr.request.n} : n <= Len(history)
  <2>1. pr.evidence.n \in Nat /\ pr.request.n \in Nat
    BY DEF PullInv, TypeOK, CheckpointRows, Evidence
  <2>2. pr.evidence.n <= Len(history) /\ pr.request.n <= Len(history)
    BY <1>2, <2>1 DEF PullInv, CheckpointTells, None
  <2> QED
    BY <1>2, <2>2 DEF PullInv, TypeOK, WorldInv
<1> HIDE DEF row
<1> QED
  BY <1>2, <1>3, <1>4, <1>5, <1>6, ScanStep

LEMMA CompleteScanStep ==
  ASSUME HeadsAreRevisions, PullInv, NEW g \in Scans, CompleteScan(g)
  PROVE  PullInv'
<1> DEFINE evidence == [n |-> scan[g].observed, ordered |-> orders.scan]
           row == [scan[g] EXCEPT !.state = "succeeded"]
<1>1. /\ scan[g] \in ScanRows /\ scan \in [Scans -> ScanRows] /\ scan[g].state = "leased"
      /\ pr.job = [kind |-> "scan", g |-> g] /\ "succeeded" \in JobStates
  BY StateFacts DEF PullInv, TypeOK, CompleteScan, CurrentScan
<1>2. /\ evidence \in Evidence /\ evidence.n = scan[g].observed
      /\ evidence.n # None /\ applyUpdate(evidence)
  BY <1>1 DEF CompleteScan, Evidence, ScanRows, PullInv, TypeOK, WorldInv
<1>3. evidence.n \in DOMAIN history /\ \A n \in accepted : n <= evidence.n
  BY <1>1, <1>2 DEF PullInv, ObservationCovers
<1>4. ~orders.event
  BY <1>1 DEF PullInv, NoRequestWhenOrdered
<1>5. scan' = [scan EXCEPT ![g] = row] /\ UNCHANGED <<orders, history, accepted, active>>
  BY DEF CompleteScan
<1>6. row \in ScanRows /\ row.state = "succeeded"
  BY <1>1, RowWrites
<1>7. \A h \in Scans : h # g => scan[h].state \notin WantedStates
  BY <1>1, Pointed DEF PullInv
<1> HIDE DEF row, evidence
<1>8. scan' \in [Scans -> ScanRows] /\ \A h \in Scans : scan'[h].state \notin WantedStates
  BY <1>1, <1>5, <1>6, <1>7, StateFacts
<1>9. accepted' \subseteq DOMAIN history /\ \A n \in accepted' : n <= evidence.n
  BY <1>3, <1>5 DEF PullInv, TypeOK, WorldInv
<1> QED
  BY <1>2, <1>3, <1>4, <1>5, <1>8, <1>9, Applied

-----------------------------------------------------------------------------
LEMMA ChangeStep ==
  ASSUME PullInv, NEW state \in ProviderStates, ProviderChange(state)
  PROVE  PullInv'
<1>1. /\ history' = Append(history, state) /\ history \in Seq(ProviderStates)
      /\ UNCHANGED <<orders, accepted, active, pr, preview, scan>>
  BY DEF ProviderChange, PullInv, TypeOK, WorldInv
<1>2. /\ history' \in Seq(ProviderStates) /\ DOMAIN history \subseteq DOMAIN history'
      /\ \A n \in DOMAIN history : history'[n] = history[n]
  BY <1>1
<1>3. TypeOK'
  BY <1>1, <1>2 DEF PullInv, TypeOK, WorldInv
<1>4. CheckpointTells' /\ NoRequestWhenOrdered' /\ UpdateRemembered'
  BY <1>1, <1>2 DEF PullInv, CheckpointTells, NoRequestWhenOrdered, UpdateRemembered
<1>5. PreviewInv'
  <2>1. ASSUME NEW n \in DOMAIN history, NEW g \in Previews, history[n] = preview[g].head
        PROVE  \E m \in DOMAIN history' : history'[m] = preview'[g].head
    BY <1>1, <1>2, <2>1
  <2> QED
    BY <1>1, <2>1 DEF PullInv, PreviewInv
<1>6. ScanInv' /\ ObservationCovers'
  BY <1>1, <1>2 DEF PullInv, ScanInv, ObservationCovers
<1> QED
  BY <1>3, <1>4, <1>5, <1>6 DEF PullInv

LEMMA InitInv == PullInit => PullInv
<1> SUFFICES ASSUME PullInit PROVE PullInv
  OBVIOUS
<1>1. /\ NoEvidence \in Evidence /\ NoEvidence.n = None
      /\ NoJob \in Jobs /\ NoJob.kind = "none"
      /\ "none" \in JobStates /\ "none" \notin WantedStates /\ "none" # "leased"
  BY StateFacts DEF NoEvidence, Evidence, NoJob, Jobs, None
<1>2. NoPreview \in PreviewRows /\ NoPreview.state = "none"
  BY <1>1 DEF NoPreview, PreviewRows
<1>3. NoScan \in ScanRows /\ NoScan.state = "none"
  BY <1>1 DEF NoScan, ScanRows, None
<1>4. /\ pr \in CheckpointRows /\ pr.evidence = NoEvidence /\ pr.request = NoEvidence
      /\ pr.job = NoJob /\ pr.result = None
  BY <1>1 DEF PullInit, CheckpointRows, None
<1>5. /\ preview \in [Previews -> PreviewRows] /\ scan \in [Scans -> ScanRows]
      /\ \A g \in Previews : preview[g].state = "none"
      /\ \A g \in Scans : scan[g].state = "none"
  BY <1>2, <1>3 DEF PullInit
<1>6. WorldInv
  BY DEF PullInit, WorldInv
<1>7. TypeOK
  BY <1>4, <1>5, <1>6 DEF TypeOK
<1>8. CheckpointTells /\ NoRequestWhenOrdered
  BY <1>1, <1>4 DEF CheckpointTells, NoRequestWhenOrdered
<1>9. PreviewInv /\ ScanInv /\ ObservationCovers
  BY <1>1, <1>4, <1>5 DEF PreviewInv, ScanInv, ObservationCovers
<1>10. UpdateRemembered
  BY <1>4 DEF PullInit, UpdateRemembered
<1> QED
  BY <1>7, <1>8, <1>9, <1>10 DEF PullInv

LEMMA NextInv == HeadsAreRevisions /\ PullInv /\ [PullNext]_pullVars => PullInv'
<1> SUFFICES ASSUME HeadsAreRevisions, PullInv, [PullNext]_pullVars PROVE PullInv'
  OBVIOUS
<1>1. CASE UNCHANGED pullVars
  BY <1>1 DEF pullVars, PullInv, TypeOK, WorldInv, CheckpointTells, NoRequestWhenOrdered,
     PreviewInv, ScanInv, ObservationCovers, UpdateRemembered
<1>2. CASE \E state \in ProviderStates : ProviderChange(state)
  BY <1>2, ChangeStep
<1>3. CASE \E n \in Changes : IngestPullRequest(n)
  BY <1>3, IngestStep
<1>4. CASE \E c \in Configs : ActivateConfiguration(c)
  BY <1>4, ActivateStep
<1>5. CASE CancelCurrent
  BY <1>5, CancelStep
<1>6. CASE \E g \in Previews : ClaimPreview(g) \/ EndPreview(g) \/ CompletePreview(g)
  BY <1>6, ClaimPreviewStep, EndPreviewStep, CompletePreviewStep
<1>7. CASE \E g \in Scans : ClaimScan(g) \/ EndScan(g) \/ Observe(g) \/ CompleteScan(g)
  BY <1>7, ClaimScanStep, EndScanStep, ObserveStep, CompleteScanStep
<1> QED
  BY <1>1, <1>2, <1>3, <1>4, <1>5, <1>6, <1>7 DEF PullNext, ProviderStates

(* The inductive invariant: schedulePullRequest, reconciliation and the    *)
(* workers keep the checkpoint, its request and its jobs in agreement.     *)
THEOREM PullRequestInvariant == HeadsAreRevisions /\ PullSpec => []PullInv
<1> SUFFICES ASSUME HeadsAreRevisions PROVE PullSpec => []PullInv
  OBVIOUS
<1>1. PullInv /\ [PullNext]_pullVars => PullInv'
  BY NextInv
<1> QED
  BY <1>1, InitInv, PTL DEF PullSpec

(* What schedulePullRequest accepted is in the checkpoint or still asked   *)
(* of the provider, only the job the checkpoint points at waits or runs,   *)
(* and the result shown is a preview of a head the pull request had.       *)
THEOREM PullRequestFollowed == HeadsAreRevisions /\ PullSpec => []PullRequestIsFollowed
<1>1. PullInv => PullRequestIsFollowed
  BY DEF PullInv, PreviewInv, ScanInv, WantedStates, PullRequestIsFollowed, OnlyWantedWorkRuns
<1> QED
  BY <1>1, PullRequestInvariant, PTL

(* schedulePullRequest applies an event only when it is newer, and no      *)
(* reconciliation completes on an observation the checkpoint has passed.   *)
THEOREM PullRequestOnlyForward == HeadsAreRevisions /\ PullSpec => PullRequestMovesForward
<1>1. ASSUME PullInv, [PullNext]_pullVars PROVE [pr'.evidence.n >= pr.evidence.n]_pullVars
  <2>1. /\ pr.evidence.n \in Nat /\ pr.evidence \in Evidence /\ pr \in CheckpointRows
        /\ orders.event \in BOOLEAN
    BY <1>1 DEF PullInv, TypeOK, WorldInv, CheckpointRows, Evidence
  <2>2. ASSUME NEW evidence, applyUpdate(evidence) PROVE pr'.evidence = evidence
    BY <2>1, <2>2 DEF applyUpdate, CheckpointRows
  <2>3. ASSUME NEW n \in Changes, IngestPullRequest(n) PROVE pr'.evidence.n >= pr.evidence.n
    <3> DEFINE evidence == [n |-> n, ordered |-> orders.event]
               class == classifyProviderUpdate(pr.evidence, evidence)
    <3>1. evidence \in Evidence
      BY <2>1 DEF Evidence, Changes
    <3>2. CASE UNCHANGED pr
      BY <2>1, <3>2
    <3>3. CASE requestScan(evidence)
      BY <2>1, <3>3 DEF requestScan, CheckpointRows
    <3>4. CASE class \in {"first", "newer"} /\ applyUpdate(evidence)
      <4> HIDE DEF evidence
      <4>1. evidence.n >= pr.evidence.n
        BY <2>1, <3>1, <3>4, Classified DEF Evidence, None
      <4> QED
        BY <2>2, <3>4, <4>1
    <3> QED
      BY <2>3, <3>2, <3>3, <3>4 DEF IngestPullRequest, schedulePullRequest
  <2>4. ASSUME NEW g \in Scans, CompleteScan(g) PROVE pr'.evidence.n >= pr.evidence.n
    <3> DEFINE evidence == [n |-> scan[g].observed, ordered |-> orders.scan]
    <3>1. /\ scan[g].state = "leased" /\ scan[g].observed # None
          /\ applyUpdate(evidence) /\ scan[g].observed \in Nat
      BY <1>1, <2>4 DEF CompleteScan, CurrentScan, PullInv, TypeOK, ScanRows
    <3>2. pr.evidence.n <= scan[g].observed
      BY <1>1, <3>1 DEF PullInv, ObservationCovers
    <3>3. pr'.evidence = evidence
      BY <2>2, <3>1
    <3> QED
      BY <2>1, <3>1, <3>2, <3>3
  <2>5. ASSUME UNCHANGED pr PROVE pr'.evidence.n >= pr.evidence.n
    BY <2>1, <2>5
  <2>6. ASSUME NEW c \in Configs, ActivateConfiguration(c) PROVE pr'.evidence.n >= pr.evidence.n
    BY <2>1, <2>6 DEF ActivateConfiguration, CheckpointRows
  <2>7. ASSUME CancelCurrent PROVE pr'.evidence.n >= pr.evidence.n
    BY <2>1, <2>7 DEF CancelCurrent, CheckpointRows
  <2>8. ASSUME NEW kind, NEW g, NEW state, pr' = Report(kind, g, state)
        PROVE  pr'.evidence.n >= pr.evidence.n
    BY <2>1, <2>8 DEF Report, CheckpointRows
  <2>9. ASSUME NEW g \in Previews, ClaimPreview(g) \/ EndPreview(g) \/ CompletePreview(g)
         PROVE  pr'.evidence.n >= pr.evidence.n
    <3>1. CASE CompletePreview(g)
      BY <2>1, <3>1 DEF CompletePreview, CheckpointRows
    <3> QED
      BY <2>8, <2>9, <3>1 DEF ClaimPreview, EndPreview
  <2>10. ASSUME NEW g \in Scans, ClaimScan(g) \/ EndScan(g) \/ Observe(g)
         PROVE  pr'.evidence.n >= pr.evidence.n
    <3>1. CASE Observe(g)
      BY <2>5, <3>1 DEF Observe
    <3>2. CASE ClaimScan(g) \/ EndScan(g)
      <4>1. PICK state : pr' = Report("scan", g, state)
        BY <3>2, Zenon DEF ClaimScan, EndScan
      <4> QED
        BY <2>8, <4>1
    <3> QED
      BY <2>10, <3>1, <3>2
  <2>11. CASE \E state \in ProviderStates : ProviderChange(state)
    BY <2>5, <2>11 DEF ProviderChange
  <2>12. CASE UNCHANGED pullVars
    BY <2>5, <2>12 DEF pullVars
  <2> QED
    BY <1>1, <2>3, <2>4, <2>6, <2>7, <2>9, <2>10, <2>11, <2>12 DEF PullNext, ProviderStates
<1> QED
  BY <1>1, PullRequestInvariant, PTL DEF PullSpec, PullRequestMovesForward
=============================================================================
