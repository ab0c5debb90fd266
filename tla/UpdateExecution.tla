---------------------------- MODULE UpdateExecution ----------------------------
(***************************************************************************)
(* The analysis of one leased job (execution.ts): the base it is compared  *)
(* with, the request its resolver prepares, the plan made from both and    *)
(* executeUpdate of packages/updates (execute.ts), up to the snapshot the  *)
(* job would store.  The resolver and the analyzer are external: they are  *)
(* honest about what they say they read, but may answer about anything.    *)
(*                                                                         *)
(* A digest is the set of files it was taken of, each with its contents.   *)
(* Another job of the branch may be promoted, and the lease may be lost,   *)
(* between any two steps.                                                  *)
(***************************************************************************)
EXTENDS Naturals, Sequences

CONSTANTS
  Contents,            \* what each file of the service holds, by revision
  Analyzers,           \* analyzers with their exchange and IR versions
  DocumentAnalyzers,   \* those that read one document, not the source tree
  Document,            \* the configured document
  LeasedJobs,          \* kind, target, base (of a preview), analyzer, config, and the extra
                       \* type manifests it configures, in order
  Associations,        \* revisions with the snapshot stored for them
  MaxPromotions

Revisions == DOMAIN Contents
SourceFiles     == UNION {DOMAIN Contents[r] : r \in Revisions}
Modes     == {"baseline", "fallback_full_service"}

Digest(a, r) ==
  {<<f, Contents[r][f]>> : f \in IF a \in DocumentAnalyzers THEN {Document} ELSE SourceFiles}
ChangedBetween(r, s) == {f \in SourceFiles : Contents[r][f] # Contents[s][f]}

(* An association is reused for another revision of the same source; its   *)
(* snapshot is looked up under the job's own service.                      *)
ASSUME AssociationsAreHonest ==
  \A a \in Associations :
    /\ a.snapshot.ours
    /\ a.snapshot.digest = Digest(a.snapshot.analyzer, a.snapshot.revision)
    /\ a.snapshot.digest = Digest(a.snapshot.analyzer, a.revision)
ASSUME JobsAreConfigured ==
  \A j \in LeasedJobs :
    /\ j.kind \in {"baseline_analysis", "branch_analysis", "pr_preview_analysis"}
    /\ j.target \in Revisions /\ j.base \in Revisions /\ j.analyzer \in Analyzers
    /\ j.manifests \in Seq(SourceFiles)

Missing == [revision |-> "none"]
Nothing == [action |-> "none"]

VARIABLES
  job,          \* Prepared
  alive,        \* whether the lease is still held
  branch,       \* catalog pointer and branch checkpoint, promoted together
  promotions,
  step,         \* "leased", "read", "based", "resolved", "analyzing", "done", "failed"
  pointer,      \* the branch as baseForBranch first read it
  selected,     \* baseSelection
  resolved,     \* what resolveRequest accepted
  held,         \* the resolver's source is not released yet
  update,       \* the plan
  material      \* what the completion would store

executionVars == <<job, alive, branch, promotions, step, pointer, selected, resolved, held,
                   update, material>>

-----------------------------------------------------------------------------
isDocumentProfile == job.analyzer \in DocumentAnalyzers

Source(ours, revision, analyzer) ==
  [ours |-> ours, revision |-> revision, digest |-> Digest(analyzer, revision)]
Target == Source(TRUE, job.target, job.analyzer)

(* resolution_inputs: the document, or the source tree and its manifests.  *)
Tree(source) == [kind |-> "source_tree", file |-> ".", digest |-> source.digest]
Manifest(f, r) == [kind |-> "type_manifest", file |-> f, digest |-> {<<f, Contents[r][f]>>}]
InputsAre(inputs, source) ==
  IF isDocumentProfile
  THEN /\ Len(inputs) = 1 /\ inputs[1].kind = "type_manifest"
       /\ inputs[1].file = Document /\ inputs[1].digest = source.digest
  ELSE /\ Len(inputs) >= 1 /\ inputs[1] = Tree(source)
       /\ [i \in 1..Len(inputs) - 1 |-> inputs[i + 1].file] = job.manifests
       /\ \A i \in 2..Len(inputs) : inputs[i].kind = "type_manifest"

(* resolveRequest: what it demands of the resolver's answer.               *)
Accepted(answer) ==
  /\ InputsAre(answer.inputs, answer.source)
  /\ answer.analyzer = job.analyzer
  /\ answer.source.ours /\ answer.source.revision = job.target
  /\ ~answer.complete => answer.changed = {}
  /\ isDocumentProfile => answer.changed \subseteq {Document}

-----------------------------------------------------------------------------
(* planUpdate, for the base and the request; manifests and documents are   *)
(* never trusted to list their changes.                                    *)
BaseOf == selected.snapshot
ListsItsChanges == resolved.complete /\ Len(resolved.inputs) = 1 /\ ~isDocumentProfile
SameDigest == BaseOf.digest = resolved.source.digest
SameAnalysis == BaseOf.analyzer = job.analyzer /\ BaseOf.config = job.config
Planned ==
  [action |-> IF SameDigest /\ SameAnalysis /\ BaseOf.complete /\ ListsItsChanges /\ resolved.changed = {}
              THEN "reuse_base_snapshot" ELSE "analyze_full_service",
   changed |-> resolved.changed,
   complete |-> /\ SameAnalysis /\ BaseOf.complete /\ ListsItsChanges
                /\ resolved.changed = {} => SameDigest,
   base |-> BaseOf, target |-> Target.revision, digest |-> resolved.source.digest]

(* executeUpdate: the plan, the request and the base are of one update.    *)
validateResolutionInputs(p) ==
  LET inputs == resolved.inputs IN
  IF isDocumentProfile
  THEN /\ Len(inputs) = 1 /\ inputs[1].digest = p.digest
       /\ p.changed \subseteq {inputs[1].file}
       /\ p.action = "analyze_full_service" /\ resolved.mode = "fallback_full_service"
  ELSE /\ Len(inputs) >= 1 /\ inputs[1] = [kind |-> "source_tree", file |-> ".", digest |-> p.digest]
       /\ Len(inputs) > 1 => p.action = "analyze_full_service" /\ resolved.mode = "fallback_full_service"
       /\ \A i, j \in 2..Len(inputs) : i # j => inputs[i].file # inputs[j].file
validateRequestAgreement(p) ==
  /\ resolved.source.ours /\ resolved.source.revision = p.target /\ resolved.source.digest = p.digest
  /\ validateResolutionInputs(p)
  /\ resolved.analyzer = job.analyzer /\ resolved.changed = p.changed
  /\ p.action = "analyze_full_service" => resolved.mode = "fallback_full_service"
MayExecute(p) ==
  /\ validateRequestAgreement(p)
  /\ p.action = "reuse_base_snapshot" => p.base.complete

(* validateResultAgreement, and analyzeBaseline's own form of it.          *)
Agrees(result) ==
  /\ result.status # "failed" /\ result.asked
  /\ result.analyzer = job.analyzer /\ result.source = resolved.source

(* contractSnapshotFromAnalyzerResult: the result under the job's config.  *)
contractSnapshot(result) ==
  [revision |-> result.source.revision, digest |-> result.source.digest,
   analyzer |-> result.analyzer, config |-> job.config, complete |-> result.status = "success",
   ours |-> result.source.ours]

-----------------------------------------------------------------------------
(* Another job of the branch completes, and the lease expires.             *)
Promote ==
  /\ promotions < MaxPromotions
  /\ \E a \in Associations : branch' = [pointer |-> a.snapshot, checkpoint |-> a]
  /\ promotions' = promotions + 1
  /\ UNCHANGED <<job, alive, step, pointer, selected, resolved, held, update, material>>
LoseLease ==
  /\ alive /\ alive' = FALSE
  /\ UNCHANGED <<job, branch, promotions, step, pointer, selected, resolved, held, update, material>>

Failed == step' = "failed" /\ held' = FALSE

(* confirmLive, before each step; the resolver's source is released first. *)
Abandon ==
  /\ step \in {"leased", "read", "based", "resolved", "analyzing"} /\ ~alive
  /\ Failed
  /\ UNCHANGED <<job, alive, branch, promotions, pointer, selected, resolved, update, material>>

(* baseForBranch reads the catalog, then the checkpoint.                   *)
ReadBranch ==
  /\ step = "leased" /\ alive /\ job.kind = "branch_analysis"
  /\ pointer' = branch.pointer /\ step' = "read"
  /\ UNCHANGED <<job, alive, branch, promotions, selected, resolved, held, update, material>>
BugTrustCheckpoint ==
  /\ step = "read"
  /\ selected' = IF pointer = Missing \/ branch.checkpoint = Missing THEN Missing
                 ELSE [revision |-> branch.checkpoint.revision, snapshot |-> pointer]
  /\ step' = "based"
  /\ UNCHANGED <<job, alive, branch, promotions, pointer, resolved, held, update, material>>
baseForBranch ==
  /\ step = "read"
  /\ selected' = IF pointer # Missing /\ branch.checkpoint # Missing /\ branch.checkpoint.snapshot = pointer
                 THEN branch.checkpoint ELSE Missing
  /\ step' = "based"
  /\ UNCHANGED <<job, alive, branch, promotions, pointer, resolved, held, update, material>>
(* baseForPreview finds the one association of the base revision.          *)
baseForPreview ==
  /\ step = "leased" /\ alive /\ job.kind = "pr_preview_analysis"
  /\ LET found == {a \in Associations : /\ a.revision = job.base
                                        /\ a.snapshot.analyzer = job.analyzer
                                        /\ a.snapshot.config = job.config}
     IN  \/ \E a \in found : selected' = a /\ step' = "based" /\ UNCHANGED held
         \/ found = {} /\ Failed /\ UNCHANGED selected
  /\ UNCHANGED <<job, alive, branch, promotions, pointer, resolved, update, material>>
WithoutBase ==
  /\ step = "leased" /\ alive /\ job.kind = "baseline_analysis"
  /\ step' = "based"
  /\ UNCHANGED <<job, alive, branch, promotions, pointer, selected, resolved, held, update, material>>

(* The resolver is told the base's revision, and lists what changed since. *)
Since(r) == IF selected = Missing THEN {} ELSE ChangedBetween(selected.revision, r)
AnswerOf(ours, r, a, manifests, complete, mode) ==
  [source |-> Source(ours, r, a), analyzer |-> a, mode |-> mode, complete |-> complete,
   changed |-> IF ~complete THEN {} ELSE IF a \in DocumentAnalyzers
               THEN Since(r) \cap {Document} ELSE Since(r),
   inputs |-> IF a \in DocumentAnalyzers THEN <<Manifest(Document, r)>>
              ELSE <<Tree(Source(ours, r, a))>>
                     \o [i \in DOMAIN manifests |-> Manifest(manifests[i], r)]]
Answers ==
  {AnswerOf(ours, r, a, manifests, complete, mode) :
     ours \in BOOLEAN, r \in Revisions, a \in Analyzers,
     manifests \in {<<>>, job.manifests}, complete \in BOOLEAN, mode \in Modes}
resolveRequest ==
  /\ step = "based" /\ alive
  /\ \E answer \in Answers :
       IF Accepted(answer) THEN resolved' = answer /\ step' = "resolved" /\ held' = TRUE
       ELSE Failed /\ UNCHANGED resolved
  /\ UNCHANGED <<job, alive, branch, promotions, pointer, selected, update, material>>

(* materialize: a baseline asks the analyzer for what was resolved; an     *)
(* update is planned and executed, and may reuse the base.                 *)
StartBaseline ==
  /\ step = "resolved" /\ alive /\ selected = Missing
  /\ IF resolved.mode = "baseline" THEN step' = "analyzing" /\ UNCHANGED held ELSE Failed
  /\ UNCHANGED <<job, alive, branch, promotions, pointer, selected, resolved, update, material>>
StartUpdate ==
  /\ step = "resolved" /\ alive /\ selected # Missing
  /\ LET p == Planned IN
     /\ update' = p
     /\ \/ ~MayExecute(p) /\ Failed /\ UNCHANGED material
        \/ /\ MayExecute(p) /\ p.action = "analyze_full_service"
           /\ step' = "analyzing" /\ UNCHANGED <<held, material>>
        \/ /\ MayExecute(p) /\ p.action = "reuse_base_snapshot"
           /\ material' = [action |-> "reused", snapshot |-> p.base]
           /\ step' = "done" /\ held' = FALSE
  /\ UNCHANGED <<job, alive, branch, promotions, pointer, selected, resolved>>

(* The analyzer answers, perhaps another request or about another source.  *)
Results ==
  {[status |-> status, asked |-> asked, analyzer |-> a, source |-> Source(ours, r, a)] :
     status \in {"success", "partial", "failed"}, asked \in BOOLEAN, a \in Analyzers,
     ours \in BOOLEAN, r \in Revisions}
Analyze ==
  /\ step = "analyzing"
  /\ \E result \in Results :
       IF Agrees(result)
       THEN /\ material' = [action |-> "analyzed", snapshot |-> contractSnapshot(result)]
            /\ step' = "done" /\ held' = FALSE
       ELSE Failed /\ UNCHANGED material
  /\ UNCHANGED <<job, alive, branch, promotions, pointer, selected, resolved, update>>

ExecutionInit ==
  /\ job \in LeasedJobs /\ alive = TRUE /\ promotions = 0
  /\ branch \in {[pointer |-> Missing, checkpoint |-> Missing]}
                \cup {[pointer |-> a.snapshot, checkpoint |-> a] : a \in Associations}
  /\ step = "leased" /\ pointer = Missing /\ selected = Missing /\ resolved = Nothing
  /\ held = FALSE /\ update = Nothing /\ material = Nothing
ExecutionNext ==
  \/ Promote \/ LoseLease \/ Abandon
  \/ ReadBranch \/ baseForBranch \/ baseForPreview \/ WithoutBase
  \/ resolveRequest \/ StartBaseline \/ StartUpdate \/ Analyze
ExecutionSpec == ExecutionInit /\ [][ExecutionNext]_executionVars

-----------------------------------------------------------------------------
(* What a job would store is what its own analyzer finds in its own target *)
(* revision, whatever the resolver and the analyzer answered about and     *)
(* whatever was promoted meanwhile: a reused base was complete and of the  *)
(* same source and analysis.  A plan whose coverage is complete lists      *)
(* every file in which the target differs from the base snapshot, although *)
(* the list was made from the revision the base was selected for; and the  *)
(* resolver's source is held while the analyzer works, never afterwards.   *)
ExecutionIsFaithful ==
  /\ step = "done" =>
       LET s == material.snapshot IN
       /\ s.digest = Digest(job.analyzer, job.target)
       /\ s.analyzer = job.analyzer /\ s.config = job.config /\ s.ours
       /\ material.action = "analyzed" => s.revision = job.target
       /\ material.action = "reused" => s.complete /\ ChangedBetween(s.revision, job.target) = {}
  /\ update # Nothing /\ update.complete =>
       ChangedBetween(update.base.revision, job.target) \subseteq update.changed
  /\ held <=> step \in {"resolved", "analyzing"}
=============================================================================
