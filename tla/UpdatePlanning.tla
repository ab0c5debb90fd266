---------------------------- MODULE UpdatePlanning ----------------------------
(***************************************************************************)
(* planUpdate of packages/updates (planner.ts): the index of what each     *)
(* endpoint of the base snapshot rests on, closed under its dependencies   *)
(* by repeated passes, and the plan of an update made from it.             *)
(*                                                                         *)
(* A snapshot is the graph the index reads.  Evidence that the index takes *)
(* straight from an endpoint (its own, that of presence facts and claims,  *)
(* eligibility, endpoint scope) is one relation; references between        *)
(* schemas are closed at once.  Files are relative to the service root;    *)
(* "." is the root itself and "outside" a path that is not normalized;     *)
(* evidence need not have a path.                                          *)
(***************************************************************************)
EXTENDS Naturals, Sequences, FiniteSets

CONSTANTS
  Endpoints, Schemas, Evidence,   \* identifiers in the snapshots
  Files,                          \* normalized paths of the service
  NoEndpoint,                     \* the scope of evidence about the service
  Snapshots,                      \* base snapshots to plan from
  Inputs                          \* changes and analysis keys to plan for

Dependencies == [from : Endpoints, evidence : SUBSET Evidence,
                 endpoints : SUBSET Endpoints, schemas : SUBSET Schemas]
Boundaries == {"analyzer_changed", "config_changed", "ir_changed", "identity_changed"}

(* One target per dependency; of evidence it is among its evidence.        *)
ASSUME SnapshotsAreGraphs ==
  \A s \in Snapshots :
    /\ s.evidence \in [Endpoints -> SUBSET Evidence]
    /\ s.schemas \in [Endpoints -> SUBSET Schemas]
    /\ s.references \in [Schemas -> SUBSET Schemas]
    /\ s.sources \in [Schemas -> SUBSET Evidence]
    /\ s.scope \in [Evidence -> Endpoints \cup {NoEndpoint}]
    /\ s.file \in [Evidence -> Files \cup {"none", "outside"}]
    /\ s.dependencies \in Seq(Dependencies)
ASSUME NamesAreApart ==
  NoEndpoint \notin Endpoints /\ "none" \notin Files /\ "outside" \notin Files
ASSUME InputsAreChanges ==
  Inputs \subseteq [changed : SUBSET Files, complete : BOOLEAN, digest : BOOLEAN,
                    covered : BOOLEAN, boundary : SUBSET Boundaries]

VARIABLES
  snapshot, input,
  phase,      \* "given", "closing", "planned"
  owned,      \* endpointOwnership
  direct,     \* owners by a route other than "dependency-endpoint"
  at,         \* the next dependency of the pass under way
  grown,      \* changed, of the pass under way
  plan

vars == <<snapshot, input, phase, owned, direct, at, grown, plan>>

Ownership == [evidence : SUBSET Evidence, schemas : SUBSET Schemas]
NoPlan == [action |-> "none", affected |-> {}, complete |-> FALSE, reasons |-> {}]

-----------------------------------------------------------------------------
(* componentClosure: the least set of schemas with what it references.     *)
Closed(schemas) == \A s \in schemas : snapshot.references[s] \subseteq schemas
componentClosure(ids) ==
  {s \in Schemas : \A C \in SUBSET Schemas : ids \subseteq C /\ Closed(C) => s \in C}
SourcesOf(schemas) == UNION {snapshot.sources[s] : s \in schemas}

(* The evidence of an endpoint and of the schemas it mentions.             *)
OwnSchemas(e)  == componentClosure(snapshot.schemas[e])
OwnEvidence(e) == snapshot.evidence[e] \cup SourcesOf(OwnSchemas(e))
                  \cup {v \in Evidence : snapshot.scope[v] = e}

(* What a dependency adds to its endpoint, given what is owned so far.     *)
AddedSchemas(d)  == componentClosure(d.schemas)
AddedDirectly(d) == d.evidence \cup SourcesOf(AddedSchemas(d))
Added(d) ==
  [evidence |-> AddedDirectly(d) \cup UNION {owned[e].evidence : e \in d.endpoints},
   schemas  |-> AddedSchemas(d) \cup UNION {owned[e].schemas : e \in d.endpoints}]
(* Only the schemas are compared, so a pass that only found evidence ends it. *)
BugSchemasOnly(d) == ~(Added(d).schemas \subseteq owned[d.from].schemas)
Grows(d) == ~(/\ Added(d).evidence \subseteq owned[d.from].evidence
              /\ Added(d).schemas \subseteq owned[d.from].schemas)
Extended(d) == [owned EXCEPT ![d.from] =
  [evidence |-> @.evidence \cup Added(d).evidence, schemas |-> @.schemas \cup Added(d).schemas]]

evidenceOwners(v) == {e \in Endpoints : v \in owned[e].evidence}
schemaOwners(s)   == {e \in Endpoints : s \in owned[e].schemas}

-----------------------------------------------------------------------------
(* changedRecords, for a file and for the service root.                    *)
EvidenceOn(path) == {v \in Evidence : snapshot.file[v] = path}
SchemasOn(path)  == {s \in Schemas : snapshot.sources[s] \cap EvidenceOn(path) # {}}
Located == {v \in Evidence : snapshot.file[v] \in Files}

Ambiguous(v) == /\ snapshot.scope[v] # NoEndpoint
                /\ \E e \in Endpoints \ {snapshot.scope[v]} : <<e, v>> \in direct

changedRecords(path) ==
  IF path = "."
  THEN [affected |-> Endpoints, indexed |-> TRUE,
        incomplete |->
          \/ \E v \in Located : evidenceOwners(v) = {}
          \/ \E s \in Schemas : snapshot.sources[s] \cap Located # {} /\ schemaOwners(s) = {}]
  ELSE [affected |-> UNION ({evidenceOwners(v) : v \in EvidenceOn(path)}
                            \cup {schemaOwners(s) : s \in SchemasOn(path)}),
        indexed |-> EvidenceOn(path) # {} \/ SchemasOn(path) # {},
        incomplete |->
          \/ \E v \in EvidenceOn(path) : evidenceOwners(v) = {} \/ Ambiguous(v)
          \/ \E s \in SchemasOn(path) : schemaOwners(s) = {}]

endpointWithoutSourceClosure == \E e \in Endpoints : owned[e].evidence \cap Located = {}
ownedSourcePathIsInvalid ==
  \E v \in Evidence : snapshot.file[v] = "outside" /\ evidenceOwners(v) # {}

MayReuse == /\ input.digest /\ input.boundary = {} /\ input.covered
            /\ input.complete /\ input.changed = {}

If(condition, reason) == IF condition THEN {reason} ELSE {}
FullAnalysis ==
  LET records == {changedRecords(path) : path \in input.changed}
      unindexed == \E r \in records : ~r.indexed
      incomplete == \/ endpointWithoutSourceClosure \/ ownedSourcePathIsInvalid
                    \/ \E r \in records : r.incomplete
      unlisted == input.complete /\ ~input.digest /\ input.changed = {}
      doubts == If(~input.covered, "prior_coverage_incomplete")
                \cup If(~input.complete, "changed_paths_incomplete")
                \cup If(unlisted, "changed_paths_digest_mismatch")
                \cup If(unindexed, "changed_path_unindexed")
                \cup If(incomplete, "dependency_index_incomplete")
                \cup input.boundary
  IN  [action |-> "analyze_full_service",
       affected |-> (UNION {r.affected : r \in records})
                    \cup IF input.boundary = {} THEN {} ELSE Endpoints,
       complete |-> doubts = {},
       reasons |-> {"adapter_incremental_targets_unsupported"} \cup doubts]

(* parseUpdatePlan, of the planner's own plan.                             *)
validatePlanSemantics(p) ==
  \/ /\ p.action = "reuse_base_snapshot"
     /\ p.reasons = {} /\ p.affected = {} /\ p.complete
     /\ input.changed = {} /\ input.digest /\ input.boundary = {}
  \/ /\ p.action = "analyze_full_service"
     /\ "adapter_incremental_targets_unsupported" \in p.reasons
Parsed(p) == IF validatePlanSemantics(p) THEN p ELSE [NoPlan EXCEPT !.action = "rejected"]

-----------------------------------------------------------------------------
Reuse ==
  /\ phase = "given" /\ MayReuse
  /\ plan' = Parsed([NoPlan EXCEPT !.action = "reuse_base_snapshot", !.complete = TRUE])
  /\ phase' = "planned"
  /\ UNCHANGED <<snapshot, input, owned, direct, at, grown>>

(* buildEndpointOwnershipIndex: first what is read off each endpoint.      *)
IndexEndpoints ==
  /\ phase = "given" /\ ~MayReuse
  /\ owned' = [e \in Endpoints |-> [evidence |-> OwnEvidence(e), schemas |-> OwnSchemas(e)]]
  /\ direct' = {p \in Endpoints \X Evidence : p[2] \in OwnEvidence(p[1])}
  /\ phase' = "closing" /\ at' = 1 /\ grown' = FALSE
  /\ UNCHANGED <<snapshot, input, plan>>

(* Then the dependencies in their order, again and again.                  *)
CloseDependency ==
  LET d == snapshot.dependencies[at] IN
  /\ phase = "closing" /\ at \in DOMAIN snapshot.dependencies
  /\ owned' = Extended(d)
  /\ direct' = direct \cup ({d.from} \X AddedDirectly(d))
  /\ grown' = (grown \/ Grows(d))
  /\ at' = at + 1
  /\ UNCHANGED <<snapshot, input, phase, plan>>

EndOfPass == phase = "closing" /\ at \notin DOMAIN snapshot.dependencies

NextPass ==
  /\ EndOfPass /\ grown
  /\ at' = 1 /\ grown' = FALSE
  /\ UNCHANGED <<snapshot, input, phase, owned, direct, plan>>

Plan ==
  /\ EndOfPass /\ ~grown
  /\ plan' = Parsed(FullAnalysis)
  /\ phase' = "planned"
  /\ UNCHANGED <<snapshot, input, owned, direct, at, grown>>

Init ==
  /\ snapshot \in Snapshots /\ input \in Inputs
  /\ phase = "given"
  /\ owned = [e \in Endpoints |-> [evidence |-> {}, schemas |-> {}]]
  /\ direct = {} /\ at = 1 /\ grown = FALSE
  /\ plan = NoPlan

Next == Reuse \/ IndexEndpoints \/ CloseDependency \/ NextPass \/ Plan

Spec == Init /\ [][Next]_vars

-----------------------------------------------------------------------------
(* What the index is for: the reference definition.  An endpoint rests on  *)
(* what it mentions itself and on what its dependencies mention, and so on.*)
DependenciesOf(e) == {d \in {snapshot.dependencies[i] : i \in DOMAIN snapshot.dependencies} :
                        d.from = e}
Reaches(C) == \A e \in C : \A d \in DependenciesOf(e) : d.endpoints \subseteq C
Reached(e) == {f \in Endpoints : \A C \in SUBSET Endpoints : e \in C /\ Reaches(C) => f \in C}

RestsOnSchemas(e) ==
  UNION {OwnSchemas(f) \cup UNION {AddedSchemas(d) : d \in DependenciesOf(f)} : f \in Reached(e)}
RestsOn(e) ==
  UNION {OwnEvidence(f) \cup UNION {AddedDirectly(d) : d \in DependenciesOf(f)} : f \in Reached(e)}

(* Whatever the order of the dependencies, cycles among them included, the *)
(* planner's full analysis was planned from exactly that closure.          *)
IndexIsClosure ==
  phase = "planned" /\ plan.action = "analyze_full_service" =>
    \A e \in Endpoints : /\ owned[e].evidence = RestsOn(e)
                         /\ owned[e].schemas = RestsOnSchemas(e)

(* A plan never misses an endpoint: every endpoint that rests on evidence  *)
(* from a changed file is affected.  A plan that calls its dependency      *)
(* coverage complete also knows every changed file, who rests on each of   *)
(* its records, and for every endpoint a file whose change would affect it.*)
(* The planner's validator accepts each plan, and a reuse changes nothing. *)
PlanCoversChange ==
  phase = "planned" =>
    /\ plan.action # "rejected"
    /\ plan.action = "reuse_base_snapshot" =>
         input.changed = {} /\ input.digest /\ input.boundary = {} /\ input.covered
    /\ plan.action = "analyze_full_service" =>
         \A e \in Endpoints : \A path \in input.changed :
           RestsOn(e) \cap EvidenceOn(path) # {} => e \in plan.affected
    /\ plan.action = "analyze_full_service" /\ plan.complete =>
         /\ \A path \in input.changed \ {"."} :
              /\ EvidenceOn(path) # {}
              /\ \A v \in EvidenceOn(path) : \E e \in Endpoints : v \in RestsOn(e)
         /\ \A e \in Endpoints : \E path \in Files : RestsOn(e) \cap EvidenceOn(path) # {}

(* A plan is made from the closure of the dependencies and covers all that *)
(* the change may reach.                                                   *)
PlanIsFaithful == IndexIsClosure /\ PlanCoversChange
=============================================================================
