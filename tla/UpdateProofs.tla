----------------------------- MODULE UpdateProofs -----------------------------
(***************************************************************************)
(* Proofs about one update.  Its planning, for any snapshot and any        *)
(* dependencies, in any order and with any cycles: the repeated passes of  *)
(* the ownership index end at the closure the reference defines, so a plan *)
(* covers its change.  Its execution, for any contents, analyzers, jobs    *)
(* and promotions: what a job would store is what its own analyzer finds   *)
(* in its own target.  Its outcome, for any two snapshots: the comparison  *)
(* tells the whole truth, and what it calls non-breaking breaks nothing.   *)
(***************************************************************************)
EXTENDS UpdatePlanning, UpdateExecution, ContractDifferences,
        FiniteSetTheorems, WellFoundedInduction, TLAPS

-----------------------------------------------------------------------------
(* Planning: the graph of the snapshot, and how far the index has come.    *)
Deps == {snapshot.dependencies[i] : i \in DOMAIN snapshot.dependencies}

PlanTyped ==
  /\ snapshot \in Snapshots /\ input \in Inputs
  /\ phase \in {"given", "closing", "planned"}
  /\ owned \in [Endpoints -> Ownership]
  /\ direct \subseteq Endpoints \X Evidence
  /\ at \in Nat \ {0} /\ grown \in BOOLEAN

(* Nothing is owned that is not rested on.                                 *)
IndexIsSound ==
  \A e \in Endpoints : owned[e].evidence \subseteq RestsOn(e)
                       /\ owned[e].schemas \subseteq RestsOnSchemas(e)

(* Everything read off an endpoint is owned.                               *)
IndexIsRooted ==
  \A e \in Endpoints : OwnEvidence(e) \subseteq owned[e].evidence
                       /\ OwnSchemas(e) \subseteq owned[e].schemas

Satisfied(d) ==
  /\ Added(d).evidence \subseteq owned[d.from].evidence
  /\ Added(d).schemas \subseteq owned[d.from].schemas

(* A pass that has not grown yet has found its dependencies satisfied.     *)
PassIsSatisfied ==
  ~grown => \A i \in DOMAIN snapshot.dependencies : i < at => Satisfied(snapshot.dependencies[i])

PlanningInv ==
  /\ PlanTyped
  /\ phase = "given" => plan = NoPlan
  /\ phase = "closing" => IndexIsSound /\ IndexIsRooted /\ PassIsSatisfied
  /\ IndexIsClosure /\ PlanCoversChange

-----------------------------------------------------------------------------
LEMMA GraphTyped ==
  ASSUME snapshot \in Snapshots
  PROVE  /\ snapshot.evidence \in [Endpoints -> SUBSET Evidence]
         /\ snapshot.schemas \in [Endpoints -> SUBSET Schemas]
         /\ snapshot.references \in [Schemas -> SUBSET Schemas]
         /\ snapshot.sources \in [Schemas -> SUBSET Evidence]
         /\ snapshot.file \in [Evidence -> Files \cup {"none", "outside"}]
         /\ snapshot.dependencies \in Seq(Dependencies)
         /\ \A d \in Deps : /\ d.from \in Endpoints /\ d.endpoints \subseteq Endpoints
                            /\ d.evidence \subseteq Evidence
<1>1. /\ snapshot.evidence \in [Endpoints -> SUBSET Evidence]
      /\ snapshot.schemas \in [Endpoints -> SUBSET Schemas]
      /\ snapshot.references \in [Schemas -> SUBSET Schemas]
      /\ snapshot.sources \in [Schemas -> SUBSET Evidence]
      /\ snapshot.file \in [Evidence -> Files \cup {"none", "outside"}]
      /\ snapshot.dependencies \in Seq(Dependencies)
  BY SnapshotsAreGraphs
<1>2. \A d \in Deps : d \in Dependencies
  BY <1>1 DEF Deps
<1>3. \A d \in Deps : /\ d.from \in Endpoints /\ d.endpoints \subseteq Endpoints
                      /\ d.evidence \subseteq Evidence
  BY <1>2 DEF Dependencies
<1> QED
  BY <1>1, <1>3

LEMMA OwnTyped ==
  ASSUME snapshot \in Snapshots, NEW e \in Endpoints
  PROVE  /\ OwnEvidence(e) \subseteq Evidence /\ OwnSchemas(e) \subseteq Schemas
         /\ \A d \in Deps : AddedDirectly(d) \subseteq Evidence /\ AddedSchemas(d) \subseteq Schemas
<1>1. \A ids : componentClosure(ids) \subseteq Schemas
  BY DEF componentClosure
<1>2. \A ids : SourcesOf(componentClosure(ids)) \subseteq Evidence
  BY <1>1, GraphTyped DEF SourcesOf
<1>3. snapshot.evidence[e] \subseteq Evidence
  BY GraphTyped
<1> QED
  BY <1>1, <1>2, <1>3, GraphTyped DEF OwnEvidence, OwnSchemas, AddedDirectly, AddedSchemas

(* The reference definition: what an endpoint reaches is closed, and an    *)
(* endpoint rests on all that those it reaches rest on.                    *)
LEMMA ReachesOn ==
  ASSUME snapshot \in Snapshots, NEW d \in Deps, NEW f \in d.endpoints
  PROVE  Reached(f) \subseteq Reached(d.from)
<1>1. d \in DependenciesOf(d.from)
  BY DEF Deps, DependenciesOf
<1>2. SUFFICES ASSUME NEW g \in Reached(f), NEW C \in SUBSET Endpoints, d.from \in C, Reaches(C)
               PROVE  g \in C
  BY DEF Reached
<1>3. f \in C
  BY <1>1, <1>2 DEF Reaches
<1> QED
  BY <1>2, <1>3 DEF Reached

LEMMA ReachedIsEndpoints ==
  ASSUME NEW e \in Endpoints  PROVE e \in Reached(e) /\ Reached(e) \subseteq Endpoints
BY DEF Reached

LEMMA RestsOnReached ==
  ASSUME snapshot \in Snapshots, NEW d \in Deps, NEW f \in d.endpoints
  PROVE  RestsOn(f) \subseteq RestsOn(d.from) /\ RestsOnSchemas(f) \subseteq RestsOnSchemas(d.from)
BY ReachesOn DEF RestsOn, RestsOnSchemas

LEMMA RestsOnOwn ==
  ASSUME snapshot \in Snapshots, NEW e \in Endpoints
  PROVE  /\ OwnEvidence(e) \subseteq RestsOn(e) /\ OwnSchemas(e) \subseteq RestsOnSchemas(e)
         /\ \A d \in DependenciesOf(e) :
              AddedDirectly(d) \subseteq RestsOn(e) /\ AddedSchemas(d) \subseteq RestsOnSchemas(e)
BY ReachedIsEndpoints DEF RestsOn, RestsOnSchemas

LEMMA RestsOnTyped ==
  ASSUME snapshot \in Snapshots, NEW e \in Endpoints
  PROVE  RestsOn(e) \subseteq Evidence /\ RestsOnSchemas(e) \subseteq Schemas
<1>1. \A f \in Reached(e) : f \in Endpoints
  BY ReachedIsEndpoints
<1>2. \A f \in Endpoints : DependenciesOf(f) \subseteq Deps
  BY DEF DependenciesOf, Deps
<1> QED
  BY <1>1, <1>2, OwnTyped DEF RestsOn, RestsOnSchemas

(* One step of the passes keeps to what is rested on.                      *)
LEMMA AddedIsRestedOn ==
  ASSUME PlanTyped, IndexIsSound, NEW d \in Deps
  PROVE  /\ Added(d).evidence \subseteq RestsOn(d.from)
         /\ Added(d).schemas \subseteq RestsOnSchemas(d.from)
<1>1. snapshot \in Snapshots /\ d.from \in Endpoints /\ d.endpoints \subseteq Endpoints
  BY GraphTyped DEF PlanTyped
<1>2. d \in DependenciesOf(d.from)
  BY DEF Deps, DependenciesOf
<1>3. AddedDirectly(d) \subseteq RestsOn(d.from) /\ AddedSchemas(d) \subseteq RestsOnSchemas(d.from)
  BY <1>1, <1>2, RestsOnOwn
<1>4. ASSUME NEW f \in d.endpoints
      PROVE  owned[f].evidence \subseteq RestsOn(d.from) /\ owned[f].schemas \subseteq RestsOnSchemas(d.from)
  BY <1>1, <1>4, RestsOnReached DEF IndexIsSound
<1> QED
  BY <1>3, <1>4 DEF Added

(* Where the index is rooted and every dependency is satisfied, all that   *)
(* is rested on is owned.                                                  *)
LEMMA SatisfiedIsClosed ==
  ASSUME PlanTyped, IndexIsRooted, \A d \in Deps : Satisfied(d), NEW e \in Endpoints
  PROVE  RestsOn(e) \subseteq owned[e].evidence /\ RestsOnSchemas(e) \subseteq owned[e].schemas
<1> DEFINE C == {f \in Endpoints : /\ owned[f].evidence \subseteq owned[e].evidence
                                   /\ owned[f].schemas \subseteq owned[e].schemas}
<1>1. \A f \in Endpoints : DependenciesOf(f) \subseteq Deps
  BY DEF DependenciesOf, Deps
<1>2. ASSUME NEW f \in C, NEW d \in DependenciesOf(f)
      PROVE  /\ d.endpoints \subseteq C
             /\ AddedDirectly(d) \subseteq owned[e].evidence /\ AddedSchemas(d) \subseteq owned[e].schemas
  <2>1. d \in Deps /\ d.from = f
    BY <1>1 DEF DependenciesOf
  <2>2. d.endpoints \subseteq Endpoints
    BY <2>1, GraphTyped DEF PlanTyped
  <2>3. /\ Added(d).evidence \subseteq owned[e].evidence
        /\ Added(d).schemas \subseteq owned[e].schemas
    BY <2>1 DEF Satisfied
  <2>4. /\ Added(d).evidence = AddedDirectly(d) \cup UNION {owned[g].evidence : g \in d.endpoints}
        /\ Added(d).schemas = AddedSchemas(d) \cup UNION {owned[g].schemas : g \in d.endpoints}
    BY DEF Added
  <2> QED
    BY <2>2, <2>3, <2>4
<1>3. e \in C /\ Reaches(C)
  BY <1>2 DEF Reaches
<1>4. Reached(e) \subseteq C
  BY <1>3 DEF Reached
<1>5. ASSUME NEW f \in C
      PROVE  OwnEvidence(f) \subseteq owned[e].evidence /\ OwnSchemas(f) \subseteq owned[e].schemas
  BY DEF IndexIsRooted
<1> HIDE DEF C
<1> QED
  BY <1>2, <1>4, <1>5 DEF RestsOn, RestsOnSchemas

-----------------------------------------------------------------------------
(* The steps of the planner.                                               *)
LEMMA SameGraph ==
  ASSUME UNCHANGED snapshot
  PROVE  /\ \A e : RestsOn(e)' = RestsOn(e) /\ RestsOnSchemas(e)' = RestsOnSchemas(e)
         /\ \A e : OwnEvidence(e)' = OwnEvidence(e) /\ OwnSchemas(e)' = OwnSchemas(e)
         /\ \A path : EvidenceOn(path)' = EvidenceOn(path)
         /\ Deps' = Deps
BY DEF RestsOn, RestsOnSchemas, OwnEvidence, OwnSchemas, EvidenceOn, Deps, DependenciesOf, Reached,
       Reaches, AddedSchemas, AddedDirectly, SourcesOf, componentClosure, Closed

LEMMA ReuseKeeps ==
  ASSUME PlanningInv, Reuse
  PROVE  PlanningInv'
<1>1. /\ phase' = "planned" /\ UNCHANGED <<snapshot, input, owned, direct, at, grown>>
      /\ input.digest /\ input.boundary = {} /\ input.covered /\ input.changed = {}
  BY DEF Reuse, MayReuse
<1> DEFINE p == [NoPlan EXCEPT !.action = "reuse_base_snapshot", !.complete = TRUE]
<1>2. p.action = "reuse_base_snapshot" /\ p.affected = {} /\ p.reasons = {} /\ p.complete
  BY DEF NoPlan
<1>3. plan' = Parsed(p)
  BY DEF Reuse
<1> HIDE DEF p
<1>4. plan'.action = "reuse_base_snapshot"
  BY <1>1, <1>2, <1>3 DEF Parsed, validatePlanSemantics
<1> QED
  BY <1>1, <1>4 DEF PlanningInv, PlanTyped, IndexIsClosure, PlanCoversChange

LEMMA IndexEndpointsKeeps ==
  ASSUME PlanningInv, IndexEndpoints
  PROVE  PlanningInv'
<1>1. /\ phase' = "closing" /\ at' = 1 /\ grown' = FALSE /\ UNCHANGED <<snapshot, input, plan>>
      /\ owned' = [e \in Endpoints |-> [evidence |-> OwnEvidence(e), schemas |-> OwnSchemas(e)]]
      /\ direct' \subseteq Endpoints \X Evidence
  BY DEF IndexEndpoints
<1>2. snapshot \in Snapshots
  BY DEF PlanningInv, PlanTyped
<1>3. \A e \in Endpoints : owned'[e].evidence = OwnEvidence(e) /\ owned'[e].schemas = OwnSchemas(e)
  BY <1>1
<1>4. owned' \in [Endpoints -> Ownership]
  BY <1>1, <1>2, OwnTyped DEF Ownership
<1>5. PlanTyped'
  <2>1. input \in Inputs /\ 1 \in Nat \ {0}
    BY DEF PlanningInv, PlanTyped
  <2> QED
    BY <1>1, <1>2, <1>4, <2>1 DEF PlanTyped
<1>6. IndexIsSound' /\ IndexIsRooted'
  BY <1>1, <1>2, <1>3, SameGraph, RestsOnOwn DEF IndexIsSound, IndexIsRooted
<1>7. PassIsSatisfied'
  <2>1. DOMAIN snapshot.dependencies \subseteq Nat \ {0}
    BY <1>2, GraphTyped
  <2> QED
    BY <1>1, <2>1 DEF PassIsSatisfied
<1> QED
  BY <1>1, <1>5, <1>6, <1>7 DEF PlanningInv, IndexIsClosure, PlanCoversChange

LEMMA CloseDependencyKeeps ==
  ASSUME PlanningInv, CloseDependency
  PROVE  PlanningInv'
<1> DEFINE d == snapshot.dependencies[at]
           own == [evidence |-> owned[d.from].evidence \cup Added(d).evidence,
                   schemas |-> owned[d.from].schemas \cup Added(d).schemas]
<1>1. /\ phase = "closing" /\ at \in DOMAIN snapshot.dependencies /\ at' = at + 1
      /\ UNCHANGED <<snapshot, input, phase, plan>>
      /\ direct' = direct \cup ({d.from} \X AddedDirectly(d))
      /\ grown' = (grown \/ Grows(d))
      /\ owned' = Extended(d)
  BY DEF CloseDependency
<1>2. /\ snapshot \in Snapshots /\ PlanTyped /\ IndexIsSound /\ IndexIsRooted /\ PassIsSatisfied
  BY <1>1 DEF PlanningInv, PlanTyped
<1>3. d \in Deps /\ d.from \in Endpoints
  BY <1>1, <1>2, GraphTyped DEF Deps
<1>4. /\ Added(d).evidence \subseteq RestsOn(d.from)
      /\ Added(d).schemas \subseteq RestsOnSchemas(d.from)
  BY <1>2, <1>3, AddedIsRestedOn
<1>5. owned \in [Endpoints -> Ownership] /\ owned[d.from] \in Ownership
  BY <1>2, <1>3 DEF PlanTyped
<1>6. owned' = [owned EXCEPT ![d.from] = own]
  BY <1>1 DEF Extended
<1>7. own \in Ownership
  <2>1. RestsOn(d.from) \subseteq Evidence /\ RestsOnSchemas(d.from) \subseteq Schemas
    BY <1>2, <1>3, RestsOnTyped
  <2> QED
    BY <1>4, <1>5, <2>1 DEF Ownership
<1>8. own.evidence = owned[d.from].evidence \cup Added(d).evidence
      /\ own.schemas = owned[d.from].schemas \cup Added(d).schemas
  OBVIOUS
<1>9. AddedDirectly(d) \subseteq Evidence
  BY <1>2, <1>3, OwnTyped
<1>10. at \in Nat \ {0} /\ direct \subseteq Endpoints \X Evidence /\ grown \in BOOLEAN
       /\ input \in Inputs /\ phase \in {"given", "closing", "planned"}
  BY <1>2 DEF PlanTyped
<1>11. Grows(d) <=> ~Satisfied(d)
  BY DEF Grows, Satisfied
<1>12. ~Grows(d) => own = owned[d.from]
  BY <1>5, <1>8, <1>11 DEF Satisfied, Ownership
<1> HIDE DEF d, own
<1>13. PlanTyped'
  <2>1. owned' \in [Endpoints -> Ownership]
    BY <1>5, <1>6, <1>7
  <2>2. direct' \subseteq Endpoints \X Evidence
    BY <1>1, <1>3, <1>9, <1>10
  <2>3. grown' \in BOOLEAN
    BY <1>1, <1>10 DEF Grows
  <2> QED
    BY <1>1, <1>2, <1>10, <2>1, <2>2, <2>3 DEF PlanTyped
<1>14. \A e \in Endpoints : owned'[e] = IF e = d.from THEN own ELSE owned[e]
  BY <1>5, <1>6
<1>15. IndexIsSound' /\ IndexIsRooted'
  BY <1>1, <1>2, <1>4, <1>8, <1>14, SameGraph DEF IndexIsSound, IndexIsRooted
<1>16. PassIsSatisfied'
  <2>1. SUFFICES ASSUME ~grown', NEW i \in DOMAIN snapshot.dependencies, i < at + 1
                 PROVE  Satisfied(snapshot.dependencies[i])'
    BY <1>1 DEF PassIsSatisfied
  <2>2. ~grown /\ ~Grows(d)
    BY <1>1, <2>1
  <2>3. owned' = owned
    BY <1>5, <1>6, <1>12, <1>3, <2>2
  <2>4. i \in Nat
    BY <1>2, GraphTyped
  <2>5. i < at \/ i = at
    BY <1>10, <2>1, <2>4
  <2>6. Satisfied(snapshot.dependencies[i])
    BY <1>2, <1>11, <2>2, <2>5 DEF PassIsSatisfied, d
  <2> QED
    BY <1>1, <2>3, <2>6 DEF Satisfied, Added, AddedDirectly, AddedSchemas, SourcesOf,
       componentClosure, Closed
<1> QED
  BY <1>1, <1>13, <1>15, <1>16 DEF PlanningInv, IndexIsClosure, PlanCoversChange

LEMMA NextPassKeeps ==
  ASSUME PlanningInv, NextPass
  PROVE  PlanningInv'
<1>1. /\ phase = "closing" /\ at' = 1 /\ grown' = FALSE
      /\ UNCHANGED <<snapshot, input, phase, owned, direct, plan>>
  BY DEF NextPass, EndOfPass
<1>2. snapshot \in Snapshots /\ PlanTyped /\ IndexIsSound /\ IndexIsRooted
  BY <1>1 DEF PlanningInv, PlanTyped
<1>3. PlanTyped'
  <2>1. /\ input \in Inputs /\ owned \in [Endpoints -> Ownership]
        /\ direct \subseteq Endpoints \X Evidence
        /\ phase \in {"given", "closing", "planned"} /\ 1 \in Nat \ {0}
    BY <1>2 DEF PlanTyped
  <2> QED
    BY <1>1, <1>2, <2>1 DEF PlanTyped
<1>5. IndexIsSound' /\ IndexIsRooted'
  BY <1>1, <1>2, SameGraph DEF IndexIsSound, IndexIsRooted
<1>4. DOMAIN snapshot.dependencies \subseteq Nat \ {0}
  BY <1>2, GraphTyped
<1> QED
  BY <1>1, <1>3, <1>4, <1>5 DEF PlanningInv, PassIsSatisfied, IndexIsClosure, PlanCoversChange

(* What the plan of a full analysis says of each changed path.             *)
LEMMA FullAnalysisFacts ==
  /\ FullAnalysis.action = "analyze_full_service"
  /\ "adapter_incremental_targets_unsupported" \in FullAnalysis.reasons
  /\ \A path \in input.changed : changedRecords(path).affected \subseteq FullAnalysis.affected
  /\ FullAnalysis.complete =>
       /\ ~endpointWithoutSourceClosure
       /\ \A path \in input.changed : changedRecords(path).indexed /\ ~changedRecords(path).incomplete
<1> DEFINE records == {changedRecords(path) : path \in input.changed}
<1>1. \A path \in input.changed : changedRecords(path) \in records
  OBVIOUS
<1>2. /\ FullAnalysis.action = "analyze_full_service"
      /\ "adapter_incremental_targets_unsupported" \in FullAnalysis.reasons
      /\ \A r \in records : r.affected \subseteq FullAnalysis.affected
  BY DEF FullAnalysis
<1>3. FullAnalysis.complete =>
        /\ ~endpointWithoutSourceClosure
        /\ \A r \in records : r.indexed /\ ~r.incomplete
  BY DEF FullAnalysis, If
<1> HIDE DEF records
<1> QED
  BY <1>1, <1>2, <1>3

(* What the records of a path are, by the index.                           *)
LEMMA ChangedRecordsFacts ==
  ASSUME PlanTyped, NEW path \in Files
  PROVE  /\ \A e \in Endpoints :
              owned[e].evidence \cap EvidenceOn(path) # {} => e \in changedRecords(path).affected
         /\ path # "." /\ changedRecords(path).indexed => EvidenceOn(path) # {}
         /\ path # "." /\ ~changedRecords(path).incomplete =>
              \A v \in EvidenceOn(path) : \E f \in Endpoints : v \in owned[f].evidence
<1>1. CASE path = "."
  BY <1>1 DEF changedRecords
<1>2. CASE path # "."
  <2>1. \A e \in Endpoints : \A v \in owned[e].evidence : e \in evidenceOwners(v)
    BY DEF evidenceOwners
  <2>2. SchemasOn(path) # {} => EvidenceOn(path) # {}
    BY DEF SchemasOn
  <2>3. \A v : evidenceOwners(v) # {} => \E f \in Endpoints : v \in owned[f].evidence
    BY DEF evidenceOwners
  <2> DEFINE r == changedRecords(path)
  <2>4. /\ r.affected = UNION ({evidenceOwners(v) : v \in EvidenceOn(path)}
                               \cup {schemaOwners(s) : s \in SchemasOn(path)})
        /\ r.indexed <=> EvidenceOn(path) # {} \/ SchemasOn(path) # {}
        /\ ~r.incomplete => \A v \in EvidenceOn(path) : evidenceOwners(v) # {}
    BY <1>2 DEF changedRecords
  <2> HIDE DEF r
  <2>5. ASSUME NEW e \in Endpoints, NEW v \in owned[e].evidence, v \in EvidenceOn(path)
        PROVE  e \in r.affected
    BY <2>1, <2>4, <2>5
  <2> QED
    BY <2>2, <2>3, <2>4, <2>5 DEF r
<1> QED
  BY <1>1, <1>2

(* At the end of a pass that did not grow the index is the closure, and    *)
(* the plan is made from it.                                               *)
LEMMA PlanKeeps ==
  ASSUME PlanningInv, Plan
  PROVE  PlanningInv'
<1>1. /\ phase = "closing" /\ at \notin DOMAIN snapshot.dependencies /\ ~grown
      /\ plan' = Parsed(FullAnalysis) /\ phase' = "planned"
      /\ UNCHANGED <<snapshot, input, owned, direct, at, grown>>
  BY DEF Plan, EndOfPass
<1>2. snapshot \in Snapshots /\ PlanTyped /\ IndexIsSound /\ IndexIsRooted /\ PassIsSatisfied
  BY <1>1 DEF PlanningInv, PlanTyped
<1>3. plan' = FullAnalysis
  BY <1>1, FullAnalysisFacts DEF Parsed, validatePlanSemantics
<1>4. \A d \in Deps : Satisfied(d)
  <2>1. PICK n \in Nat : DOMAIN snapshot.dependencies = 1..n
    BY <1>2, GraphTyped
  <2>2. at \in Nat \ {0}
    BY <1>2 DEF PlanTyped
  <2>3. \A i \in DOMAIN snapshot.dependencies : i < at
    BY <1>1, <2>1, <2>2
  <2> QED
    BY <1>1, <1>2, <2>3 DEF PassIsSatisfied, Deps
<1>5. \A e \in Endpoints : owned[e].evidence = RestsOn(e) /\ owned[e].schemas = RestsOnSchemas(e)
  BY <1>2, <1>4, SatisfiedIsClosed DEF IndexIsSound
<1>6. IndexIsClosure'
  BY <1>1, <1>5, SameGraph DEF IndexIsClosure
<1>7. input.changed \subseteq Files
  BY <1>2, InputsAreChanges DEF PlanTyped
<1>8. ASSUME NEW e \in Endpoints, NEW path \in input.changed, RestsOn(e) \cap EvidenceOn(path) # {}
      PROVE  e \in FullAnalysis.affected
  BY <1>2, <1>5, <1>7, <1>8, FullAnalysisFacts, ChangedRecordsFacts
<1>9. ASSUME FullAnalysis.complete, NEW path \in input.changed \ {"."}
      PROVE  /\ EvidenceOn(path) # {}
             /\ \A v \in EvidenceOn(path) : \E e \in Endpoints : v \in RestsOn(e)
  <2>1. path \in Files /\ changedRecords(path).indexed /\ ~changedRecords(path).incomplete
    BY <1>7, <1>9, FullAnalysisFacts
  <2> QED
    BY <1>2, <1>5, <1>9, <2>1, ChangedRecordsFacts
<1>10. ASSUME FullAnalysis.complete, NEW e \in Endpoints
       PROVE  \E path \in Files : RestsOn(e) \cap EvidenceOn(path) # {}
  <2>1. owned[e].evidence \cap Located # {}
    BY <1>10, FullAnalysisFacts DEF endpointWithoutSourceClosure
  <2> QED
    BY <1>5, <2>1 DEF Located, EvidenceOn
<1>11. PlanCoversChange'
  BY <1>1, <1>3, <1>8, <1>9, <1>10, FullAnalysisFacts, SameGraph DEF PlanCoversChange
<1>12. PlanTyped'
  BY <1>1, <1>2 DEF PlanTyped
<1> QED
  BY <1>1, <1>6, <1>11, <1>12 DEF PlanningInv

(* The inductive invariant: between IndexEndpoints and the plan the index  *)
(* holds what is read off each endpoint, nothing it does not rest on, and  *)
(* the closure under every dependency the pass has met without growing.    *)
THEOREM PlanningInvariant == Spec => []PlanningInv
<1>1. Init => PlanningInv
  <2> SUFFICES ASSUME Init PROVE PlanningInv
    OBVIOUS
  <2>1. owned \in [Endpoints -> Ownership]
    BY DEF Init, Ownership
  <2>2. /\ snapshot \in Snapshots /\ input \in Inputs /\ phase = "given"
        /\ direct = {} /\ at = 1 /\ grown = FALSE
    BY DEF Init
  <2>3. at \in Nat \ {0}
    BY <2>2
  <2>4. PlanTyped
    BY <2>1, <2>2, <2>3 DEF PlanTyped
  <2> QED
    BY <2>2, <2>4 DEF Init, PlanningInv, IndexIsClosure, PlanCoversChange
<1>2. PlanningInv /\ [Next]_vars => PlanningInv'
  <2>1. ASSUME PlanningInv, UNCHANGED vars PROVE PlanningInv'
    <3>1. UNCHANGED <<snapshot, input, phase, owned, direct, at, grown, plan>>
      BY <2>1 DEF vars
    <3>2. PlanTyped'
      BY <2>1, <3>1 DEF PlanningInv, PlanTyped
    <3>3. PassIsSatisfied => PassIsSatisfied'
      BY <3>1 DEF PassIsSatisfied, Satisfied, Added, AddedDirectly, AddedSchemas, SourcesOf,
         componentClosure, Closed
    <3>4. (IndexIsSound => IndexIsSound') /\ (IndexIsRooted => IndexIsRooted')
      BY <3>1, SameGraph DEF IndexIsSound, IndexIsRooted
    <3>5. (IndexIsClosure => IndexIsClosure') /\ (PlanCoversChange => PlanCoversChange')
      BY <3>1, SameGraph DEF IndexIsClosure, PlanCoversChange
    <3> QED
      BY <2>1, <3>1, <3>2, <3>3, <3>4, <3>5 DEF PlanningInv
  <2> QED
    BY <2>1, ReuseKeeps, IndexEndpointsKeeps, CloseDependencyKeeps, NextPassKeeps, PlanKeeps
       DEF Next
<1> QED
  BY <1>1, <1>2, PTL DEF Spec

(* buildEndpointOwnershipIndex ends at the least fixpoint, whatever the    *)
(* order and the cycles of the dependencies it repeats.                    *)
THEOREM ClosureReached == Spec => []IndexIsClosure
<1>1. PlanningInv => IndexIsClosure
  BY DEF PlanningInv
<1> QED
  BY <1>1, PlanningInvariant, PTL

(* planUpdate misses no endpoint that rests on a changed file, and calls   *)
(* its coverage complete only when it knows who rests on what changed.     *)
THEOREM ChangeCovered == Spec => []PlanCoversChange
<1>1. PlanningInv => PlanCoversChange
  BY DEF PlanningInv
<1> QED
  BY <1>1, PlanningInvariant, PTL

-----------------------------------------------------------------------------
(* What every accepted answer of the resolver is.                          *)
Resolved ==
  /\ resolved.source.ours /\ resolved.source.revision = job.target
  /\ resolved.source.digest = Digest(job.analyzer, job.target)
  /\ resolved.complete /\ ~isDocumentProfile /\ selected # Missing =>
       resolved.changed = ChangedBetween(selected.revision, job.target)

StoredIsTheTargets(s) ==
  /\ s.digest = Digest(job.analyzer, job.target)
  /\ s.analyzer = job.analyzer /\ s.config = job.config /\ s.ours

ExecutionInv ==
  /\ job \in LeasedJobs
  /\ branch.checkpoint \in Associations \cup {Missing}
  /\ selected \in Associations \cup {Missing}
  /\ step \in {"leased", "read", "based", "resolved", "analyzing", "done", "failed"}
  /\ held \in BOOLEAN
  /\ step \in {"resolved", "analyzing"} => Resolved
  /\ ExecutionIsFaithful

-----------------------------------------------------------------------------
(* Two revisions with one digest of the source tree hold the same files.   *)
LEMMA SameTree ==
  ASSUME NEW a, a \notin DocumentAnalyzers, NEW r, NEW s, Digest(a, r) = Digest(a, s)
  PROVE  ChangedBetween(r, s) = {}
<1>1. ASSUME NEW f \in SourceFiles PROVE Contents[r][f] = Contents[s][f]
  <2>1. <<f, Contents[r][f]>> \in Digest(a, r)
    BY DEF Digest
  <2>2. PICK g \in SourceFiles : <<f, Contents[r][f]>> = <<g, Contents[s][g]>>
    BY <2>1 DEF Digest
  <2> QED
    BY <2>2
<1> QED
  BY <1>1 DEF ChangedBetween

LEMMA AnswerFacts ==
  ASSUME NEW answer \in Answers
  PROVE  \E ours \in BOOLEAN, r \in Revisions :
           /\ answer.source = Source(ours, r, answer.analyzer)
           /\ answer.complete /\ answer.analyzer \notin DocumentAnalyzers =>
                answer.changed = Since(r)
<1>1. PICK ours \in BOOLEAN, r \in Revisions, a \in Analyzers, manifests \in {<<>>, job.manifests},
           complete \in BOOLEAN, mode \in Modes :
        answer = AnswerOf(ours, r, a, manifests, complete, mode)
  BY DEF Answers
<1>2. /\ answer.source = Source(ours, r, a) /\ answer.analyzer = a
      /\ answer.complete = complete
      /\ complete /\ a \notin DocumentAnalyzers => answer.changed = Since(r)
  BY <1>1 DEF AnswerOf
<1> QED
  BY <1>2

LEMMA AcceptedFacts ==
  ASSUME NEW answer \in Answers, Accepted(answer)
  PROVE  /\ answer.source.ours /\ answer.source.revision = job.target
         /\ answer.source.digest = Digest(job.analyzer, job.target)
         /\ answer.complete /\ ~isDocumentProfile /\ selected # Missing =>
              answer.changed = ChangedBetween(selected.revision, job.target)
<1>1. /\ answer.analyzer = job.analyzer
      /\ answer.source.ours /\ answer.source.revision = job.target
  BY DEF Accepted
<1>2. PICK ours \in BOOLEAN, r \in Revisions :
        /\ answer.source = Source(ours, r, answer.analyzer)
        /\ answer.complete /\ answer.analyzer \notin DocumentAnalyzers =>
             answer.changed = Since(r)
  BY AnswerFacts
<1>3. answer.source.revision = r /\ answer.source.digest = Digest(answer.analyzer, r)
  BY <1>2 DEF Source
<1> QED
  BY <1>1, <1>2, <1>3 DEF Since, isDocumentProfile

LEMMA SelectedFacts ==
  ASSUME selected \in Associations
  PROVE  /\ BaseOf.ours
         /\ BaseOf.digest = Digest(BaseOf.analyzer, BaseOf.revision)
         /\ BaseOf.digest = Digest(BaseOf.analyzer, selected.revision)
BY AssociationsAreHonest DEF BaseOf

LEMMA StartUpdateKeeps ==
  ASSUME ExecutionInv, StartUpdate
  PROVE  ExecutionInv'
<1>1. /\ step = "resolved" /\ selected \in Associations /\ Resolved
      /\ UNCHANGED <<job, alive, branch, promotions, pointer, selected, resolved>>
      /\ update' = Planned
  BY DEF StartUpdate, ExecutionInv
<1>2. /\ BaseOf.ours
      /\ BaseOf.digest = Digest(BaseOf.analyzer, BaseOf.revision)
      /\ BaseOf.digest = Digest(BaseOf.analyzer, selected.revision)
  BY <1>1, SelectedFacts
<1>3. /\ Planned.base = BaseOf /\ Planned.changed = resolved.changed
      /\ Planned.complete => SameAnalysis /\ ListsItsChanges
      /\ Planned.action = "reuse_base_snapshot" =>
           SameDigest /\ SameAnalysis /\ BaseOf.complete /\ ListsItsChanges
  BY DEF Planned
<1>4. ASSUME Planned.complete
      PROVE  ChangedBetween(BaseOf.revision, job.target) \subseteq resolved.changed
  <2>1. /\ BaseOf.analyzer = job.analyzer /\ ~isDocumentProfile /\ resolved.complete
    BY <1>3, <1>4 DEF SameAnalysis, ListsItsChanges
  <2>2. resolved.changed = ChangedBetween(selected.revision, job.target)
    <3>1. selected # Missing
      BY DEF StartUpdate
    <3> QED
      BY <1>1, <2>1, <3>1 DEF Resolved
  <2>3. ChangedBetween(BaseOf.revision, selected.revision) = {}
    BY <1>2, <2>1, SameTree DEF isDocumentProfile
  <2> QED
    BY <2>2, <2>3 DEF ChangedBetween
<1>5. CASE ~MayExecute(Planned) /\ Failed /\ UNCHANGED material
  BY <1>1, <1>3, <1>4, <1>5 DEF Failed, ExecutionInv, ExecutionIsFaithful
<1>6. CASE step' = "analyzing" /\ UNCHANGED <<held, material>>
  BY <1>1, <1>3, <1>4, <1>6
     DEF ExecutionInv, ExecutionIsFaithful, Resolved, isDocumentProfile
<1>7. CASE /\ Planned.action = "reuse_base_snapshot"
           /\ material' = [action |-> "reused", snapshot |-> Planned.base]
           /\ step' = "done" /\ held' = FALSE
  <2>1. /\ BaseOf.digest = Digest(job.analyzer, job.target) /\ BaseOf.analyzer = job.analyzer
        /\ BaseOf.config = job.config /\ BaseOf.complete /\ ~isDocumentProfile
    BY <1>1, <1>3, <1>7 DEF SameDigest, SameAnalysis, ListsItsChanges, Resolved
  <2>2. ChangedBetween(BaseOf.revision, job.target) = {}
    BY <1>2, <2>1, SameTree DEF isDocumentProfile
  <2>3. material'.action = "reused" /\ material'.snapshot = BaseOf
    BY <1>3, <1>7
  <2> QED
    BY <1>1, <1>2, <1>3, <1>4, <1>7, <2>1, <2>2, <2>3 DEF ExecutionInv, ExecutionIsFaithful
<1> QED
  BY <1>5, <1>6, <1>7 DEF StartUpdate

LEMMA AnalyzeKeeps ==
  ASSUME ExecutionInv, Analyze
  PROVE  ExecutionInv'
<1>1. /\ step = "analyzing" /\ Resolved
      /\ UNCHANGED <<job, alive, branch, promotions, pointer, selected, resolved, update>>
  BY DEF Analyze, ExecutionInv
<1>2. PICK result \in Results :
        IF Agrees(result)
        THEN /\ material' = [action |-> "analyzed", snapshot |-> contractSnapshot(result)]
             /\ step' = "done" /\ held' = FALSE
        ELSE Failed /\ UNCHANGED material
  BY DEF Analyze
<1>3. CASE ~Agrees(result)
  BY <1>1, <1>2, <1>3 DEF Failed, ExecutionInv, ExecutionIsFaithful
<1>4. CASE Agrees(result)
  <2>1. result.analyzer = job.analyzer /\ result.source = resolved.source
    BY <1>4 DEF Agrees
  <2> DEFINE s == contractSnapshot(result)
  <2>2. /\ s.revision = resolved.source.revision /\ s.digest = resolved.source.digest
        /\ s.analyzer = job.analyzer /\ s.config = job.config
        /\ s.ours = resolved.source.ours
    BY <2>1 DEF contractSnapshot
  <2> HIDE DEF s
  <2>3. material' = [action |-> "analyzed", snapshot |-> s] /\ step' = "done" /\ held' = FALSE
    BY <1>2, <1>4 DEF s
  <2> QED
    BY <1>1, <2>2, <2>3 DEF ExecutionInv, ExecutionIsFaithful, Resolved
<1> QED
  BY <1>3, <1>4

LEMMA ResolveKeeps ==
  ASSUME ExecutionInv, resolveRequest
  PROVE  ExecutionInv'
<1>1. /\ step = "based"
      /\ UNCHANGED <<job, alive, branch, promotions, pointer, selected, update, material>>
  BY DEF resolveRequest
<1>2. PICK answer \in Answers :
        IF Accepted(answer) THEN resolved' = answer /\ step' = "resolved" /\ held' = TRUE
        ELSE Failed /\ UNCHANGED resolved
  BY DEF resolveRequest
<1>3. CASE Accepted(answer)
  <2>1. /\ answer.source.ours /\ answer.source.revision = job.target
        /\ answer.source.digest = Digest(job.analyzer, job.target)
        /\ answer.complete /\ ~isDocumentProfile /\ selected # Missing =>
             answer.changed = ChangedBetween(selected.revision, job.target)
    BY <1>3, AcceptedFacts
  <2>2. Resolved'
    BY <1>1, <1>2, <1>3, <2>1 DEF Resolved, isDocumentProfile
  <2> QED
    BY <1>1, <1>2, <1>3, <2>2 DEF ExecutionInv, ExecutionIsFaithful
<1>4. CASE ~Accepted(answer)
  BY <1>1, <1>2, <1>4 DEF Failed, ExecutionInv, ExecutionIsFaithful
<1> QED
  BY <1>3, <1>4

(* The steps that only choose the base, or end the job.                    *)
LEMMA OtherStepsKeep ==
  ASSUME ExecutionInv,
         \/ Promote \/ LoseLease \/ Abandon \/ ReadBranch \/ baseForBranch \/ baseForPreview
         \/ WithoutBase \/ StartBaseline
  PROVE  ExecutionInv'
<1>1. CASE Promote
  <2>1. PICK a \in Associations : branch' = [pointer |-> a.snapshot, checkpoint |-> a]
    BY <1>1 DEF Promote
  <2>2. branch'.checkpoint \in Associations
    BY <2>1
  <2> QED
    BY <1>1, <2>2 DEF Promote, ExecutionInv, ExecutionIsFaithful, Resolved, isDocumentProfile
<1>2. CASE LoseLease
  BY <1>2 DEF LoseLease, ExecutionInv, ExecutionIsFaithful, Resolved, isDocumentProfile
<1>3. CASE Abandon
  BY <1>3 DEF Abandon, Failed, ExecutionInv, ExecutionIsFaithful
<1>4. CASE ReadBranch
  BY <1>4 DEF ReadBranch, ExecutionInv, ExecutionIsFaithful
<1>5. CASE baseForBranch
  BY <1>5 DEF baseForBranch, ExecutionInv, ExecutionIsFaithful
<1>6. CASE baseForPreview
  <2>1. \/ \E a \in Associations : selected' = a /\ step' = "based" /\ UNCHANGED held
        \/ Failed /\ UNCHANGED selected
    BY <1>6 DEF baseForPreview
  <2>2. /\ step = "leased" /\ ~held
        /\ UNCHANGED <<job, alive, branch, promotions, pointer, resolved, update, material>>
    BY <1>6 DEF baseForPreview, ExecutionInv, ExecutionIsFaithful
  <2>3. /\ selected' \in Associations \cup {Missing}
        /\ step' \in {"based", "failed"} /\ held' = FALSE
    BY <2>1, <2>2 DEF Failed, ExecutionInv
  <2> QED
    BY <2>2, <2>3 DEF ExecutionInv, ExecutionIsFaithful
<1>7. CASE WithoutBase
  BY <1>7 DEF WithoutBase, ExecutionInv, ExecutionIsFaithful
<1>8. CASE StartBaseline
  BY <1>8 DEF StartBaseline, Failed, ExecutionInv, ExecutionIsFaithful, Resolved, isDocumentProfile
<1> QED
  BY <1>1, <1>2, <1>3, <1>4, <1>5, <1>6, <1>7, <1>8

(* The inductive invariant: what was accepted of the resolver is of the    *)
(* job's own target, and the base is an association.                       *)
THEOREM ExecutionInvariant == ExecutionSpec => []ExecutionInv
<1>1. ExecutionInit => ExecutionInv
  <2> SUFFICES ASSUME ExecutionInit PROVE ExecutionInv
    OBVIOUS
  <2>1. branch.checkpoint \in Associations \cup {Missing}
    BY DEF ExecutionInit
  <2> QED
    BY <2>1 DEF ExecutionInit, ExecutionInv, ExecutionIsFaithful
<1>2. ExecutionInv /\ [ExecutionNext]_executionVars => ExecutionInv'
  <2>1. CASE UNCHANGED executionVars
    BY <2>1 DEF executionVars, ExecutionInv, ExecutionIsFaithful, Resolved, isDocumentProfile
  <2> QED
    BY <2>1, OtherStepsKeep, ResolveKeeps, StartUpdateKeeps, AnalyzeKeeps DEF ExecutionNext
<1> QED
  BY <1>1, <1>2, PTL DEF ExecutionSpec

(* executeUpdate and what leads to it store what the job's analyzer finds  *)
(* in its own target, whatever the resolver, the analyzer and other jobs   *)
(* of the branch do.                                                       *)
THEOREM ExecutionFaithful == ExecutionSpec => []ExecutionIsFaithful
<1>1. ExecutionInv => ExecutionIsFaithful
  BY DEF ExecutionInv
<1> QED
  BY <1>1, ExecutionInvariant, PTL

(* createUpdatePlan: from the closure, and covering the change.            *)
THEOREM PlanFaithful == Spec => []PlanIsFaithful
BY ClosureReached, ChangeCovered, PTL DEF PlanIsFaithful

-----------------------------------------------------------------------------
(* What a draft says of one group of facts.                                *)
LEMMA DraftShape ==
  ASSUME NEW fact, NEW of, NEW key, NEW before, NEW after, NEW added, NEW removed, NEW changed,
         NEW d \in Draft(fact, of, key, before, after, added, removed, changed)
  PROVE  /\ d.fact = fact /\ d.of = of /\ d.key = key /\ d.before = before /\ d.after = after
         /\ \/ /\ d.change = "added" /\ d.compatibility = added
               /\ before = {} /\ after # {}
            \/ /\ d.change = "removed" /\ d.compatibility = removed /\ Complete(target)
               /\ before # {} /\ after = {}
            \/ /\ d.change = "unconfirmed" /\ d.compatibility = "unknown" /\ ~Complete(target)
               /\ before # {} /\ after = {}
            \/ /\ d.change = "changed" /\ d.compatibility = changed
               /\ before # {} /\ after # {}
<1>1. CASE before = {}
  BY <1>1 DEF Draft, Difference
<1>2. CASE before # {} /\ after = {}
  BY <1>2 DEF Draft, Gone, Difference
<1>3. CASE before # {} /\ after # {}
  BY <1>3 DEF Draft, Difference
<1>. QED BY <1>1, <1>2, <1>3

(* A group that is on either side has a draft.                             *)
LEMMA DraftMade ==
  ASSUME NEW fact, NEW of, NEW key, NEW before, NEW after, NEW added, NEW removed, NEW changed,
         before \cup after # {}
  PROVE  \E d \in Draft(fact, of, key, before, after, added, removed, changed) : TRUE
BY DEF Draft

LEMMA DraftSingle ==
  ASSUME NEW fact, NEW of, NEW key, NEW before, NEW after, NEW added, NEW removed, NEW changed
  PROVE  \A d, f \in Draft(fact, of, key, before, after, added, removed, changed) : d = f
BY DEF Draft

-----------------------------------------------------------------------------
(* The drafts of one endpoint.                                             *)
LEMMA MemberShape ==
  ASSUME NEW kind, NEW e, NEW key, NEW d \in MemberDraft(kind, e, key),
         NEW before, before = Members(base, kind, e, key),
         NEW after, after = Members(target, kind, e, key)
  PROVE  /\ d.fact = kind /\ d.of = e /\ d.key = key /\ d.before = before /\ d.after = after
         /\ before # after
         /\ \/ /\ d.change = "added" /\ before = {} /\ after # {}
               /\ d.compatibility = IF kind \in RequestKinds THEN addedMemberCompatibility(after)
                                    ELSE "potentially_breaking"
            \/ /\ d.change = "removed" /\ d.compatibility = "potentially_breaking"
               /\ Complete(target) /\ before # {} /\ after = {}
            \/ /\ d.change = "unconfirmed" /\ d.compatibility = "unknown" /\ ~Complete(target)
               /\ before # {} /\ after = {}
            \/ /\ d.change = "changed" /\ before # {} /\ after # {}
               /\ d.compatibility =
                    IF kind \in RequestKinds THEN changedMemberCompatibility(before, after)
                    ELSE "potentially_breaking"
<1> DEFINE added == IF kind \in RequestKinds THEN addedMemberCompatibility(after)
                    ELSE "potentially_breaking"
           changed == IF kind \in RequestKinds THEN changedMemberCompatibility(before, after)
                      ELSE "potentially_breaking"
<1>1. before # after /\ d \in Draft(kind, e, key, before, after, added, "potentially_breaking", changed)
  BY Zenon DEF MemberDraft
<1> HIDE DEF added, changed
<1>2. /\ d.fact = kind /\ d.of = e /\ d.key = key /\ d.before = before /\ d.after = after
      /\ \/ d.change = "added" /\ d.compatibility = added /\ before = {} /\ after # {}
         \/ /\ d.change = "removed" /\ d.compatibility = "potentially_breaking"
            /\ Complete(target) /\ before # {} /\ after = {}
         \/ /\ d.change = "unconfirmed" /\ d.compatibility = "unknown" /\ ~Complete(target)
            /\ before # {} /\ after = {}
         \/ d.change = "changed" /\ d.compatibility = changed /\ before # {} /\ after # {}
  BY <1>1, DraftShape
<1>. QED BY <1>1, <1>2, Zenon DEF added, changed

LEMMA MemberMade ==
  ASSUME NEW kind, NEW e, NEW key, Members(base, kind, e, key) # Members(target, kind, e, key)
  PROVE  \E d \in MemberDraft(kind, e, key) : TRUE
<1> DEFINE before == Members(base, kind, e, key)
           after == Members(target, kind, e, key)
           added == IF kind \in RequestKinds THEN addedMemberCompatibility(after)
                    ELSE "potentially_breaking"
           changed == IF kind \in RequestKinds THEN changedMemberCompatibility(before, after)
                      ELSE "potentially_breaking"
<1>1. MemberDraft(kind, e, key)
        = Draft(kind, e, key, before, after, added, "potentially_breaking", changed)
  BY Zenon DEF MemberDraft
<1>2. before \cup after # {}
  OBVIOUS
<1>. QED BY <1>1, <1>2, DraftMade, Zenon

LEMMA MemberSingle ==
  ASSUME NEW kind, NEW e, NEW key
  PROVE  \A d, f \in MemberDraft(kind, e, key) : d = f
<1> DEFINE before == Members(base, kind, e, key)
           after == Members(target, kind, e, key)
           added == IF kind \in RequestKinds THEN addedMemberCompatibility(after)
                    ELSE "potentially_breaking"
           changed == IF kind \in RequestKinds THEN changedMemberCompatibility(before, after)
                      ELSE "potentially_breaking"
           draft == Draft(kind, e, key, before, after, added, "potentially_breaking", changed)
<1>1. MemberDraft(kind, e, key) = {} \/ MemberDraft(kind, e, key) = draft
  BY Zenon DEF MemberDraft
<1> HIDE DEF before, after, added, changed
<1>2. \A d, f \in draft : d = f
  BY DraftSingle
<1>. QED BY <1>1, <1>2, Zenon

LEMMA MemberDrawn ==
  ASSUME NEW kind \in MemberKinds, NEW e, NEW key, NEW d \in MemberDraft(kind, e, key)
  PROVE  d \in addEndpointMemberDrafts(e)
<1>1. Members(base, kind, e, key) # Members(target, kind, e, key)
  <2>1. Members(base, kind, e, key) = Members(target, kind, e, key) => MemberDraft(kind, e, key) = {}
    BY Zenon DEF MemberDraft
  <2>. QED BY <2>1
<1>2. PICK f \in FactsOf(base, kind, e) \cup FactsOf(target, kind, e) : f.key = key
  BY <1>1 DEF Members
<1>. QED BY <1>2 DEF MemberDrafts, addEndpointMemberDrafts

LEMMA NamesDiffer ==
  ASSUME NEW e, NEW d \in NamesDrafts(e)
  PROVE  FactsOf(base, "names", e) # FactsOf(target, "names", e)
<1>1. FactsOf(base, "names", e) = FactsOf(target, "names", e) => NamesDrafts(e) = {}
  BY Zenon DEF NamesDrafts
<1>. QED BY <1>1

LEMMA NamesShape ==
  ASSUME NEW e, NEW d \in NamesDrafts(e)
  PROVE  /\ d.fact = "names" /\ d.change = "changed" /\ d.of = e /\ d.key = Blank
         /\ d.compatibility = "potentially_breaking"
         /\ d.before = FactsOf(base, "names", e) /\ d.after = FactsOf(target, "names", e)
<1>1. d = Difference("names", "changed", "potentially_breaking", e, Blank,
                     FactsOf(base, "names", e), FactsOf(target, "names", e))
  BY NamesDiffer, Zenon DEF NamesDrafts
<1>. QED BY <1>1 DEF Difference

LEMMA NamesSingle ==
  ASSUME NEW e
  PROVE  \A d, f \in NamesDrafts(e) : d = f
BY Zenon DEF NamesDrafts

(* The drafts of an endpoint that continues, and of one that does not.     *)
LEMMA EndpointPieces ==
  ASSUME NEW e, NEW d \in EndpointDrafts(e)
  PROVE  \/ Continues(e) /\ d \in NamesDrafts(e)
         \/ Continues(e) /\ \E kind \in MemberKinds : \E key : d \in MemberDraft(kind, e, key)
         \/ /\ ~Continues(e) /\ e \in EndpointsOf(target)
            /\ d = Difference("endpoint", "added", "non_breaking", e, Blank, {}, Projection(target, e))
         \/ /\ ~Continues(e) /\ e \in EndpointsOf(base)
            /\ d = Gone("endpoint", e, Blank, Projection(base, e), "potentially_breaking")
<1>1. CASE Continues(e)
  <2>1. d \in NamesDrafts(e) \/ d \in addEndpointMemberDrafts(e)
    BY <1>1 DEF EndpointDrafts
  <2>2. d \in addEndpointMemberDrafts(e) =>
          \E kind \in MemberKinds : \E key : d \in MemberDraft(kind, e, key)
    BY DEF addEndpointMemberDrafts, MemberDrafts
  <2>. QED BY <1>1, <2>1, <2>2
<1>2. CASE ~Continues(e)
  BY <1>2 DEF EndpointDrafts
<1>. QED BY <1>1, <1>2

(* Every draft of an endpoint is its own: the arrival or the departure of  *)
(* the endpoint, its names, or one group of its members.                   *)
LEMMA EndpointShape ==
  ASSUME NEW e, NEW d \in EndpointDrafts(e)
  PROVE  /\ d.of = e /\ d.fact \in EndpointKinds
         /\ d.change = "unconfirmed" => ~Complete(target)
         /\ d.change = "removed" => Complete(target)
         /\ d.fact = "endpoint" => ~Continues(e) /\ d.before \subseteq base.facts
                                    /\ d.after \subseteq target.facts
         /\ d.fact # "endpoint" => Continues(e)
<1>1. CASE Continues(e) /\ d \in NamesDrafts(e)
  BY <1>1, NamesShape DEF EndpointKinds
<1>2. CASE Continues(e) /\ \E kind \in MemberKinds : \E key : d \in MemberDraft(kind, e, key)
  <2>1. PICK kind \in MemberKinds : \E key : d \in MemberDraft(kind, e, key)
    BY <1>2
  <2>2. PICK key : d \in MemberDraft(kind, e, key)
    BY <2>1
  <2>3. /\ d.fact = kind /\ d.of = e
        /\ d.change = "unconfirmed" => ~Complete(target)
        /\ d.change = "removed" => Complete(target)
    BY <2>2, MemberShape
  <2>. QED BY <1>2, <2>3 DEF MemberKinds, EndpointKinds
<1>3. CASE ~Continues(e) /\ d = Difference("endpoint", "added", "non_breaking", e, Blank, {}, Projection(target, e))
  BY <1>3 DEF Difference, EndpointKinds, Projection
<1>4. CASE ~Continues(e) /\ d = Gone("endpoint", e, Blank, Projection(base, e), "potentially_breaking")
  BY <1>4 DEF Difference, Gone, EndpointKinds, Projection
<1>. QED BY EndpointPieces, <1>1, <1>2, <1>3, <1>4

(* The drafts of one endpoint are told apart by what they are about.       *)
LEMMA EndpointSingle ==
  ASSUME NEW e, NEW d \in EndpointDrafts(e), NEW f \in EndpointDrafts(e),
         d.fact = f.fact, d.change = f.change, d.key = f.key
  PROVE  d = f
<1>1. CASE ~Continues(e)
  <2> DEFINE new == Difference("endpoint", "added", "non_breaking", e, Blank, {}, Projection(target, e))
             gone == Gone("endpoint", e, Blank, Projection(base, e), "potentially_breaking")
  <2>1. /\ d = new \/ d = gone
        /\ f = new \/ f = gone
    BY <1>1, EndpointPieces
  <2>2. new.change # gone.change
    BY DEF Gone, Difference
  <2> HIDE DEF new, gone
  <2>. QED BY <2>1, <2>2
<1>2. CASE Continues(e)
  <2>1. ASSUME NEW g \in EndpointDrafts(e)
        PROVE  \/ g.fact = "names" /\ g \in NamesDrafts(e)
               \/ g.fact \in MemberKinds /\ g \in MemberDraft(g.fact, e, g.key)
    <3>1. CASE g \in NamesDrafts(e)
      BY <3>1, NamesShape
    <3>2. CASE \E kind \in MemberKinds : \E key : g \in MemberDraft(kind, e, key)
      <4>1. PICK kind \in MemberKinds : \E key : g \in MemberDraft(kind, e, key)
        BY <3>2
      <4>2. PICK key : g \in MemberDraft(kind, e, key)
        BY <4>1
      <4>3. g.fact = kind /\ g.key = key
        BY <4>2, MemberShape
      <4>. QED BY <4>2, <4>3
    <3>. QED BY <1>2, <3>1, <3>2, EndpointPieces
  <2>2. CASE d.fact = "names"
    <3>1. d \in NamesDrafts(e) /\ f \in NamesDrafts(e)
      BY <2>1, <2>2 DEF MemberKinds
    <3>. QED BY <3>1, NamesSingle, Zenon
  <2>3. CASE d.fact \in MemberKinds
    <3>1. d \in MemberDraft(d.fact, e, d.key) /\ f \in MemberDraft(d.fact, e, d.key)
      BY <2>1, <2>3 DEF MemberKinds
    <3>. QED BY <3>1, MemberSingle
  <2>. QED BY <2>1, <2>2, <2>3
<1>. QED BY <1>1, <1>2

-----------------------------------------------------------------------------
(* The drafts of one owner's claims.                                       *)
Partitions(owner) == {Partition(c) : c \in Group(base, owner) \cup Group(target, owner)}
Paired(owner) ==
  [p \in Partitions(owner) |-> Pairing(Group(base, owner), Group(target, owner), p)]
MembersOf(s, owner) == {Member(c) : c \in Group(s, owner)}

ClaimDrafts(owner) ==
  Draft("claim", owner[1], owner[2],
        Gathered(Paired(owner), "leftBefore"), Gathered(Paired(owner), "leftAfter"),
        "unknown", "unknown",
        changedClaimCompatibility(owner,
          Gathered(Paired(owner), "leftBefore"), Gathered(Paired(owner), "leftAfter"),
          Count(Paired(owner), "leftBefore"), Count(Paired(owner), "leftAfter")))

(* The drafts of an owner of claims, when its endpoint continues or is on  *)
(* one side only, and when its route changed.                              *)
LEMMA OwnerPieces ==
  ASSUME NEW owner
  PROVE  /\ Discontinuous(owner[1]) =>
              OwnerDrafts(owner) =
                Draft("claim", owner[1], owner[2], MembersOf(base, owner), {}, "unknown", "unknown", "unknown")
                \cup
                Draft("claim", owner[1], owner[2], {}, MembersOf(target, owner), "unknown", "unknown", "unknown")
         /\ ~Discontinuous(owner[1]) =>
              OwnerDrafts(owner) =
                ConditionDrafts(owner, "added", "potentially_breaking", {}, Gathered(Paired(owner), "added"))
                \cup ConditionDrafts(owner, "removed", "unknown", Gathered(Paired(owner), "removed"), {})
                \cup ConditionDrafts(owner, "changed", "potentially_breaking",
                        Gathered(Paired(owner), "changedBefore"), Gathered(Paired(owner), "changedAfter"))
                \cup ClaimDrafts(owner)
<1>1. CASE Discontinuous(owner[1])
  <2>1. {Member(c) : c \in {}} = {}
    OBVIOUS
  <2>. QED BY <1>1, <2>1, Zenon DEF OwnerDrafts, MembersOf
<1>2. CASE ~Discontinuous(owner[1])
  <2>1. OwnerDrafts(owner) = PairedDrafts(owner, Paired(owner))
    BY <1>2, Zenon DEF OwnerDrafts, ClaimGroupDrafts, Paired, Partitions
  <2>. QED BY <1>2, <2>1, Zenon DEF PairedDrafts, ClaimDrafts
<1>. QED BY <1>1, <1>2

LEMMA ConditionShape ==
  ASSUME NEW owner, NEW change, NEW label, NEW before, NEW after,
         NEW d \in ConditionDrafts(owner, change, label, before, after)
  PROVE  /\ d.fact = "condition_group" /\ d.change = change /\ d.compatibility = label
         /\ d.of = owner[1] /\ d.key = owner[2] /\ d.before = before /\ d.after = after
         /\ before \cup after # {}
<1>1. before \cup after # {}
  BY DEF ConditionDrafts
<1>2. d = Difference("condition_group", change, label, owner[1], owner[2], before, after)
  BY <1>1 DEF ConditionDrafts
<1>. QED BY <1>1, <1>2 DEF Difference

LEMMA ConditionMade ==
  ASSUME NEW owner, NEW change, NEW label, NEW before, NEW after, before \cup after # {}
  PROVE  \E d \in ConditionDrafts(owner, change, label, before, after) : TRUE
BY DEF ConditionDrafts

LEMMA ConditionSingle ==
  ASSUME NEW owner, NEW change, NEW label, NEW before, NEW after
  PROVE  \A d, f \in ConditionDrafts(owner, change, label, before, after) : d = f
BY DEF ConditionDrafts

(* What a draft of an owner's claims is.                                   *)
LEMMA OwnerShape ==
  ASSUME NEW owner, NEW d \in OwnerDrafts(owner)
  PROVE  /\ d.of = owner[1] /\ d.key = owner[2]
         /\ \/ /\ d.fact = "condition_group" /\ ~Discontinuous(owner[1])
               /\ \/ /\ d.change = "added" /\ d.compatibility = "potentially_breaking"
                     /\ d.before = {} /\ d.after = Gathered(Paired(owner), "added") /\ d.after # {}
                     /\ d \in ConditionDrafts(owner, "added", "potentially_breaking", {},
                                             Gathered(Paired(owner), "added"))
                  \/ /\ d.change = "removed" /\ d.compatibility = "unknown"
                     /\ d.before = Gathered(Paired(owner), "removed") /\ d.after = {} /\ d.before # {}
                     /\ d \in ConditionDrafts(owner, "removed", "unknown",
                                             Gathered(Paired(owner), "removed"), {})
                  \/ /\ d.change = "changed" /\ d.compatibility = "potentially_breaking"
                     /\ d.before = Gathered(Paired(owner), "changedBefore")
                     /\ d.after = Gathered(Paired(owner), "changedAfter")
                     /\ d.before \cup d.after # {}
                     /\ d \in ConditionDrafts(owner, "changed", "potentially_breaking",
                          Gathered(Paired(owner), "changedBefore"), Gathered(Paired(owner), "changedAfter"))
            \/ /\ d.fact = "claim" /\ ~Discontinuous(owner[1]) /\ d \in ClaimDrafts(owner)
            \/ /\ d.fact = "claim" /\ Discontinuous(owner[1]) /\ d.change \in {"removed", "unconfirmed"}
               /\ d \in Draft("claim", owner[1], owner[2], MembersOf(base, owner), {},
                              "unknown", "unknown", "unknown")
            \/ /\ d.fact = "claim" /\ Discontinuous(owner[1]) /\ d.change = "added"
               /\ d \in Draft("claim", owner[1], owner[2], {}, MembersOf(target, owner),
                              "unknown", "unknown", "unknown")
<1> DEFINE pairing == Paired(owner)
           A == Gathered(pairing, "added")
           R == Gathered(pairing, "removed")
           B == Gathered(pairing, "changedBefore")
           C == Gathered(pairing, "changedAfter")
<1>1. CASE ~Discontinuous(owner[1])
  <2>1. CASE d \in ConditionDrafts(owner, "added", "potentially_breaking", {}, A)
    <3> HIDE DEF A
    <3>1. /\ d.fact = "condition_group" /\ d.change = "added" /\ d.compatibility = "potentially_breaking"
          /\ d.of = owner[1] /\ d.key = owner[2] /\ d.before = {} /\ d.after = A /\ A # {}
      BY <2>1, ConditionShape
    <3>. QED BY <1>1, <2>1, <3>1 DEF A
  <2>2. CASE d \in ConditionDrafts(owner, "removed", "unknown", R, {})
    <3> HIDE DEF R
    <3>1. /\ d.fact = "condition_group" /\ d.change = "removed" /\ d.compatibility = "unknown"
          /\ d.of = owner[1] /\ d.key = owner[2] /\ d.before = R /\ d.after = {} /\ R # {}
      BY <2>2, ConditionShape
    <3>. QED BY <1>1, <2>2, <3>1 DEF R
  <2>3. CASE d \in ConditionDrafts(owner, "changed", "potentially_breaking", B, C)
    <3> HIDE DEF B, C
    <3>1. /\ d.fact = "condition_group" /\ d.change = "changed" /\ d.compatibility = "potentially_breaking"
          /\ d.of = owner[1] /\ d.key = owner[2] /\ d.before = B /\ d.after = C /\ B \cup C # {}
      BY <2>3, ConditionShape
    <3>. QED BY <1>1, <2>3, <3>1 DEF B, C
  <2>4. CASE d \in ClaimDrafts(owner)
    <3>1. d.fact = "claim" /\ d.of = owner[1] /\ d.key = owner[2]
      BY <2>4, DraftShape DEF ClaimDrafts
    <3>. QED BY <1>1, <2>4, <3>1
  <2>. QED BY <1>1, <2>1, <2>2, <2>3, <2>4, OwnerPieces
<1>2. CASE Discontinuous(owner[1])
  <2>1. CASE d \in Draft("claim", owner[1], owner[2], MembersOf(base, owner), {},
                         "unknown", "unknown", "unknown")
    <3>1. /\ d.fact = "claim" /\ d.of = owner[1] /\ d.key = owner[2]
          /\ d.change \in {"removed", "unconfirmed"}
      BY <2>1, DraftShape
    <3>. QED BY <1>2, <2>1, <3>1
  <2>2. CASE d \in Draft("claim", owner[1], owner[2], {}, MembersOf(target, owner),
                         "unknown", "unknown", "unknown")
    <3>1. d.fact = "claim" /\ d.of = owner[1] /\ d.key = owner[2] /\ d.change = "added"
      BY <2>2, DraftShape
    <3>. QED BY <1>2, <2>2, <3>1
  <2>. QED BY <1>2, <2>1, <2>2, OwnerPieces
<1>. QED BY <1>1, <1>2

-----------------------------------------------------------------------------
(* How often claims say something, and the places of what does not cancel. *)
LEMMA NumbersWellFounded ==
  \E R : IsWellFoundedOn(R, Nat) /\ \A x, y \in Nat : <<y, x>> \in R <=> y < x
<1>1. \A x, y \in Nat : <<y, x>> \in OpToRel(<, Nat) <=> y < x
  BY DEF OpToRel
<1>. QED BY <1>1, NatLessThanWellFounded

LEMMA LeastNumber ==
  ASSUME NEW T, T \subseteq Nat, T # {}
  PROVE  \E x \in T : \A y \in T : x <= y
<1>1. PICK R : IsWellFoundedOn(R, Nat) /\ \A x, y \in Nat : <<y, x>> \in R <=> y < x
  BY NumbersWellFounded
<1>2. PICK x \in T : \A y \in T : ~(<<y, x>> \in R)
  BY <1>1, WFMin
<1>3. \A y \in T : x <= y
  <2> SUFFICES ASSUME NEW y \in T PROVE x <= y
    OBVIOUS
  <2>1. x \in Nat /\ y \in Nat
    OBVIOUS
  <2>2. <<y, x>> \in R <=> y < x
    BY <1>1, <2>1, Zenon
  <2>3. <<y, x>> \notin R
    BY <1>2, Zenon
  <2>4. ~(y < x)
    BY <2>2, <2>3, Zenon
  <2>. QED BY <2>1, <2>4
<1>. QED BY <1>3

(* How often a condition is stated: never, or by a claim one can name.     *)
LEMMA NumberTyped ==
  ASSUME NEW claims, IsFiniteSet(claims), NEW p, NEW condition
  PROVE  /\ Cardinality(claims) \in Nat
         /\ NumberOf(claims, p, condition) \in 0..Cardinality(claims)
         /\ NumberOf(claims, p, condition) = 0
              <=> \A c \in claims : ~(Partition(c) = p /\ c.condition = condition)
<1> DEFINE S == {c \in claims : Partition(c) = p /\ c.condition = condition}
<1>1. IsFiniteSet(S) /\ Cardinality(S) <= Cardinality(claims)
  BY FS_Subset
<1>2. Cardinality(S) \in Nat /\ Cardinality(claims) \in Nat
  BY <1>1, FS_CardinalityType
<1>3. Cardinality(S) = 0 <=> S = {}
  BY <1>1, FS_EmptySet
<1>. QED BY <1>1, <1>2, <1>3 DEF NumberOf

LEMMA PlacesTyped ==
  ASSUME NEW some, IsFiniteSet(some), NEW others, NEW p,
         NEW places, places = cancelEqualConditions(some, others, p)
  PROVE  /\ IsFiniteSet(places) /\ places \subseteq Nat \X Nat
         /\ \A x \in places : x[1] \in 0..Len(Conditions) /\ x[2] \in Nat \ {0}
<1>1. Cardinality(some) \in Nat /\ Len(Conditions) \in Nat
  BY FS_CardinalityType, ConditionsAreCanonical
<1>2. IsFiniteSet(0..Len(Conditions)) /\ IsFiniteSet(1..Cardinality(some))
  BY <1>1, FS_Interval
<1>3. IsFiniteSet((0..Len(Conditions)) \X (1..Cardinality(some)))
  BY <1>2, FS_Product
<1>4. places \subseteq (0..Len(Conditions)) \X (1..Cardinality(some))
  BY DEF cancelEqualConditions
<1>5. IsFiniteSet(places)
  BY <1>3, <1>4, FS_Subset
<1>. QED BY <1>1, <1>4, <1>5

(* A place is there for what one side says more often than the other.      *)
LEMMA PlaceIsSurplus ==
  ASSUME NEW some, IsFiniteSet(some), NEW others, IsFiniteSet(others), NEW p,
         NEW x \in cancelEqualConditions(some, others, p)
  PROVE  NumberOf(others, p, ConditionAt(x)) < NumberOf(some, p, ConditionAt(x))
<1>1. /\ NumberOf(some, p, ConditionAt(x)) \in Nat /\ NumberOf(others, p, ConditionAt(x)) \in Nat
  BY NumberTyped
<1>2. x[2] <= NumberOf(some, p, ConditionAt(x)) - NumberOf(others, p, ConditionAt(x))
  BY DEF cancelEqualConditions
<1>3. x[2] \in Nat \ {0}
  BY PlacesTyped
<1>. QED BY <1>1, <1>2, <1>3

(* A condition stated more often on one side than on the other has a place *)
(* in the surplus of that side.                                            *)
LEMMA SurplusHasPlace ==
  ASSUME NEW some, IsFiniteSet(some), NEW others, IsFiniteSet(others), NEW p,
         NEW i \in 0..Len(Conditions),
         NumberOf(others, p, ConditionAt(<<i, 1>>)) < NumberOf(some, p, ConditionAt(<<i, 1>>))
  PROVE  <<i, 1>> \in cancelEqualConditions(some, others, p)
<1> DEFINE x == <<i, 1>>
           n == NumberOf(some, p, ConditionAt(x))
           m == NumberOf(others, p, ConditionAt(x))
<1>1. n \in 0..Cardinality(some) /\ m \in Nat /\ Cardinality(some) \in Nat
  BY NumberTyped
<1>2. x[2] = 1
  OBVIOUS
<1>3. m < n
  OBVIOUS
<1>4. x \in (0..Len(Conditions)) \X (1..Cardinality(some)) /\ x[2] <= n - m
  <2> HIDE DEF n, m
  <2>. QED BY <1>1, <1>2, <1>3
<1>. QED BY <1>4, Zenon DEF cancelEqualConditions

(* Every condition has a place in the canonical order.                     *)
LEMMA ConditionsArePlaces ==
  ASSUME NEW condition \in ConditionsOf
  PROVE  \E i \in 0..Len(Conditions) : ConditionAt(<<i, 1>>) = condition
<1>1. CASE condition = Null
  <2>1. 0 \in 0..Len(Conditions) /\ ConditionAt(<<0, 1>>) = Null
    BY ConditionsAreCanonical DEF ConditionAt
  <2>. QED BY <1>1, <2>1
<1>2. CASE condition # Null
  <2>1. PICK i \in DOMAIN Conditions : Conditions[i] = condition
    BY <1>2 DEF ConditionsOf
  <2>2. i \in 0..Len(Conditions) /\ i # 0
    BY <2>1, ConditionsAreCanonical
  <2>. QED BY <2>1, <2>2 DEF ConditionAt
<1>. QED BY <1>1, <1>2

LEMMA PlacesOfNull ==
  ASSUME NEW x, x[1] \in 0..Len(Conditions)
  PROVE  ConditionAt(x) = Null <=> x[1] = 0
<1>1. x[1] # 0 => x[1] \in DOMAIN Conditions
  BY ConditionsAreCanonical
<1>. QED BY <1>1, ConditionsAreCanonical DEF ConditionAt

(* The first places of some.                                               *)
LEMMA NoneFirst ==
  ASSUME NEW places, IsFiniteSet(places)
  PROVE  First(places, 0) = {}
<1> SUFFICES ASSUME NEW x \in places, Cardinality({y \in places : Earlier(y, x)}) < 0
             PROVE  FALSE
  BY DEF First
<1>1. IsFiniteSet({y \in places : Earlier(y, x)})
  BY FS_Subset
<1>2. Cardinality({y \in places : Earlier(y, x)}) \in Nat
  BY <1>1, FS_CardinalityType
<1>. QED BY <1>2

(* The first of a finite set of places are some, when asked for some.      *)
LEMMA SomeFirst ==
  ASSUME NEW places, places \subseteq Nat \X Nat, places # {}, NEW n \in Nat, n # 0
  PROVE  First(places, n) # {}
<1>1. PICK i \in {x[1] : x \in places} : \A j \in {x[1] : x \in places} : i <= j
  <2>1. {x[1] : x \in places} \subseteq Nat /\ {x[1] : x \in places} # {}
    OBVIOUS
  <2>. QED BY <2>1, LeastNumber
<1> DEFINE row == {x \in places : x[1] = i}
<1>2. PICK j \in {x[2] : x \in row} : \A k \in {x[2] : x \in row} : j <= k
  <2>1. {x[2] : x \in row} \subseteq Nat /\ {x[2] : x \in row} # {}
    BY <1>1
  <2>. QED BY <2>1, LeastNumber
<1>3. PICK x \in places : x[1] = i /\ x[2] = j
  BY <1>2
<1>4. \A y \in places : ~Earlier(y, x)
  <2> SUFFICES ASSUME NEW y \in places PROVE ~Earlier(y, x)
    OBVIOUS
  <2>1. x[1] \in Nat /\ x[2] \in Nat /\ y[1] \in Nat /\ y[2] \in Nat
    OBVIOUS
  <2>2. i <= y[1] /\ (y[1] = i => j <= y[2])
    BY <1>1, <1>2
  <2>. QED BY <1>3, <2>1, <2>2 DEF Earlier
<1>5. {y \in places : Earlier(y, x)} = {}
  BY <1>4
<1>6. Cardinality({y \in places : Earlier(y, x)}) = 0
  BY <1>5, FS_EmptySet
<1>. QED BY <1>6 DEF First

(* The first n are taken from what they are the first of.                  *)
LEMMA FirstAmong ==
  ASSUME NEW places, NEW n
  PROVE  First(places, n) \subseteq places
BY DEF First

(* Of one partition: every place is paired or left, a condition takes an   *)
(* unconditional claim's place only when there is one on the other side,   *)
(* and what is left unconditional found no condition to be paired with.    *)
LEMMA PairingFacts ==
  ASSUME NEW B, IsFiniteSet(B), NEW T, IsFiniteSet(T), NEW p,
         NEW q, q = Pairing(B, T, p),
         NEW old, old = cancelEqualConditions(B, T, p),
         NEW new, new = cancelEqualConditions(T, B, p)
  PROVE  /\ q.removed \subseteq old \ Nulls(old) /\ q.changedBefore \subseteq old \ Nulls(old)
         /\ q.added \subseteq new \ Nulls(new) /\ q.changedAfter \subseteq new \ Nulls(new)
         /\ q.leftBefore \subseteq old /\ q.leftAfter \subseteq new
         /\ old \ Nulls(old) \subseteq q.removed \cup q.changedBefore \cup q.leftBefore
         /\ new \ Nulls(new) \subseteq q.added \cup q.changedAfter \cup q.leftAfter
         /\ Nulls(old) \subseteq q.leftBefore \/ q.added # {}
         /\ Nulls(new) \subseteq q.leftAfter \/ q.removed # {}
         /\ q.added # {} => Nulls(old) # {}
         /\ q.removed # {} => Nulls(new) # {}
<1> DEFINE oldConditions == old \ Nulls(old)
           newConditions == new \ Nulls(new)
           added   == Least(Cardinality(Nulls(old)), Cardinality(newConditions))
           removed == Least(Cardinality(Nulls(new)), Cardinality(oldConditions))
           restOld == oldConditions \ First(oldConditions, removed)
           restNew == newConditions \ First(newConditions, added)
           changed == Least(Cardinality(restOld), Cardinality(restNew))
<1>1. q = [added   |-> First(newConditions, added),
           removed |-> First(oldConditions, removed),
           changedBefore |-> First(restOld, changed),
           changedAfter  |-> First(restNew, changed),
           leftBefore |-> (Nulls(old) \ First(Nulls(old), added)) \cup (restOld \ First(restOld, changed)),
           leftAfter  |-> (Nulls(new) \ First(Nulls(new), removed)) \cup (restNew \ First(restNew, changed))]
  BY Zenon DEF Pairing
<1>2. /\ IsFiniteSet(old) /\ old \subseteq Nat \X Nat
      /\ IsFiniteSet(new) /\ new \subseteq Nat \X Nat
  BY PlacesTyped
<1>3. /\ Nulls(old) \subseteq old /\ Nulls(new) \subseteq new
  BY DEF Nulls
<1>4. /\ IsFiniteSet(Nulls(old)) /\ IsFiniteSet(oldConditions)
      /\ IsFiniteSet(Nulls(new)) /\ IsFiniteSet(newConditions)
  <2>1. oldConditions \subseteq old /\ newConditions \subseteq new
    OBVIOUS
  <2>. QED BY <1>2, <1>3, <2>1, FS_Subset
<1>5. /\ Cardinality(Nulls(old)) \in Nat /\ Cardinality(oldConditions) \in Nat
      /\ Cardinality(Nulls(new)) \in Nat /\ Cardinality(newConditions) \in Nat
      /\ Cardinality(Nulls(old)) = 0 <=> Nulls(old) = {}
      /\ Cardinality(Nulls(new)) = 0 <=> Nulls(new) = {}
      /\ Cardinality(oldConditions) = 0 <=> oldConditions = {}
      /\ Cardinality(newConditions) = 0 <=> newConditions = {}
  BY <1>4, FS_CardinalityType, FS_EmptySet
<1>6. /\ added \in Nat /\ (added = 0 <=> Nulls(old) = {} \/ newConditions = {})
      /\ removed \in Nat /\ (removed = 0 <=> Nulls(new) = {} \/ oldConditions = {})
  <2> HIDE DEF oldConditions, newConditions
  <2>. QED BY <1>5 DEF Least
<1>7. /\ added = 0 => First(newConditions, added) = {} /\ First(Nulls(old), added) = {}
      /\ removed = 0 => First(oldConditions, removed) = {} /\ First(Nulls(new), removed) = {}
  <2> HIDE DEF oldConditions, newConditions, added, removed
  <2>. QED BY <1>4, NoneFirst
<1>8. /\ added # 0 => First(newConditions, added) # {}
      /\ removed # 0 => First(oldConditions, removed) # {}
  <2>1. oldConditions \subseteq Nat \X Nat /\ newConditions \subseteq Nat \X Nat
    BY <1>2
  <2> HIDE DEF oldConditions, newConditions, added, removed
  <2>. QED BY <1>6, <2>1, SomeFirst
<1>9. /\ First(newConditions, added) \subseteq newConditions
      /\ First(oldConditions, removed) \subseteq oldConditions
      /\ First(restOld, changed) \subseteq restOld /\ First(restNew, changed) \subseteq restNew
  <2> HIDE DEF oldConditions, newConditions, added, removed, restOld, restNew, changed
  <2>. QED BY FirstAmong
<1>10. /\ q.added = First(newConditions, added) /\ q.removed = First(oldConditions, removed)
       /\ q.changedBefore = First(restOld, changed) /\ q.changedAfter = First(restNew, changed)
       /\ q.leftBefore = (Nulls(old) \ First(Nulls(old), added)) \cup (restOld \ First(restOld, changed))
       /\ q.leftAfter = (Nulls(new) \ First(Nulls(new), removed)) \cup (restNew \ First(restNew, changed))
  <2> HIDE DEF oldConditions, newConditions, added, removed, restOld, restNew, changed
  <2>. QED BY <1>1
<1>11. /\ restOld \subseteq oldConditions /\ restNew \subseteq newConditions
       /\ oldConditions \subseteq First(oldConditions, removed) \cup restOld
       /\ newConditions \subseteq First(newConditions, added) \cup restNew
  OBVIOUS
<1>12. oldConditions = old \ Nulls(old) /\ newConditions = new \ Nulls(new)
  OBVIOUS
<1> HIDE DEF oldConditions, newConditions, added, removed, restOld, restNew, changed
<1>13. /\ q.removed \subseteq oldConditions /\ q.changedBefore \subseteq oldConditions
       /\ q.added \subseteq newConditions /\ q.changedAfter \subseteq newConditions
  BY <1>9, <1>10, <1>11
<1>14. /\ q.leftBefore \subseteq old /\ q.leftAfter \subseteq new
  BY <1>3, <1>10, <1>11, <1>12
<1>15. /\ oldConditions \subseteq q.removed \cup q.changedBefore \cup q.leftBefore
       /\ newConditions \subseteq q.added \cup q.changedAfter \cup q.leftAfter
  BY <1>10, <1>11
<1>16. /\ Nulls(old) \subseteq q.leftBefore \/ q.added # {}
       /\ Nulls(new) \subseteq q.leftAfter \/ q.removed # {}
  BY <1>7, <1>8, <1>10
<1>17. /\ q.added # {} => Nulls(old) # {}
       /\ q.removed # {} => Nulls(new) # {}
  BY <1>6, <1>7, <1>10
<1>. QED BY <1>12, <1>13, <1>14, <1>15, <1>16, <1>17

-----------------------------------------------------------------------------
(* The claims of one owner.                                                *)
BothWellFormed == WellFormed(base) /\ WellFormed(target)
Old(owner, p) == cancelEqualConditions(Group(base, owner), Group(target, owner), p)
New(owner, p) == cancelEqualConditions(Group(target, owner), Group(base, owner), p)
MemberAt(p, x) == [value |-> p[1], verification |-> p[2], condition |-> ConditionAt(x)]

LEMMA GroupsTyped ==
  ASSUME NEW s, WellFormed(s), NEW owner
  PROVE  /\ IsFiniteSet(Group(s, owner)) /\ Group(s, owner) \subseteq s.claims
         /\ \A c \in Group(s, owner) : c.condition \in ConditionsOf /\ Owner(c) = owner
<1>1. IsFiniteSet(s.claims) /\ \A c \in s.claims : c.condition \in ConditionsOf
  BY DEF WellFormed
<1>2. Group(s, owner) \subseteq s.claims /\ \A c \in Group(s, owner) : Owner(c) = owner
  BY DEF Group
<1>. QED BY <1>1, <1>2, FS_Subset

(* How the surplus of one partition is paired: nothing with a condition is *)
(* lost, and an unconditional member is left alone unless a condition      *)
(* stands in for it.                                                       *)
LEMMA PairedAt ==
  ASSUME BothWellFormed, NEW owner, NEW p \in Partitions(owner),
         NEW q, q = Paired(owner)[p], NEW old, old = Old(owner, p), NEW new, new = New(owner, p)
  PROVE  /\ q.removed \subseteq old \ Nulls(old) /\ q.changedBefore \subseteq old \ Nulls(old)
         /\ q.added \subseteq new \ Nulls(new) /\ q.changedAfter \subseteq new \ Nulls(new)
         /\ q.leftBefore \subseteq old /\ q.leftAfter \subseteq new
         /\ old \ Nulls(old) \subseteq q.removed \cup q.changedBefore \cup q.leftBefore
         /\ new \ Nulls(new) \subseteq q.added \cup q.changedAfter \cup q.leftAfter
         /\ Nulls(old) \subseteq q.leftBefore \/ q.added # {}
         /\ Nulls(new) \subseteq q.leftAfter \/ q.removed # {}
         /\ q.added # {} => Nulls(old) # {}
         /\ q.removed # {} => Nulls(new) # {}
<1>1. q = Pairing(Group(base, owner), Group(target, owner), p)
  BY Zenon DEF Paired
<1>2. IsFiniteSet(Group(base, owner)) /\ IsFiniteSet(Group(target, owner))
  BY GroupsTyped DEF BothWellFormed
<1>. QED BY <1>1, <1>2, PairingFacts DEF Old, New

(* What is surplus on one side is stated there more often.                 *)
LEMMA PlacesAt ==
  ASSUME BothWellFormed, NEW owner, NEW p
  PROVE  /\ \A x \in Old(owner, p) :
              /\ x[1] \in 0..Len(Conditions)
              /\ NumberOf(Group(target, owner), p, ConditionAt(x))
                   < NumberOf(Group(base, owner), p, ConditionAt(x))
         /\ \A x \in New(owner, p) :
              /\ x[1] \in 0..Len(Conditions)
              /\ NumberOf(Group(base, owner), p, ConditionAt(x))
                   < NumberOf(Group(target, owner), p, ConditionAt(x))
<1>1. IsFiniteSet(Group(base, owner)) /\ IsFiniteSet(Group(target, owner))
  BY GroupsTyped DEF BothWellFormed
<1>2. \A x \in Old(owner, p) :
              /\ x[1] \in 0..Len(Conditions)
              /\ NumberOf(Group(target, owner), p, ConditionAt(x))
                   < NumberOf(Group(base, owner), p, ConditionAt(x))
  BY <1>1, PlacesTyped, PlaceIsSurplus DEF Old
<1>3. \A x \in New(owner, p) :
              /\ x[1] \in 0..Len(Conditions)
              /\ NumberOf(Group(base, owner), p, ConditionAt(x))
                   < NumberOf(Group(target, owner), p, ConditionAt(x))
  BY <1>1, PlacesTyped, PlaceIsSurplus DEF New
<1>. QED BY <1>2, <1>3

(* A gathered member comes from a place of a partition.                    *)
LEMMA GatheredFrom ==
  ASSUME NEW owner, NEW field
  PROVE  \A m : m \in Gathered(Paired(owner), field) <=>
                \E p \in Partitions(owner) : \E x \in Paired(owner)[p][field] : m = MemberAt(p, x)
<1>1. DOMAIN Paired(owner) = Partitions(owner)
  BY DEF Paired
<1> DEFINE P == Paired(owner)
<1> HIDE DEF P
<1>2. \A m : m \in Gathered(P, field) <=>
                \E p \in DOMAIN P : \E x \in P[p][field] : m = MemberAt(p, x)
  BY DEF Gathered, Assigned, MemberAt
<1>. QED BY <1>1, <1>2 DEF P

(* Equal members are of one partition and have one condition.              *)
LEMMA MemberAtEqual ==
  ASSUME NEW owner, NEW p \in Partitions(owner), NEW q \in Partitions(owner), NEW x, NEW y,
         MemberAt(p, x) = MemberAt(q, y)
  PROVE  p = q /\ ConditionAt(x) = ConditionAt(y)
<1>1. p = <<p[1], p[2]>> /\ q = <<q[1], q[2]>>
  BY DEF Partitions, Partition
<1>2. /\ MemberAt(p, x).value = p[1] /\ MemberAt(p, x).verification = p[2]
      /\ MemberAt(p, x).condition = ConditionAt(x)
      /\ MemberAt(q, y).value = q[1] /\ MemberAt(q, y).verification = q[2]
      /\ MemberAt(q, y).condition = ConditionAt(y)
  BY DEF MemberAt
<1>. QED BY <1>1, <1>2, Zenon

(* No condition has a surplus on both sides of its partition.              *)
LEMMA ChangedDiffers ==
  ASSUME BothWellFormed, NEW owner,
         NEW m \in Gathered(Paired(owner), "changedBefore")
  PROVE  m \notin Gathered(Paired(owner), "changedAfter")
<1> SUFFICES ASSUME m \in Gathered(Paired(owner), "changedAfter") PROVE FALSE
  OBVIOUS
<1>1. PICK p \in Partitions(owner) : \E x \in Paired(owner)[p]["changedBefore"] : m = MemberAt(p, x)
  BY GatheredFrom
<1>2. PICK x \in Paired(owner)[p]["changedBefore"] : m = MemberAt(p, x)
  BY <1>1
<1>3. PICK q \in Partitions(owner) : \E y \in Paired(owner)[q]["changedAfter"] : m = MemberAt(q, y)
  BY GatheredFrom
<1>4. PICK y \in Paired(owner)[q]["changedAfter"] : m = MemberAt(q, y)
  BY <1>3
<1>5. p = q /\ ConditionAt(x) = ConditionAt(y)
  <2>1. MemberAt(p, x) = MemberAt(q, y)
    BY <1>2, <1>4, Zenon
  <2>. QED BY <2>1, MemberAtEqual
<1>6. x \in Old(owner, p) /\ y \in New(owner, p)
  BY <1>2, <1>4, <1>5, PairedAt
<1>7. /\ NumberOf(Group(target, owner), p, ConditionAt(x)) < NumberOf(Group(base, owner), p, ConditionAt(x))
      /\ NumberOf(Group(base, owner), p, ConditionAt(x)) < NumberOf(Group(target, owner), p, ConditionAt(x))
  BY <1>5, <1>6, PlacesAt
<1>8. /\ NumberOf(Group(base, owner), p, ConditionAt(x)) \in Nat
      /\ NumberOf(Group(target, owner), p, ConditionAt(x)) \in Nat
  <2>1. IsFiniteSet(Group(base, owner)) /\ IsFiniteSet(Group(target, owner))
    BY GroupsTyped DEF BothWellFormed
  <2>. QED BY <2>1, NumberTyped
<1>. QED BY <1>7, <1>8

-----------------------------------------------------------------------------
(* The drafts of schemas and diagnostics.                                  *)
LEMMA SchemaShape ==
  ASSUME NEW id, NEW d \in SchemaDrafts(id),
         NEW before, before = FactsOf(base, "schema", id),
         NEW after, after = FactsOf(target, "schema", id)
  PROVE  /\ d.fact = "schema" /\ d.of = id /\ d.key = Blank /\ d.before = before /\ d.after = after
         /\ d.change = "unconfirmed" => ~Complete(target)
         /\ d.change = "removed" => Complete(target)
         /\ d.compatibility = "non_breaking" => before = {}
<1>1. before # after
  <2>1. before = after => SchemaDrafts(id) = {}
    BY Zenon DEF SchemaDrafts
  <2>. QED BY <2>1
<1>2. d \in Draft("schema", id, Blank, before, after, "non_breaking", "potentially_breaking",
                  "potentially_breaking")
  BY <1>1, Zenon DEF SchemaDrafts
<1>3. /\ d.fact = "schema" /\ d.of = id /\ d.key = Blank /\ d.before = before /\ d.after = after
      /\ \/ /\ d.change = "added" /\ d.compatibility = "non_breaking"
            /\ before = {} /\ after # {}
         \/ /\ d.change = "removed" /\ d.compatibility = "potentially_breaking" /\ Complete(target)
            /\ before # {} /\ after = {}
         \/ /\ d.change = "unconfirmed" /\ d.compatibility = "unknown" /\ ~Complete(target)
            /\ before # {} /\ after = {}
         \/ /\ d.change = "changed" /\ d.compatibility = "potentially_breaking"
            /\ before # {} /\ after # {}
  BY <1>2, DraftShape
<1>. QED BY <1>3

LEMMA SchemaSingle ==
  ASSUME NEW id
  PROVE  \A d, f \in SchemaDrafts(id) : d = f
<1> DEFINE draft == Draft("schema", id, Blank, FactsOf(base, "schema", id), FactsOf(target, "schema", id),
                          "non_breaking", "potentially_breaking", "potentially_breaking")
<1>1. SchemaDrafts(id) = {} \/ SchemaDrafts(id) = draft
  BY Zenon DEF SchemaDrafts
<1>2. \A d, f \in draft : d = f
  BY DraftSingle
<1>. QED BY <1>1, <1>2, Zenon

LEMMA SchemaMade ==
  ASSUME NEW id, FactsOf(base, "schema", id) # FactsOf(target, "schema", id)
  PROVE  \E d \in SchemaDrafts(id) : TRUE
<1> DEFINE before == FactsOf(base, "schema", id)
           after == FactsOf(target, "schema", id)
<1>1. SchemaDrafts(id) = Draft("schema", id, Blank, before, after, "non_breaking",
                               "potentially_breaking", "potentially_breaking")
  BY Zenon DEF SchemaDrafts
<1>2. before \cup after # {}
  OBVIOUS
<1>. QED BY <1>1, <1>2, DraftMade, Zenon

(* A diagnostic is added or resolved; what is only reworded is both.       *)
LEMMA DiagnosticShape ==
  ASSUME NEW id, NEW d \in DiagnosticDrafts(id),
         NEW before, before = FactsOf(base, "diagnostic", id),
         NEW after, after = FactsOf(target, "diagnostic", id)
  PROVE  /\ d.fact = "diagnostic" /\ d.of = id /\ d.key = Blank /\ before # after
         /\ \/ d.change = "added" /\ d.before = {} /\ d.after = after
            \/ d.change = "resolved" /\ d.before = before /\ d.after = {}
<1>1. before # after
  <2>1. before = after => DiagnosticDrafts(id) = {}
    BY Zenon DEF DiagnosticDrafts
  <2>. QED BY <2>1
<1>2. DiagnosticDrafts(id) =
        (IF after = {} THEN {} ELSE {Difference("diagnostic", "added", "unknown", id, Blank, {}, after)})
        \cup (IF before = {} THEN {} ELSE {Difference("diagnostic", "resolved", "unknown", id, Blank, before, {})})
  BY <1>1, Zenon DEF DiagnosticDrafts
<1>3. \/ d = Difference("diagnostic", "added", "unknown", id, Blank, {}, after)
      \/ d = Difference("diagnostic", "resolved", "unknown", id, Blank, before, {})
  BY <1>2
<1>4. CASE d = Difference("diagnostic", "added", "unknown", id, Blank, {}, after)
  <2>1. /\ d.fact = "diagnostic" /\ d.of = id /\ d.key = Blank
        /\ d.change = "added" /\ d.before = {} /\ d.after = after
    BY <1>4 DEF Difference
  <2>. QED BY <1>1, <2>1
<1>5. CASE d = Difference("diagnostic", "resolved", "unknown", id, Blank, before, {})
  <2>1. /\ d.fact = "diagnostic" /\ d.of = id /\ d.key = Blank
        /\ d.change = "resolved" /\ d.before = before /\ d.after = {}
    BY <1>5 DEF Difference
  <2>. QED BY <1>1, <2>1
<1>. QED BY <1>3, <1>4, <1>5

LEMMA DiagnosticSingle ==
  ASSUME NEW id, NEW d \in DiagnosticDrafts(id), NEW f \in DiagnosticDrafts(id), d.change = f.change
  PROVE  d = f
<1> DEFINE new == Difference("diagnostic", "added", "unknown", id, Blank, {}, FactsOf(target, "diagnostic", id))
           gone == Difference("diagnostic", "resolved", "unknown", id, Blank, FactsOf(base, "diagnostic", id), {})
<1>1. DiagnosticDrafts(id) \subseteq {new, gone}
  BY Zenon DEF DiagnosticDrafts
<1>2. new.change # gone.change
  BY DEF Difference
<1> HIDE DEF new, gone
<1>. QED BY <1>1, <1>2

LEMMA DiagnosticMade ==
  ASSUME NEW id, FactsOf(base, "diagnostic", id) # FactsOf(target, "diagnostic", id),
         NEW before, before = FactsOf(base, "diagnostic", id),
         NEW after, after = FactsOf(target, "diagnostic", id)
  PROVE  /\ after # {} => Difference("diagnostic", "added", "unknown", id, Blank, {}, after)
                            \in DiagnosticDrafts(id)
         /\ before # {} => Difference("diagnostic", "resolved", "unknown", id, Blank, before, {})
                            \in DiagnosticDrafts(id)
<1>1. DiagnosticDrafts(id) =
        (IF after = {} THEN {} ELSE {Difference("diagnostic", "added", "unknown", id, Blank, {}, after)})
        \cup (IF before = {} THEN {} ELSE {Difference("diagnostic", "resolved", "unknown", id, Blank, before, {})})
  BY Zenon DEF DiagnosticDrafts
<1>. QED BY <1>1

-----------------------------------------------------------------------------
(* Where a draft comes from.                                               *)
LEMMA OwnersArePairs ==
  ASSUME NEW owner \in Owners
  PROVE  <<owner[1], owner[2]>> = owner
BY DEF Owners, Owner

(* Every difference comes from the group its fact, subject and key name.   *)
LEMMA DraftOrigin ==
  ASSUME NEW d \in Drafts
  PROVE  \/ d.fact = "identity" /\ d = Difference("identity", "changed", "unknown", Blank, Blank, {}, {})
         \/ d.fact = "coverage" /\ d = Difference("coverage", "changed", "unknown", Blank, Blank, {}, {})
         \/ /\ base.version = target.version /\ d.fact \in EndpointKinds /\ d \in EndpointDrafts(d.of)
            /\ d.of \in EndpointsOf(base) \cup EndpointsOf(target)
         \/ /\ base.version = target.version /\ d.fact \in {"claim", "condition_group"}
            /\ <<d.of, d.key>> \in Owners /\ d \in OwnerDrafts(<<d.of, d.key>>)
         \/ d.fact = "schema" /\ d \in SchemaDrafts(d.of)
         \/ d.fact = "diagnostic" /\ d \in DiagnosticDrafts(d.of)
<1>1. CASE d = Difference("identity", "changed", "unknown", Blank, Blank, {}, {})
  BY <1>1 DEF Difference
<1>2. CASE d = Difference("coverage", "changed", "unknown", Blank, Blank, {}, {})
  BY <1>2 DEF Difference
<1>3. CASE base.version = target.version
           /\ d \in UNION {EndpointDrafts(e) : e \in EndpointsOf(base) \cup EndpointsOf(target)}
  <2>1. PICK e \in EndpointsOf(base) \cup EndpointsOf(target) : d \in EndpointDrafts(e)
    BY <1>3
  <2>2. d.of = e /\ d.fact \in EndpointKinds
    BY <2>1, EndpointShape
  <2>. QED BY <1>3, <2>1, <2>2
<1>4. CASE base.version = target.version /\ d \in addClaimDrafts
  <2>1. PICK owner \in Owners : d \in OwnerDrafts(owner)
    BY <1>4 DEF addClaimDrafts
  <2>2. d.of = owner[1] /\ d.key = owner[2] /\ d.fact \in {"claim", "condition_group"}
    BY <2>1, OwnerShape
  <2>3. <<d.of, d.key>> = owner
    BY <2>2, OwnersArePairs
  <2>. QED BY <1>4, <2>1, <2>2, <2>3
<1>5. CASE d \in UNION {SchemaDrafts(id) : id \in Named("schema")}
  <2>1. PICK id : d \in SchemaDrafts(id)
    BY <1>5
  <2>. QED BY <2>1, SchemaShape
<1>6. CASE d \in UNION {DiagnosticDrafts(id) : id \in Named("diagnostic")}
  <2>1. PICK id : d \in DiagnosticDrafts(id)
    BY <1>6
  <2>. QED BY <2>1, DiagnosticShape
<1>7. \/ d = Difference("identity", "changed", "unknown", Blank, Blank, {}, {})
      \/ d = Difference("coverage", "changed", "unknown", Blank, Blank, {}, {})
      \/ base.version = target.version
         /\ d \in UNION {EndpointDrafts(e) : e \in EndpointsOf(base) \cup EndpointsOf(target)}
      \/ base.version = target.version /\ d \in addClaimDrafts
      \/ d \in UNION {SchemaDrafts(id) : id \in Named("schema")}
      \/ d \in UNION {DiagnosticDrafts(id) : id \in Named("diagnostic")}
  <2> DEFINE A == UNION {EndpointDrafts(e) : e \in EndpointsOf(base) \cup EndpointsOf(target)}
             B == UNION {SchemaDrafts(id) : id \in Named("schema")}
             C == UNION {DiagnosticDrafts(id) : id \in Named("diagnostic")}
             I == Difference("identity", "changed", "unknown", Blank, Blank, {}, {})
             K == Difference("coverage", "changed", "unknown", Blank, Blank, {}, {})
  <2>1. Drafts = (IF base.version # target.version THEN {I} ELSE A \cup addClaimDrafts)
                 \cup B \cup (IF base.coverage = target.coverage THEN {} ELSE {K}) \cup C
    BY DEF Drafts
  <2> HIDE DEF A, B, C, I, K
  <2>2. d = I \/ d = K \/ (base.version = target.version /\ d \in A)
        \/ (base.version = target.version /\ d \in addClaimDrafts) \/ d \in B \/ d \in C
    BY <2>1
  <2>. QED BY <2>2 DEF A, B, C, I, K
<1>. QED BY <1>1, <1>2, <1>3, <1>4, <1>5, <1>6, <1>7

(* And what is drafted is there.                                           *)
LEMMA DraftsHold ==
  /\ base.version = target.version =>
       /\ \A e \in EndpointsOf(base) \cup EndpointsOf(target) : EndpointDrafts(e) \subseteq Drafts
       /\ \A owner \in Owners : OwnerDrafts(owner) \subseteq Drafts
  /\ \A id : SchemaDrafts(id) \subseteq Drafts /\ DiagnosticDrafts(id) \subseteq Drafts
<1> DEFINE A == UNION {EndpointDrafts(e) : e \in EndpointsOf(base) \cup EndpointsOf(target)}
           B == UNION {SchemaDrafts(id) : id \in Named("schema")}
           C == UNION {DiagnosticDrafts(id) : id \in Named("diagnostic")}
<1>1. (base.version = target.version => A \cup addClaimDrafts \subseteq Drafts)
      /\ B \subseteq Drafts /\ C \subseteq Drafts
  <2> DEFINE I == {Difference("identity", "changed", "unknown", Blank, Blank, {}, {})}
             K == IF base.coverage = target.coverage THEN {}
                  ELSE {Difference("coverage", "changed", "unknown", Blank, Blank, {}, {})}
  <2>1. Drafts = (IF base.version # target.version THEN I ELSE A \cup addClaimDrafts)
                 \cup B \cup K \cup C
    BY DEF Drafts
  <2> HIDE DEF A, B, C, I, K
  <2>. QED BY <2>1
<1>2. \A e \in EndpointsOf(base) \cup EndpointsOf(target) : EndpointDrafts(e) \subseteq A
  OBVIOUS
<1>3. \A owner \in Owners : OwnerDrafts(owner) \subseteq addClaimDrafts
  BY DEF addClaimDrafts
<1>4. ASSUME NEW id PROVE SchemaDrafts(id) \subseteq B
  <2> SUFFICES ASSUME NEW d \in SchemaDrafts(id) PROVE d \in B
    OBVIOUS
  <2>1. FactsOf(base, "schema", id) # FactsOf(target, "schema", id)
    <3>1. FactsOf(base, "schema", id) = FactsOf(target, "schema", id) => SchemaDrafts(id) = {}
      BY Zenon DEF SchemaDrafts
    <3>. QED BY <3>1
  <2>2. \E f \in base.facts \cup target.facts : f.kind = "schema" /\ f.of = id
    BY <2>1 DEF FactsOf
  <2>3. id \in Named("schema")
    BY <2>2 DEF Named
  <2>. QED BY <2>3
<1>5. ASSUME NEW id PROVE DiagnosticDrafts(id) \subseteq C
  <2> SUFFICES ASSUME NEW d \in DiagnosticDrafts(id) PROVE d \in C
    OBVIOUS
  <2>1. FactsOf(base, "diagnostic", id) # FactsOf(target, "diagnostic", id)
    BY DiagnosticShape
  <2>2. \E f \in base.facts \cup target.facts : f.kind = "diagnostic" /\ f.of = id
    BY <2>1 DEF FactsOf
  <2>3. id \in Named("diagnostic")
    BY <2>2 DEF Named
  <2>. QED BY <2>3
<1> HIDE DEF A, B, C
<1>. QED BY <1>1, <1>2, <1>3, <1>4, <1>5

-----------------------------------------------------------------------------
(* What the validator of a difference set asks of the drafts.              *)
LEMMA ReasonsTell ==
  /\ "target_coverage_incomplete" \in Reasons <=> ~Complete(target)
  /\ Reasons = {} => Complete(base) /\ Complete(target) /\ base.version = target.version
BY DEF Reasons

(* No two differences are about the same change of the same thing.         *)
LEMMA DraftsAreSingle ==
  ASSUME NEW d \in Drafts, NEW f \in Drafts,
         d.fact = f.fact, d.change = f.change, d.of = f.of, d.key = f.key
  PROVE  d = f
<1>1. CASE d.fact \in {"identity", "coverage"}
  <2> DEFINE I == Difference("identity", "changed", "unknown", Blank, Blank, {}, {})
             K == Difference("coverage", "changed", "unknown", Blank, Blank, {}, {})
  <2>1. (d.fact = "identity" /\ d = I) \/ (d.fact = "coverage" /\ d = K)
    BY <1>1, DraftOrigin DEF EndpointKinds, MemberKinds
  <2>2. (f.fact = "identity" /\ f = I) \/ (f.fact = "coverage" /\ f = K)
    BY <1>1, DraftOrigin DEF EndpointKinds, MemberKinds
  <2> HIDE DEF I, K
  <2>. QED BY <2>1, <2>2
<1>2. CASE d.fact \in EndpointKinds
  <2>1. d \in EndpointDrafts(d.of) /\ f \in EndpointDrafts(d.of)
    BY <1>2, DraftOrigin DEF EndpointKinds, MemberKinds
  <2>. QED BY <2>1, EndpointSingle
<1>3. CASE d.fact \in {"claim", "condition_group"}
  <2> DEFINE owner == <<d.of, d.key>>
  <2>1. d \in OwnerDrafts(owner) /\ f \in OwnerDrafts(owner)
    BY <1>3, DraftOrigin DEF EndpointKinds, MemberKinds
  <2> HIDE DEF owner
  <2>2. CASE d.fact = "claim"
    <3>1. CASE Discontinuous(owner[1])
      <4> DEFINE A == Draft("claim", owner[1], owner[2], MembersOf(base, owner), {},
                            "unknown", "unknown", "unknown")
                 B == Draft("claim", owner[1], owner[2], {}, MembersOf(target, owner),
                            "unknown", "unknown", "unknown")
      <4>1. \/ d.change \in {"removed", "unconfirmed"} /\ d \in A
            \/ d.change = "added" /\ d \in B
        BY <2>1, <2>2, <3>1, OwnerShape
      <4>3. \/ f.change \in {"removed", "unconfirmed"} /\ f \in A
            \/ f.change = "added" /\ f \in B
        BY <2>1, <2>2, <3>1, OwnerShape
      <4>2. (\A a, b \in A : a = b) /\ (\A a, b \in B : a = b)
        BY DraftSingle
      <4> HIDE DEF A, B
      <4>. QED BY <4>1, <4>2, <4>3
    <3>2. CASE ~Discontinuous(owner[1])
      <4>1. d \in ClaimDrafts(owner) /\ f \in ClaimDrafts(owner)
        BY <2>1, <2>2, <3>2, OwnerShape
      <4>2. \A a, b \in ClaimDrafts(owner) : a = b
        BY DraftSingle DEF ClaimDrafts
      <4>. QED BY <4>1, <4>2
    <3>. QED BY <3>1, <3>2
  <2>3. CASE d.fact = "condition_group"
    <3> DEFINE A == ConditionDrafts(owner, "added", "potentially_breaking", {},
                                    Gathered(Paired(owner), "added"))
               R == ConditionDrafts(owner, "removed", "unknown",
                                    Gathered(Paired(owner), "removed"), {})
               C == ConditionDrafts(owner, "changed", "potentially_breaking",
                      Gathered(Paired(owner), "changedBefore"), Gathered(Paired(owner), "changedAfter"))
    <3>1. \/ d.change = "added" /\ d \in A
          \/ d.change = "removed" /\ d \in R
          \/ d.change = "changed" /\ d \in C
      BY <2>1, <2>3, OwnerShape
    <3>3. \/ f.change = "added" /\ f \in A
          \/ f.change = "removed" /\ f \in R
          \/ f.change = "changed" /\ f \in C
      BY <2>1, <2>3, OwnerShape
    <3>2. (\A a, b \in A : a = b) /\ (\A a, b \in R : a = b) /\ (\A a, b \in C : a = b)
      BY ConditionSingle
    <3> HIDE DEF A, R, C
    <3>. QED BY <3>1, <3>2, <3>3
  <2>. QED BY <1>3, <2>2, <2>3
<1>4. CASE d.fact = "schema"
  <2>1. d \in SchemaDrafts(d.of) /\ f \in SchemaDrafts(d.of)
    BY <1>4, DraftOrigin DEF EndpointKinds, MemberKinds
  <2>. QED BY <2>1, SchemaSingle
<1>5. CASE d.fact = "diagnostic"
  <2>1. d \in DiagnosticDrafts(d.of) /\ f \in DiagnosticDrafts(d.of)
    BY <1>5, DraftOrigin DEF EndpointKinds, MemberKinds
  <2>. QED BY <2>1, DiagnosticSingle
<1>. QED BY <1>1, <1>2, <1>3, <1>4, <1>5, DraftOrigin

(* Nothing is called removed while the target may hide it.                 *)
LEMMA DraftsAreConfirmed ==
  ASSUME NEW d \in Drafts
  PROVE  /\ d.change = "unconfirmed" => ~Complete(target)
         /\ d.change = "removed" /\ d.fact # "condition_group" => Complete(target)
<1>1. CASE d = Difference("identity", "changed", "unknown", Blank, Blank, {}, {})
           \/ d = Difference("coverage", "changed", "unknown", Blank, Blank, {}, {})
  BY <1>1 DEF Difference
<1>2. CASE d \in EndpointDrafts(d.of)
  BY <1>2, EndpointShape
<1>3. CASE d.fact \in {"claim", "condition_group"} /\ d \in OwnerDrafts(<<d.of, d.key>>)
  <2> DEFINE owner == <<d.of, d.key>>
  <2>1. d \in OwnerDrafts(owner)
    BY <1>3
  <2> HIDE DEF owner
  <2>2. CASE d.fact = "condition_group"
    BY <2>1, <2>2, OwnerShape
  <2>3. CASE d.fact = "claim" /\ d \in ClaimDrafts(owner)
    BY <2>3, DraftShape DEF ClaimDrafts
  <2>4. CASE d \in Draft("claim", owner[1], owner[2], MembersOf(base, owner), {},
                         "unknown", "unknown", "unknown")
    BY <2>4, DraftShape
  <2>5. CASE d.change = "added"
    BY <2>5
  <2>. QED BY <1>3, <2>1, <2>2, <2>3, <2>4, <2>5, OwnerShape
<1>4. CASE d \in SchemaDrafts(d.of)
  BY <1>4, SchemaShape
<1>5. CASE d \in DiagnosticDrafts(d.of)
  BY <1>5, DiagnosticShape
<1>. QED BY <1>1, <1>2, <1>3, <1>4, <1>5, DraftOrigin

(* Endpoints of a later identity version are told of only when they        *)
(* differ.                                                                 *)
LEMMA DraftsAreSemantic ==
  ASSUME BothWellFormed, NEW d \in Drafts,
         \/ base.version # target.version \/ base.version = "current"
         \/ {<<e, Route(base, e)>> : e \in EndpointsOf(base)} =
            {<<e, Route(target, e)>> : e \in EndpointsOf(target)}
  PROVE  validateDifferenceSemantics(d)
<1>1. ASSUME d.fact = "condition_group", d.change = "changed" PROVE d.before # d.after
  <2> DEFINE owner == <<d.of, d.key>>
  <2>1. d \in OwnerDrafts(owner)
    BY <1>1, DraftOrigin DEF EndpointKinds, MemberKinds
  <2> HIDE DEF owner
  <2>2. /\ d.before = Gathered(Paired(owner), "changedBefore")
        /\ d.after = Gathered(Paired(owner), "changedAfter")
        /\ d.before \cup d.after # {}
    BY <1>1, <2>1, OwnerShape
  <2>3. \A m \in d.before : m \notin d.after
    BY <2>2, ChangedDiffers
  <2>. QED BY <2>2, <2>3
<1>2. ASSUME d.fact = "endpoint", NEW f \in d.before \cup d.after, f.kind = "endpoint"
      PROVE  f.part = "current"
  <2>1. base.version = target.version /\ d \in EndpointDrafts(d.of)
        /\ d.of \in EndpointsOf(base) \cup EndpointsOf(target)
    BY <1>2, DraftOrigin
  <2>2. ~Continues(d.of) /\ f \in base.facts \cup target.facts
    BY <1>2, <2>1, EndpointShape
  <2>3. f.part = base.version
    BY <1>2, <2>1, <2>2 DEF BothWellFormed, WellFormed
  <2>4. {<<e, Route(base, e)>> : e \in EndpointsOf(base)} #
        {<<e, Route(target, e)>> : e \in EndpointsOf(target)}
    <3> SUFFICES ASSUME {<<e, Route(base, e)>> : e \in EndpointsOf(base)} =
                        {<<e, Route(target, e)>> : e \in EndpointsOf(target)}
                 PROVE  Continues(d.of)
      BY <2>2
    <3>1. CASE d.of \in EndpointsOf(base)
      <4>1. PICK e \in EndpointsOf(target) : <<e, Route(target, e)>> = <<d.of, Route(base, d.of)>>
        BY <3>1
      <4>. QED BY <3>1, <4>1 DEF Continues
    <3>2. CASE d.of \in EndpointsOf(target)
      <4>1. PICK e \in EndpointsOf(base) : <<e, Route(base, e)>> = <<d.of, Route(target, d.of)>>
        BY <3>2
      <4>. QED BY <3>2, <4>1 DEF Continues
    <3>. QED BY <2>1, <3>1, <3>2
  <2>. QED BY <2>1, <2>3, <2>4
<1>. QED BY <1>1, <1>2 DEF validateDifferenceSemantics

-----------------------------------------------------------------------------
(* The facts: what the drafts of a group take away and put there.          *)
LEMMA FactsPlaced ==
  ASSUME NEW s, WellFormed(s), NEW x \in s.facts
  PROVE  /\ x.kind \in EndpointKinds \cup {"schema", "diagnostic"}
         /\ x.kind \in EndpointKinds => x.of \in EndpointsOf(s)
         /\ x.kind = "endpoint" =>
              x = [kind |-> "endpoint", of |-> x.of, key |-> Blank, part |-> s.version, value |-> x.value]
BY DEF WellFormed

(* A fact is told of by drafts that hold exactly its group.                *)
GroupTold(drafts, x) ==
  /\ x \in base.facts /\ x \notin target.facts => \E d \in drafts : x \in d.before
  /\ x \in target.facts /\ x \notin base.facts => \E d \in drafts : x \in d.after
  /\ x \in target.facts /\ (\E d \in drafts : x \in d.before) => \E d \in drafts : x \in d.after

LEMMA SchemaTold ==
  ASSUME NEW x, x.kind = "schema"
  PROVE  GroupTold(SchemaDrafts(x.of), x)
<1> DEFINE before == FactsOf(base, "schema", x.of)
           after == FactsOf(target, "schema", x.of)
<1>1. /\ x \in base.facts <=> x \in before
      /\ x \in target.facts <=> x \in after
  BY DEF FactsOf
<1>2. \A d \in SchemaDrafts(x.of) : d.before = before /\ d.after = after
  BY SchemaShape
<1>3. before # after => \E d \in SchemaDrafts(x.of) : TRUE
  BY SchemaMade
<1> HIDE DEF before, after
<1>. QED BY <1>1, <1>2, <1>3 DEF GroupTold

LEMMA DiagnosticTold ==
  ASSUME NEW x, x.kind = "diagnostic"
  PROVE  GroupTold(DiagnosticDrafts(x.of), x)
<1> DEFINE before == FactsOf(base, "diagnostic", x.of)
           after == FactsOf(target, "diagnostic", x.of)
           new == Difference("diagnostic", "added", "unknown", x.of, Blank, {}, after)
           gone == Difference("diagnostic", "resolved", "unknown", x.of, Blank, before, {})
<1>1. /\ x \in base.facts <=> x \in before
      /\ x \in target.facts <=> x \in after
  BY DEF FactsOf
<1>2. \A d \in DiagnosticDrafts(x.of) : x \in d.before => x \in before /\ before # after
  BY DiagnosticShape
<1>3. before # after => (after # {} => new \in DiagnosticDrafts(x.of))
                        /\ (before # {} => gone \in DiagnosticDrafts(x.of))
  BY DiagnosticMade
<1>4. new.after = after /\ gone.before = before
  BY DEF Difference
<1> HIDE DEF before, after, new, gone
<1>. QED BY <1>1, <1>2, <1>3, <1>4 DEF GroupTold

LEMMA NamesMade ==
  ASSUME NEW e, FactsOf(base, "names", e) # FactsOf(target, "names", e)
  PROVE  \E d \in NamesDrafts(e) : TRUE
<1>1. NamesDrafts(e) = {Difference("names", "changed", "potentially_breaking", e, Blank,
                          FactsOf(base, "names", e), FactsOf(target, "names", e))}
  BY Zenon DEF NamesDrafts
<1>. QED BY <1>1

(* The route of an endpoint that continues is one and the same fact.       *)
LEMMA RouteIsFact ==
  ASSUME NEW s, WellFormed(s), NEW t, WellFormed(t), s.version = t.version,
         NEW x \in s.facts, x.kind = "endpoint", Route(s, x.of) = Route(t, x.of)
  PROVE  x \in t.facts
<1>1. x.value \in Route(s, x.of)
  BY DEF Route, FactsOf
<1>2. PICK y \in FactsOf(t, "endpoint", x.of) : y.value = x.value
  BY <1>1 DEF Route
<1>3. y \in t.facts /\ y.kind = "endpoint" /\ y.of = x.of
  BY <1>2 DEF FactsOf
<1>4. x = [kind |-> "endpoint", of |-> x.of, key |-> Blank, part |-> s.version, value |-> x.value]
  BY FactsPlaced
<1>5. y = [kind |-> "endpoint", of |-> y.of, key |-> Blank, part |-> t.version, value |-> y.value]
  BY <1>3, FactsPlaced
<1>6. x = y
  BY <1>2, <1>3, <1>4, <1>5, Zenon
<1>. QED BY <1>3, <1>6

(* A fact of an endpoint is told of, whether or not the endpoint           *)
(* continues.                                                              *)
LEMMA EndpointTold ==
  ASSUME BothWellFormed, base.version = target.version,
         NEW x \in base.facts \cup target.facts, x.kind \in EndpointKinds
  PROVE  GroupTold(EndpointDrafts(x.of), x)
<1> DEFINE e == x.of
<1>1. /\ x \in base.facts => e \in EndpointsOf(base)
      /\ x \in target.facts => e \in EndpointsOf(target)
  BY FactsPlaced DEF BothWellFormed
<1>2. CASE ~Continues(e)
  <2> DEFINE new == Difference("endpoint", "added", "non_breaking", e, Blank, {}, Projection(target, e))
             gone == Gone("endpoint", e, Blank, Projection(base, e), "potentially_breaking")
  <2>1. /\ x \in base.facts <=> x \in Projection(base, e)
        /\ x \in target.facts <=> x \in Projection(target, e)
    BY DEF Projection
  <2>2. /\ new.after = Projection(target, e)
        /\ gone.before = Projection(base, e)
    BY DEF Difference, Gone
  <2>3. /\ e \in EndpointsOf(target) => new \in EndpointDrafts(e)
        /\ e \in EndpointsOf(base) => gone \in EndpointDrafts(e)
    BY <1>2 DEF EndpointDrafts
  <2>4. x \in Projection(base, e) \/ x \in Projection(target, e)
    BY <2>1
  <2> HIDE DEF new, gone
  <2>. QED BY <1>1, <2>1, <2>2, <2>3 DEF GroupTold
<1>3. CASE Continues(e) /\ x.kind = "endpoint"
  <2>1. x \in base.facts /\ x \in target.facts
    BY <1>3, RouteIsFact DEF BothWellFormed, Continues
  <2>2. \A d \in EndpointDrafts(e) : x \notin d.before
    <3> SUFFICES ASSUME NEW d \in EndpointDrafts(e) PROVE x \notin d.before
      OBVIOUS
    <3>1. CASE d \in NamesDrafts(e)
      BY <1>3, <3>1, NamesShape DEF FactsOf
    <3>2. CASE \E kind \in MemberKinds : \E key : d \in MemberDraft(kind, e, key)
      <4>1. PICK kind \in MemberKinds : \E key : d \in MemberDraft(kind, e, key)
        BY <3>2
      <4>2. PICK key : d \in MemberDraft(kind, e, key)
        BY <4>1
      <4>3. d.before = Members(base, kind, e, key)
        BY <4>2, MemberShape
      <4>. QED BY <1>3, <4>3 DEF Members, FactsOf, MemberKinds
    <3>. QED BY <1>3, <3>1, <3>2, EndpointPieces
  <2>. QED BY <2>1, <2>2 DEF GroupTold
<1>4. CASE Continues(e) /\ x.kind = "names"
  <2> DEFINE before == FactsOf(base, "names", e)
             after == FactsOf(target, "names", e)
  <2>1. /\ x \in base.facts <=> x \in before
        /\ x \in target.facts <=> x \in after
    BY <1>4 DEF FactsOf
  <2>2. \A d \in NamesDrafts(e) : d.before = before /\ d.after = after
    BY NamesShape
  <2>3. before # after => \E d \in NamesDrafts(e) : TRUE
    BY NamesMade
  <2>4. NamesDrafts(e) \subseteq EndpointDrafts(e)
    BY <1>4 DEF EndpointDrafts
  <2>5. \A d \in EndpointDrafts(e) : x \in d.before => d \in NamesDrafts(e)
    <3> SUFFICES ASSUME NEW d \in EndpointDrafts(e), x \in d.before PROVE d \in NamesDrafts(e)
      OBVIOUS
    <3>1. ASSUME NEW kind \in MemberKinds, NEW key, d \in MemberDraft(kind, e, key) PROVE FALSE
      <4>1. d.before = Members(base, kind, e, key)
        BY <3>1, MemberShape
      <4>. QED BY <1>4, <4>1 DEF Members, FactsOf, MemberKinds
    <3>. QED BY <1>4, <3>1, EndpointPieces
  <2> HIDE DEF before, after
  <2>. QED BY <2>1, <2>2, <2>3, <2>4, <2>5 DEF GroupTold
<1>5. CASE Continues(e) /\ x.kind \in MemberKinds
  <2> DEFINE before == Members(base, x.kind, e, x.key)
             after == Members(target, x.kind, e, x.key)
             drafts == MemberDraft(x.kind, e, x.key)
  <2>1. /\ x \in base.facts <=> x \in before
        /\ x \in target.facts <=> x \in after
    BY DEF Members, FactsOf
  <2>2. \A d \in drafts : d.before = before /\ d.after = after
    BY MemberShape
  <2>3. before # after => \E d \in drafts : TRUE
    BY MemberMade
  <2>4. drafts \subseteq EndpointDrafts(e)
    BY <1>5, MemberDrawn DEF EndpointDrafts
  <2>5. \A d \in EndpointDrafts(e) : x \in d.before => d \in drafts
    <3> SUFFICES ASSUME NEW d \in EndpointDrafts(e), x \in d.before PROVE d \in drafts
      OBVIOUS
    <3>1. CASE d \in NamesDrafts(e)
      BY <1>5, <3>1, NamesShape DEF FactsOf, MemberKinds
    <3>2. ASSUME NEW kind \in MemberKinds, NEW key, d \in MemberDraft(kind, e, key)
          PROVE  d \in drafts
      <4>1. d.before = Members(base, kind, e, key)
        BY <3>2, MemberShape
      <4>2. kind = x.kind /\ key = x.key
        BY <4>1 DEF Members, FactsOf
      <4>. QED BY <3>2, <4>2
    <3> HIDE DEF drafts
    <3>. QED BY <1>5, <3>1, <3>2, EndpointPieces
  <2> HIDE DEF before, after, drafts
  <2>. QED BY <2>1, <2>2, <2>3, <2>4, <2>5 DEF GroupTold
<1>. QED BY <1>2, <1>3, <1>4, <1>5 DEF EndpointKinds

(* A draft that is not of claims names facts of its own group only.        *)
LEMMA EndpointFacts ==
  ASSUME NEW e, NEW d \in EndpointDrafts(e)
  PROVE  /\ \A x \in d.before : x \in base.facts /\ x.of = e /\ x.kind \in EndpointKinds
         /\ \A x \in d.after : x \in target.facts /\ x.of = e /\ x.kind \in EndpointKinds
<1>1. CASE d \in NamesDrafts(e)
  BY <1>1, NamesShape DEF FactsOf, EndpointKinds
<1>2. ASSUME NEW kind \in MemberKinds, NEW key, d \in MemberDraft(kind, e, key)
      PROVE  /\ \A x \in d.before : x \in base.facts /\ x.of = e /\ x.kind \in EndpointKinds
             /\ \A x \in d.after : x \in target.facts /\ x.of = e /\ x.kind \in EndpointKinds
  <2>1. d.before = Members(base, kind, e, key) /\ d.after = Members(target, kind, e, key)
    BY <1>2, MemberShape
  <2>2. kind \in EndpointKinds
    BY DEF EndpointKinds
  <2>. QED BY <2>1, <2>2 DEF Members, FactsOf
<1>3. CASE d = Difference("endpoint", "added", "non_breaking", e, Blank, {}, Projection(target, e))
  <2>1. d.before = {} /\ d.after = Projection(target, e)
    BY <1>3 DEF Difference
  <2>. QED BY <2>1 DEF Projection
<1>4. CASE d = Gone("endpoint", e, Blank, Projection(base, e), "potentially_breaking")
  <2>1. d.before = Projection(base, e) /\ d.after = {}
    BY <1>4 DEF Gone, Difference
  <2>. QED BY <2>1 DEF Projection
<1>. QED BY <1>1, <1>2, <1>3, <1>4, EndpointPieces

AboutFacts(d) == d.fact \notin {"claim", "condition_group"}
GroupDrafts(x) ==
  IF x.kind = "schema" THEN SchemaDrafts(x.of)
  ELSE IF x.kind = "diagnostic" THEN DiagnosticDrafts(x.of) ELSE EndpointDrafts(x.of)

(* A difference holds facts of the two snapshots, and of its own group.    *)
LEMMA DraftFacts ==
  ASSUME NEW d \in Drafts, AboutFacts(d)
  PROVE  /\ \A x \in d.before : x \in Kinds(base) /\ d \in GroupDrafts(x)
         /\ \A x \in d.after : x \in Kinds(target) /\ d \in GroupDrafts(x)
<1>1. CASE d = Difference("identity", "changed", "unknown", Blank, Blank, {}, {})
           \/ d = Difference("coverage", "changed", "unknown", Blank, Blank, {}, {})
  <2>1. d.before = {} /\ d.after = {}
    BY <1>1 DEF Difference
  <2>. QED BY <2>1
<1>2. CASE base.version = target.version /\ d \in EndpointDrafts(d.of)
  <2>1. /\ \A x \in d.before : x \in base.facts /\ x.of = d.of /\ x.kind \in EndpointKinds
        /\ \A x \in d.after : x \in target.facts /\ x.of = d.of /\ x.kind \in EndpointKinds
    BY <1>2, EndpointFacts
  <2>2. "schema" \notin EndpointKinds /\ "diagnostic" \notin EndpointKinds
    BY DEF EndpointKinds, MemberKinds
  <2>. QED BY <1>2, <2>1, <2>2 DEF Kinds, GroupDrafts
<1>3. CASE d \in SchemaDrafts(d.of)
  <2>1. d.before = FactsOf(base, "schema", d.of) /\ d.after = FactsOf(target, "schema", d.of)
    BY <1>3, SchemaShape
  <2>. QED BY <1>3, <2>1 DEF FactsOf, Kinds, GroupDrafts
<1>4. CASE d \in DiagnosticDrafts(d.of)
  <2>1. /\ d.before \subseteq FactsOf(base, "diagnostic", d.of)
        /\ d.after \subseteq FactsOf(target, "diagnostic", d.of)
    BY <1>4, DiagnosticShape
  <2>2. /\ \A x \in d.before : x \in base.facts /\ x.kind = "diagnostic" /\ x.of = d.of
        /\ \A x \in d.after : x \in target.facts /\ x.kind = "diagnostic" /\ x.of = d.of
    BY <2>1 DEF FactsOf
  <2>. QED BY <1>4, <2>2 DEF Kinds, GroupDrafts
<1>. QED BY <1>1, <1>2, <1>3, <1>4, DraftOrigin DEF AboutFacts

(* Applied to the facts of the base the differences give the target's.     *)
LEMMA FactsApplied ==
  ASSUME BothWellFormed
  PROVE  Applied(Kinds(base), {d \in Drafts : AboutFacts(d)}) = Kinds(target)
<1> DEFINE D == {d \in Drafts : AboutFacts(d)}
<1>1. ASSUME NEW x \in Kinds(base) \cup Kinds(target)
      PROVE  GroupTold(GroupDrafts(x), x) /\ GroupDrafts(x) \subseteq D
  <2>1. /\ x \in base.facts \cup target.facts
        /\ base.version = target.version \/ x.kind \in {"schema", "diagnostic"}
    BY DEF Kinds
  <2>2. /\ x.kind \in EndpointKinds \cup {"schema", "diagnostic"}
        /\ x.kind \in EndpointKinds => x.of \in EndpointsOf(base) \cup EndpointsOf(target)
    BY <2>1, FactsPlaced DEF BothWellFormed
  <2>3. CASE x.kind = "schema"
    <3>1. GroupTold(SchemaDrafts(x.of), x) /\ SchemaDrafts(x.of) \subseteq Drafts
      BY <2>3, SchemaTold, DraftsHold
    <3>2. \A d \in SchemaDrafts(x.of) : AboutFacts(d)
      BY SchemaShape DEF AboutFacts
    <3>3. GroupDrafts(x) = SchemaDrafts(x.of)
      BY <2>3 DEF GroupDrafts
    <3>. QED BY <3>1, <3>2, <3>3
  <2>4. CASE x.kind = "diagnostic"
    <3>1. GroupTold(DiagnosticDrafts(x.of), x) /\ DiagnosticDrafts(x.of) \subseteq Drafts
      BY <2>4, DiagnosticTold, DraftsHold
    <3>2. \A d \in DiagnosticDrafts(x.of) : AboutFacts(d)
      BY DiagnosticShape DEF AboutFacts
    <3>3. GroupDrafts(x) = DiagnosticDrafts(x.of)
      BY <2>4 DEF GroupDrafts
    <3>. QED BY <3>1, <3>2, <3>3
  <2>5. CASE x.kind \in EndpointKinds
    <3>1. x.kind \notin {"schema", "diagnostic"}
      BY <2>5 DEF EndpointKinds, MemberKinds
    <3>2. GroupTold(EndpointDrafts(x.of), x) /\ EndpointDrafts(x.of) \subseteq Drafts
      BY <2>1, <2>2, <2>5, <3>1, EndpointTold, DraftsHold
    <3>3. \A d \in EndpointDrafts(x.of) : AboutFacts(d)
      BY EndpointShape DEF AboutFacts, EndpointKinds, MemberKinds
    <3>4. GroupDrafts(x) = EndpointDrafts(x.of)
      BY <3>1 DEF GroupDrafts
    <3>. QED BY <3>2, <3>3, <3>4
  <2>. QED BY <2>2, <2>3, <2>4, <2>5
<1>2. \A d \in D : /\ \A x \in d.before : x \in Kinds(base) /\ d \in GroupDrafts(x)
                   /\ \A x \in d.after : x \in Kinds(target) /\ d \in GroupDrafts(x)
  BY DraftFacts
<1>3. \A x \in Kinds(base) \cup Kinds(target) :
        /\ x \in Kinds(base) <=> x \in base.facts
        /\ x \in Kinds(target) <=> x \in target.facts
  BY DEF Kinds
<1> HIDE DEF D
<1>4. ASSUME NEW x PROVE x \in Applied(Kinds(base), D) <=> x \in Kinds(target)
  <2>1. CASE x \in Kinds(base) \cup Kinds(target)
    <3>1. GroupTold(GroupDrafts(x), x) /\ GroupDrafts(x) \subseteq D
      BY <1>1, <2>1
    <3>2. (\E d \in D : x \in d.before) => \E d \in GroupDrafts(x) : x \in d.before
      BY <1>2
    <3>3. (\E d \in D : x \in d.after) => x \in Kinds(target)
      BY <1>2
    <3>4. /\ x \in Kinds(base) <=> x \in base.facts
          /\ x \in Kinds(target) <=> x \in target.facts
      BY <1>3, <2>1
    <3>. QED BY <3>1, <3>2, <3>3, <3>4 DEF Applied, GroupTold
  <2>2. CASE x \notin Kinds(base) \cup Kinds(target)
    BY <1>2, <2>2 DEF Applied
  <2>. QED BY <2>1, <2>2
<1>. QED BY <1>4 DEF D

-----------------------------------------------------------------------------
(* Claims that are not stated twice: a place is a member of one side only. *)
LEMMA NumberOnce ==
  ASSUME NEW claims, IsFiniteSet(claims),
         \A c, d \in claims : Member(c) = Member(d) => c = d, NEW p, NEW condition
  PROVE  NumberOf(claims, p, condition) <= 1
<1> DEFINE S == {c \in claims : Partition(c) = p /\ c.condition = condition}
<1>1. ASSUME NEW c \in S, NEW d \in S PROVE c = d
  <2>1. Partition(c) = Partition(d) /\ c.condition = d.condition
    OBVIOUS
  <2>2. c.value = d.value /\ c.verification = d.verification
    BY <2>1 DEF Partition
  <2>3. Member(c) = Member(d)
    BY <2>1, <2>2 DEF Member
  <2>. QED BY <2>3
<1>2. S = {} \/ \E c : S = {c}
  BY <1>1
<1>3. Cardinality(S) = 0 \/ Cardinality(S) = 1
  BY <1>2, FS_EmptySet, FS_Singleton
<1>. QED BY <1>3 DEF NumberOf

(* With nothing stated twice, what is surplus on one side is a member      *)
(* there and not on the other side.                                        *)
LEMMA SurplusIsMember ==
  ASSUME NEW some, IsFiniteSet(some), NEW others, IsFiniteSet(others),
         \A c, d \in some : Member(c) = Member(d) => c = d,
         NEW p, p = <<p[1], p[2]>>, NEW x \in cancelEqualConditions(some, others, p)
  PROVE  /\ MemberAt(p, x) \in {Member(c) : c \in some}
         /\ MemberAt(p, x) \notin {Member(c) : c \in others}
<1> DEFINE n == NumberOf(some, p, ConditionAt(x))
           m == NumberOf(others, p, ConditionAt(x))
<1>1. m < n /\ n \in Nat /\ m \in Nat /\ n <= 1
  BY PlaceIsSurplus, NumberTyped, NumberOnce
<1>2. n # 0 /\ m = 0
  BY <1>1
<1>3. PICK c \in some : Partition(c) = p /\ c.condition = ConditionAt(x)
  BY <1>2, NumberTyped
<1>4. Member(c) = MemberAt(p, x)
  BY <1>3 DEF Member, MemberAt, Partition
<1>5. \A d \in others : Member(d) # MemberAt(p, x)
  <2> SUFFICES ASSUME NEW d \in others, Member(d) = MemberAt(p, x) PROVE FALSE
    OBVIOUS
  <2>1. d.value = p[1] /\ d.verification = p[2] /\ d.condition = ConditionAt(x)
    BY DEF Member, MemberAt
  <2>2. Partition(d) = p
    BY <2>1 DEF Partition
  <2>. QED BY <1>2, <2>1, <2>2, NumberTyped
<1>. QED BY <1>3, <1>4, <1>5

(* With nothing stated twice, a member of one side only is surplus there.  *)
LEMMA MemberIsSurplus ==
  ASSUME NEW some, IsFiniteSet(some), NEW others, IsFiniteSet(others),
         NEW c \in some, c.condition \in ConditionsOf,
         Member(c) \notin {Member(d) : d \in others}
  PROVE  \E x \in cancelEqualConditions(some, others, Partition(c)) :
           MemberAt(Partition(c), x) = Member(c)
<1> DEFINE p == Partition(c)
<1>1. PICK i \in 0..Len(Conditions) : ConditionAt(<<i, 1>>) = c.condition
  BY ConditionsArePlaces
<1>2. NumberOf(some, p, c.condition) \in Nat \ {0}
  BY NumberTyped
<1>3. \A d \in others : ~(Partition(d) = p /\ d.condition = c.condition)
  BY DEF Partition, Member
<1>4. NumberOf(others, p, c.condition) = 0
  BY <1>3, NumberTyped
<1>5. NumberOf(others, p, ConditionAt(<<i, 1>>)) < NumberOf(some, p, ConditionAt(<<i, 1>>))
  BY <1>1, <1>2, <1>4
<1>6. <<i, 1>> \in cancelEqualConditions(some, others, p)
  <2> HIDE DEF p
  <2>. QED BY <1>5, SurplusHasPlace
<1>7. MemberAt(p, <<i, 1>>) = Member(c)
  BY <1>1 DEF MemberAt, Member, Partition
<1>. QED BY <1>6, <1>7

LEMMA DistinctGroups ==
  ASSUME NEW s, Distinct(s), NEW owner
  PROVE  \A c, d \in Group(s, owner) : Member(c) = Member(d) => c = d
BY DEF Distinct, Group

(* The surplus of both sides, partition by partition, is the difference of *)
(* the members.                                                            *)
LEMMA DistinctPlaces ==
  ASSUME BothWellFormed, Distinct(base), Distinct(target), NEW owner
  PROVE  /\ \A p \in Partitions(owner) :
              /\ \A x \in Old(owner, p) : /\ MemberAt(p, x) \in MembersOf(base, owner)
                                          /\ MemberAt(p, x) \notin MembersOf(target, owner)
              /\ \A x \in New(owner, p) : /\ MemberAt(p, x) \in MembersOf(target, owner)
                                          /\ MemberAt(p, x) \notin MembersOf(base, owner)
         /\ \A m \in MembersOf(base, owner) \ MembersOf(target, owner) :
              \E p \in Partitions(owner) : \E x \in Old(owner, p) : m = MemberAt(p, x)
         /\ \A m \in MembersOf(target, owner) \ MembersOf(base, owner) :
              \E p \in Partitions(owner) : \E x \in New(owner, p) : m = MemberAt(p, x)
<1> DEFINE B == Group(base, owner)
           T == Group(target, owner)
<1>1. /\ IsFiniteSet(B) /\ IsFiniteSet(T)
      /\ \A c \in B \cup T : c.condition \in ConditionsOf
  BY GroupsTyped DEF BothWellFormed
<1>2. /\ \A c, d \in B : Member(c) = Member(d) => c = d
      /\ \A c, d \in T : Member(c) = Member(d) => c = d
  BY DistinctGroups
<1>3. MembersOf(base, owner) = {Member(c) : c \in B} /\ MembersOf(target, owner) = {Member(c) : c \in T}
  BY DEF MembersOf
<1>4. Partitions(owner) = {Partition(c) : c \in B \cup T}
  BY DEF Partitions
<1>5. \A p : Old(owner, p) = cancelEqualConditions(B, T, p) /\ New(owner, p) = cancelEqualConditions(T, B, p)
  BY DEF Old, New
<1> HIDE DEF B, T
<1>6. ASSUME NEW p \in Partitions(owner)
      PROVE  /\ \A x \in Old(owner, p) : /\ MemberAt(p, x) \in MembersOf(base, owner)
                                         /\ MemberAt(p, x) \notin MembersOf(target, owner)
             /\ \A x \in New(owner, p) : /\ MemberAt(p, x) \in MembersOf(target, owner)
                                         /\ MemberAt(p, x) \notin MembersOf(base, owner)
  <2>1. p = <<p[1], p[2]>>
    BY <1>4 DEF Partition
  <2>2. \A x \in cancelEqualConditions(B, T, p) :
          MemberAt(p, x) \in {Member(c) : c \in B} /\ MemberAt(p, x) \notin {Member(c) : c \in T}
    BY <1>1, <1>2, <2>1, SurplusIsMember
  <2>3. \A x \in cancelEqualConditions(T, B, p) :
          MemberAt(p, x) \in {Member(c) : c \in T} /\ MemberAt(p, x) \notin {Member(c) : c \in B}
    BY <1>1, <1>2, <2>1, SurplusIsMember
  <2>. QED BY <1>3, <1>5, <2>2, <2>3, Zenon
<1>7. ASSUME NEW m \in MembersOf(base, owner) \ MembersOf(target, owner)
      PROVE  \E p \in Partitions(owner) : \E x \in Old(owner, p) : m = MemberAt(p, x)
  <2>1. PICK c \in B : m = Member(c)
    BY <1>3
  <2>2. Member(c) \notin {Member(d) : d \in T}
    BY <1>3, <2>1
  <2>3. \E x \in cancelEqualConditions(B, T, Partition(c)) : MemberAt(Partition(c), x) = Member(c)
    BY <1>1, <2>2, MemberIsSurplus
  <2>4. Partition(c) \in Partitions(owner)
    BY <1>4
  <2>. QED BY <1>5, <2>1, <2>3, <2>4, Zenon
<1>8. ASSUME NEW m \in MembersOf(target, owner) \ MembersOf(base, owner)
      PROVE  \E p \in Partitions(owner) : \E x \in New(owner, p) : m = MemberAt(p, x)
  <2>1. PICK c \in T : m = Member(c)
    BY <1>3
  <2>2. Member(c) \notin {Member(d) : d \in B}
    BY <1>3, <2>1
  <2>3. \E x \in cancelEqualConditions(T, B, Partition(c)) : MemberAt(Partition(c), x) = Member(c)
    BY <1>1, <2>2, MemberIsSurplus
  <2>4. Partition(c) \in Partitions(owner)
    BY <1>4
  <2>. QED BY <1>5, <2>1, <2>3, <2>4, Zenon
<1>. QED BY <1>6, <1>7, <1>8

(* What the drafts of an owner whose endpoint continues take and put.      *)
LEMMA ContinuousTold ==
  ASSUME NEW owner, ~Discontinuous(owner[1])
  PROVE  \A m :
           /\ (\E d \in OwnerDrafts(owner) : m \in d.before) <=>
                m \in Gathered(Paired(owner), "removed") \cup Gathered(Paired(owner), "changedBefore")
                      \cup Gathered(Paired(owner), "leftBefore")
           /\ (\E d \in OwnerDrafts(owner) : m \in d.after) <=>
                m \in Gathered(Paired(owner), "added") \cup Gathered(Paired(owner), "changedAfter")
                      \cup Gathered(Paired(owner), "leftAfter")
           /\ (\E d \in OwnerDrafts(owner) :
                 d.fact = "condition_group" /\ d.change = "added" /\ m \in d.after) <=>
                m \in Gathered(Paired(owner), "added")
           /\ (\E d \in OwnerDrafts(owner) :
                 d.fact = "condition_group" /\ d.change = "removed" /\ m \in d.before) <=>
                m \in Gathered(Paired(owner), "removed")
<1> DEFINE A == Gathered(Paired(owner), "added")
           R == Gathered(Paired(owner), "removed")
           B == Gathered(Paired(owner), "changedBefore")
           C == Gathered(Paired(owner), "changedAfter")
           X == Gathered(Paired(owner), "leftBefore")
           Y == Gathered(Paired(owner), "leftAfter")
           DA == ConditionDrafts(owner, "added", "potentially_breaking", {}, A)
           DR == ConditionDrafts(owner, "removed", "unknown", R, {})
           DC == ConditionDrafts(owner, "changed", "potentially_breaking", B, C)
           DL == ClaimDrafts(owner)
<1>1. OwnerDrafts(owner) = DA \cup DR \cup DC \cup DL
  BY OwnerPieces
<1>2. /\ \A d \in DL : d.fact = "claim" /\ d.before = X /\ d.after = Y
      /\ X \cup Y # {} => \E d \in DL : TRUE
  <2> DEFINE label == changedClaimCompatibility(owner, X, Y, Count(Paired(owner), "leftBefore"),
                                                Count(Paired(owner), "leftAfter"))
  <2>1. DL = Draft("claim", owner[1], owner[2], X, Y, "unknown", "unknown", label)
    BY DEF ClaimDrafts
  <2> HIDE DEF X, Y, DL, label
  <2>. QED BY <2>1, DraftShape, DraftMade
<1>3. /\ \A d \in DA : d.fact = "condition_group" /\ d.change = "added" /\ d.before = {} /\ d.after = A
      /\ A # {} => \E d \in DA : TRUE
  <2> HIDE DEF A
  <2>. QED BY ConditionShape, ConditionMade
<1>4. /\ \A d \in DR : d.fact = "condition_group" /\ d.change = "removed" /\ d.before = R /\ d.after = {}
      /\ R # {} => \E d \in DR : TRUE
  <2> HIDE DEF R
  <2>. QED BY ConditionShape, ConditionMade
<1>5. /\ \A d \in DC : d.fact = "condition_group" /\ d.change = "changed" /\ d.before = B /\ d.after = C
      /\ B \cup C # {} => \E d \in DC : TRUE
  <2> HIDE DEF B, C
  <2>. QED BY ConditionShape, ConditionMade
<1> HIDE DEF A, R, B, C, X, Y, DA, DR, DC, DL
<1>6. ASSUME NEW m
      PROVE  /\ (\E d \in OwnerDrafts(owner) : m \in d.before) <=> m \in R \cup B \cup X
             /\ (\E d \in OwnerDrafts(owner) : m \in d.after) <=> m \in A \cup C \cup Y
             /\ (\E d \in OwnerDrafts(owner) :
                   d.fact = "condition_group" /\ d.change = "added" /\ m \in d.after) <=> m \in A
             /\ (\E d \in OwnerDrafts(owner) :
                   d.fact = "condition_group" /\ d.change = "removed" /\ m \in d.before) <=> m \in R
  <2>1. (\E d \in OwnerDrafts(owner) : m \in d.before) <=> m \in R \cup B \cup X
    BY <1>1, <1>2, <1>3, <1>4, <1>5
  <2>2. (\E d \in OwnerDrafts(owner) : m \in d.after) <=> m \in A \cup C \cup Y
    BY <1>1, <1>2, <1>3, <1>4, <1>5
  <2>3. (\E d \in OwnerDrafts(owner) :
           d.fact = "condition_group" /\ d.change = "added" /\ m \in d.after) <=> m \in A
    BY <1>1, <1>2, <1>3, <1>4, <1>5
  <2>4. (\E d \in OwnerDrafts(owner) :
           d.fact = "condition_group" /\ d.change = "removed" /\ m \in d.before) <=> m \in R
    BY <1>1, <1>2, <1>3, <1>4, <1>5
  <2>. QED BY <2>1, <2>2, <2>3, <2>4
<1>. QED BY <1>6 DEF A, R, B, C, X, Y

(* A condition that was added names a partition whose unconditional member *)
(* is gone, one that was removed a partition that has a new one.           *)
Unconditioned(members) == {[m EXCEPT !.condition = Null] : m \in members}

LEMMA NullPlaces ==
  ASSUME BothWellFormed, NEW owner, NEW p \in Partitions(owner)
  PROVE  /\ \A x \in Nulls(Old(owner, p)) \cup Nulls(New(owner, p)) :
              MemberAt(p, x) = [value |-> p[1], verification |-> p[2], condition |-> Null]
         /\ \A x : [MemberAt(p, x) EXCEPT !.condition = Null]
                     = [value |-> p[1], verification |-> p[2], condition |-> Null]
<1>1. \A x \in Nulls(Old(owner, p)) \cup Nulls(New(owner, p)) : ConditionAt(x) = Null
  BY DEF Nulls, ConditionAt
<1>2. \A x : [MemberAt(p, x) EXCEPT !.condition = Null]
               = [value |-> p[1], verification |-> p[2], condition |-> Null]
  BY DEF MemberAt
<1>. QED BY <1>1, <1>2 DEF MemberAt

(* Everything surplus is told of: as paired, as left alone, or as the      *)
(* unconditional member a condition takes the place of.                    *)
LEMMA UnconditionalTold ==
  ASSUME BothWellFormed, NEW owner
  PROVE  /\ \A m \in Unconditioned(Gathered(Paired(owner), "added")) :
              \E p \in Partitions(owner) : \E x \in Old(owner, p) : m = MemberAt(p, x)
         /\ \A m \in Unconditioned(Gathered(Paired(owner), "removed")) :
              \E p \in Partitions(owner) : \E x \in New(owner, p) : m = MemberAt(p, x)
         /\ \A p \in Partitions(owner) :
              /\ \A x \in Old(owner, p) :
                   MemberAt(p, x) \in Gathered(Paired(owner), "removed")
                     \cup Gathered(Paired(owner), "changedBefore")
                     \cup Gathered(Paired(owner), "leftBefore")
                     \cup Unconditioned(Gathered(Paired(owner), "added"))
              /\ \A x \in New(owner, p) :
                   MemberAt(p, x) \in Gathered(Paired(owner), "added")
                     \cup Gathered(Paired(owner), "changedAfter")
                     \cup Gathered(Paired(owner), "leftAfter")
                     \cup Unconditioned(Gathered(Paired(owner), "removed"))
<1> DEFINE null(p) == [value |-> p[1], verification |-> p[2], condition |-> Null]
           At(p) == Paired(owner)[p]
<1>1. ASSUME NEW p \in Partitions(owner), NEW x \in At(p).added
      PROVE  \E y \in Nulls(Old(owner, p)) : [MemberAt(p, x) EXCEPT !.condition = Null] = MemberAt(p, y)
  <2>1. Nulls(Old(owner, p)) # {}
    BY <1>1, PairedAt
  <2>2. PICK y \in Nulls(Old(owner, p)) : TRUE
    BY <2>1
  <2>. QED BY NullPlaces
<1>2. ASSUME NEW p \in Partitions(owner), NEW x \in At(p).removed
      PROVE  \E y \in Nulls(New(owner, p)) : [MemberAt(p, x) EXCEPT !.condition = Null] = MemberAt(p, y)
  <2>1. Nulls(New(owner, p)) # {}
    BY <1>2, PairedAt
  <2>2. PICK y \in Nulls(New(owner, p)) : TRUE
    BY <2>1
  <2>. QED BY NullPlaces
<1>3. \A s : Nulls(s) \subseteq s
  BY DEF Nulls
<1>4. ASSUME NEW m \in Unconditioned(Gathered(Paired(owner), "added"))
      PROVE  \E p \in Partitions(owner) : \E x \in Old(owner, p) : m = MemberAt(p, x)
  <2>1. PICK n \in Gathered(Paired(owner), "added") : m = [n EXCEPT !.condition = Null]
    BY DEF Unconditioned
  <2>2. PICK p \in Partitions(owner) : \E x \in Paired(owner)[p]["added"] : n = MemberAt(p, x)
    BY GatheredFrom
  <2>3. PICK x \in At(p).added : n = MemberAt(p, x)
    BY <2>2
  <2>4. PICK y \in Nulls(Old(owner, p)) : [MemberAt(p, x) EXCEPT !.condition = Null] = MemberAt(p, y)
    BY <1>1, <2>3
  <2>5. m = MemberAt(p, y)
    BY <2>1, <2>3, <2>4, Zenon
  <2>. QED BY <1>3, <2>5
<1>5. ASSUME NEW m \in Unconditioned(Gathered(Paired(owner), "removed"))
      PROVE  \E p \in Partitions(owner) : \E x \in New(owner, p) : m = MemberAt(p, x)
  <2>1. PICK n \in Gathered(Paired(owner), "removed") : m = [n EXCEPT !.condition = Null]
    BY DEF Unconditioned
  <2>2. PICK p \in Partitions(owner) : \E x \in Paired(owner)[p]["removed"] : n = MemberAt(p, x)
    BY GatheredFrom
  <2>3. PICK x \in At(p).removed : n = MemberAt(p, x)
    BY <2>2
  <2>4. PICK y \in Nulls(New(owner, p)) : [MemberAt(p, x) EXCEPT !.condition = Null] = MemberAt(p, y)
    BY <1>2, <2>3
  <2>5. m = MemberAt(p, y)
    BY <2>1, <2>3, <2>4, Zenon
  <2>. QED BY <1>3, <2>5
<1>6. ASSUME NEW p \in Partitions(owner)
      PROVE  /\ \A x \in At(p).removed : MemberAt(p, x) \in Gathered(Paired(owner), "removed")
             /\ \A x \in At(p).changedBefore : MemberAt(p, x) \in Gathered(Paired(owner), "changedBefore")
             /\ \A x \in At(p).leftBefore : MemberAt(p, x) \in Gathered(Paired(owner), "leftBefore")
             /\ \A x \in At(p).added : MemberAt(p, x) \in Gathered(Paired(owner), "added")
             /\ \A x \in At(p).changedAfter : MemberAt(p, x) \in Gathered(Paired(owner), "changedAfter")
             /\ \A x \in At(p).leftAfter : MemberAt(p, x) \in Gathered(Paired(owner), "leftAfter")
  BY GatheredFrom
<1>7. ASSUME NEW p \in Partitions(owner), NEW y
      PROVE  /\ \A x \in At(p).added : y \in Nulls(Old(owner, p)) =>
                  MemberAt(p, y) \in Unconditioned(Gathered(Paired(owner), "added"))
             /\ \A x \in At(p).removed : y \in Nulls(New(owner, p)) =>
                  MemberAt(p, y) \in Unconditioned(Gathered(Paired(owner), "removed"))
  <2>1. ASSUME NEW x, y \in Nulls(Old(owner, p)) \cup Nulls(New(owner, p))
        PROVE  [MemberAt(p, x) EXCEPT !.condition = Null] = MemberAt(p, y)
    <3>1. MemberAt(p, y) = null(p)
      BY <2>1, NullPlaces
    <3>2. [MemberAt(p, x) EXCEPT !.condition = Null] = null(p)
      BY NullPlaces
    <3>. QED BY <3>1, <3>2, Zenon
  <2>2. \A S : \A m \in S : [m EXCEPT !.condition = Null] \in Unconditioned(S)
    BY DEF Unconditioned
  <2>3. ASSUME NEW x \in At(p).added, y \in Nulls(Old(owner, p))
        PROVE  MemberAt(p, y) \in Unconditioned(Gathered(Paired(owner), "added"))
    <3>1. [MemberAt(p, x) EXCEPT !.condition = Null] \in Unconditioned(Gathered(Paired(owner), "added"))
      BY <1>6, <2>2, Zenon
    <3>. QED BY <2>1, <2>3, <3>1
  <2>4. ASSUME NEW x \in At(p).removed, y \in Nulls(New(owner, p))
        PROVE  MemberAt(p, y) \in Unconditioned(Gathered(Paired(owner), "removed"))
    <3>1. [MemberAt(p, x) EXCEPT !.condition = Null] \in Unconditioned(Gathered(Paired(owner), "removed"))
      BY <1>6, <2>2, Zenon
    <3>. QED BY <2>1, <2>4, <3>1
  <2>. QED BY <2>3, <2>4
<1>8. ASSUME NEW p \in Partitions(owner), NEW x \in Old(owner, p)
      PROVE  MemberAt(p, x) \in Gathered(Paired(owner), "removed")
                     \cup Gathered(Paired(owner), "changedBefore")
                     \cup Gathered(Paired(owner), "leftBefore")
                     \cup Unconditioned(Gathered(Paired(owner), "added"))
  <2>1. /\ Old(owner, p) \ Nulls(Old(owner, p)) \subseteq At(p).removed \cup At(p).changedBefore \cup At(p).leftBefore
        /\ Nulls(Old(owner, p)) \subseteq At(p).leftBefore \/ At(p).added # {}
    BY PairedAt
  <2> HIDE DEF At
  <2>. QED BY <1>6, <1>7, <2>1
<1>9. ASSUME NEW p \in Partitions(owner), NEW x \in New(owner, p)
      PROVE  MemberAt(p, x) \in Gathered(Paired(owner), "added")
                     \cup Gathered(Paired(owner), "changedAfter")
                     \cup Gathered(Paired(owner), "leftAfter")
                     \cup Unconditioned(Gathered(Paired(owner), "removed"))
  <2>1. /\ New(owner, p) \ Nulls(New(owner, p)) \subseteq At(p).added \cup At(p).changedAfter \cup At(p).leftAfter
        /\ Nulls(New(owner, p)) \subseteq At(p).leftAfter \/ At(p).removed # {}
    BY PairedAt
  <2> HIDE DEF At
  <2>. QED BY <1>6, <1>7, <2>1
<1>. QED BY <1>4, <1>5, <1>8, <1>9

-----------------------------------------------------------------------------
(* The claims of every owner, once the differences are applied.            *)
LEMMA MineAre ==
  ASSUME base.version = target.version, NEW owner \in Owners
  PROVE  {d \in Drafts : <<d.of, d.key>> = owner /\ d.fact \in {"claim", "condition_group"}}
           = OwnerDrafts(owner)
<1>1. ASSUME NEW d \in Drafts, <<d.of, d.key>> = owner, d.fact \in {"claim", "condition_group"}
      PROVE  d \in OwnerDrafts(owner)
  <2>1. d \in OwnerDrafts(<<d.of, d.key>>)
    BY <1>1, DraftOrigin DEF EndpointKinds, MemberKinds
  <2>. QED BY <1>1, <2>1
<1>2. ASSUME NEW d \in OwnerDrafts(owner)
      PROVE  d \in Drafts /\ <<d.of, d.key>> = owner /\ d.fact \in {"claim", "condition_group"}
  <2>1. d \in Drafts
    BY DraftsHold
  <2>2. d.of = owner[1] /\ d.key = owner[2] /\ d.fact \in {"claim", "condition_group"}
    BY OwnerShape
  <2>. QED BY <2>1, <2>2, OwnersArePairs
<1>. QED BY <1>1, <1>2

OwnersClaims(owner) ==
  LET mine == OwnerDrafts(owner)
      Side(change) == {x \in mine : x.fact = "condition_group" /\ x.change = change}
  IN  ((MembersOf(base, owner) \ UNION {d.before : d \in mine})
         \ Unconditioned(UNION {d.after : d \in Side("added")}))
      \cup (UNION {d.after : d \in mine}) \cup Unconditioned(UNION {d.before : d \in Side("removed")})

(* The differences of an owner turn its members of the base into those of  *)
(* the target.                                                             *)
LEMMA OwnersClaimsTell ==
  ASSUME BothWellFormed, Distinct(base), Distinct(target), NEW owner
  PROVE  OwnersClaims(owner) = MembersOf(target, owner)
<1> DEFINE mine == OwnerDrafts(owner)
           Side(change) == {x \in mine : x.fact = "condition_group" /\ x.change = change}
           M == MembersOf(base, owner)
           N == MembersOf(target, owner)
<1>1. OwnersClaims(owner) =
        ((M \ UNION {d.before : d \in mine}) \ Unconditioned(UNION {d.after : d \in Side("added")}))
        \cup (UNION {d.after : d \in mine}) \cup Unconditioned(UNION {d.before : d \in Side("removed")})
  BY Zenon DEF OwnersClaims
<1>2. CASE Discontinuous(owner[1])
  <2> DEFINE gone == Draft("claim", owner[1], owner[2], M, {}, "unknown", "unknown", "unknown")
             new == Draft("claim", owner[1], owner[2], {}, N, "unknown", "unknown", "unknown")
  <2>1. mine = gone \cup new
    BY <1>2, OwnerPieces
  <2>2. /\ \A d \in gone : d.fact = "claim" /\ d.before = M /\ d.after = {}
        /\ M # {} => \E d \in gone : TRUE
    <3> HIDE DEF M
    <3>. QED BY DraftShape, DraftMade
  <2>3. /\ \A d \in new : d.fact = "claim" /\ d.before = {} /\ d.after = N
        /\ N # {} => \E d \in new : TRUE
    <3> HIDE DEF N
    <3>. QED BY DraftShape, DraftMade
  <2> HIDE DEF gone, new
  <2>4. \A d \in mine : d.fact = "claim" /\ d.before \subseteq M /\ d.after \subseteq N
    BY <2>1, <2>2, <2>3
  <2>5. (UNION {d.before : d \in mine}) = M /\ (UNION {d.after : d \in mine}) = N
    <3> HIDE DEF mine, M, N
    <3>. QED BY <2>1, <2>2, <2>3
  <2>6. /\ (UNION {d.after : d \in Side("added")}) = {}
        /\ (UNION {d.before : d \in Side("removed")}) = {}
    <3> HIDE DEF mine, M, N
    <3>. QED BY <2>4
  <2>7. Unconditioned({}) = {}
    BY DEF Unconditioned
  <2> HIDE DEF mine, M, N, Side
  <2>. QED BY <1>1, <2>5, <2>6, <2>7 DEF N
<1>3. CASE ~Discontinuous(owner[1])
  <2> DEFINE A == Gathered(Paired(owner), "added")
             R == Gathered(Paired(owner), "removed")
             B == Gathered(Paired(owner), "changedBefore")
             C == Gathered(Paired(owner), "changedAfter")
             X == Gathered(Paired(owner), "leftBefore")
             Y == Gathered(Paired(owner), "leftAfter")
             Was(m) == \E p \in Partitions(owner) : \E x \in Old(owner, p) : m = MemberAt(p, x)
             Now(m) == \E p \in Partitions(owner) : \E x \in New(owner, p) : m = MemberAt(p, x)
  <2>1. /\ (UNION {d.before : d \in mine}) = R \cup B \cup X
        /\ (UNION {d.after : d \in mine}) = A \cup C \cup Y
        /\ (UNION {d.after : d \in Side("added")}) = A
        /\ (UNION {d.before : d \in Side("removed")}) = R
    <3>1. \A m : /\ (\E d \in mine : m \in d.before) <=> m \in R \cup B \cup X
                 /\ (\E d \in mine : m \in d.after) <=> m \in A \cup C \cup Y
                 /\ (\E d \in mine : d.fact = "condition_group" /\ d.change = "added" /\ m \in d.after)
                      <=> m \in A
                 /\ (\E d \in mine : d.fact = "condition_group" /\ d.change = "removed" /\ m \in d.before)
                      <=> m \in R
      BY <1>3, ContinuousTold
    <3> HIDE DEF mine, A, R, B, C, X, Y
    <3>2. (UNION {d.before : d \in mine}) = R \cup B \cup X /\ (UNION {d.after : d \in mine}) = A \cup C \cup Y
      BY <3>1
    <3>3. (UNION {d.after : d \in Side("added")}) = A
      BY <3>1
    <3>4. (UNION {d.before : d \in Side("removed")}) = R
      BY <3>1
    <3>. QED BY <3>2, <3>3, <3>4
  <2>2. /\ \A m : Was(m) => m \in M /\ m \notin N
        /\ \A m : Now(m) => m \in N /\ m \notin M
        /\ \A m \in M \ N : Was(m)
        /\ \A m \in N \ M : Now(m)
    BY DistinctPlaces
  <2>3. /\ \A m \in R \cup B \cup X : Was(m)
        /\ \A m \in A \cup C \cup Y : Now(m)
    <3>1. \A p \in Partitions(owner) :
            /\ Paired(owner)[p].removed \subseteq Old(owner, p)
            /\ Paired(owner)[p].changedBefore \subseteq Old(owner, p)
            /\ Paired(owner)[p].leftBefore \subseteq Old(owner, p)
            /\ Paired(owner)[p].added \subseteq New(owner, p)
            /\ Paired(owner)[p].changedAfter \subseteq New(owner, p)
            /\ Paired(owner)[p].leftAfter \subseteq New(owner, p)
      BY PairedAt
    <3>. QED BY <3>1, GatheredFrom
  <2>4. /\ \A m \in Unconditioned(A) : Was(m)
        /\ \A m \in Unconditioned(R) : Now(m)
        /\ \A m : Was(m) => m \in R \cup B \cup X \cup Unconditioned(A)
        /\ \A m : Now(m) => m \in A \cup C \cup Y \cup Unconditioned(R)
    BY UnconditionalTold
  <2>5. OwnersClaims(owner) =
          ((M \ (R \cup B \cup X)) \ Unconditioned(A)) \cup (A \cup C \cup Y) \cup Unconditioned(R)
    <3> HIDE DEF mine, A, R, B, C, X, Y, M, N, Side
    <3>. QED BY <1>1, <2>1
  <2> HIDE DEF mine, A, R, B, C, X, Y, M, N, Side, Was, Now
  <2>6. OwnersClaims(owner) = N
    BY <2>2, <2>3, <2>4, <2>5
  <2>. QED BY <2>6 DEF N
<1>. QED BY <1>2, <1>3

(* So do the differences of the set that are about this owner.             *)
LEMMA ClaimsTold ==
  ASSUME BothWellFormed, Distinct(base), Distinct(target), base.version = target.version,
         set.differences = Drafts, NEW owner \in Owners
  PROVE  ClaimsApplied(owner) = {Member(c) : c \in {x \in target.claims : Owner(x) = owner}}
<1> DEFINE mine == {d \in set.differences : <<d.of, d.key>> = owner
                                            /\ d.fact \in {"claim", "condition_group"}}
           Unconditional(change, side) ==
             {[m EXCEPT !.condition = Null] : m \in
                UNION {d[side] : d \in {x \in mine : x.fact = "condition_group"
                                                     /\ x.change = change}}}
           members == {Member(c) : c \in {x \in base.claims : Owner(x) = owner}}
<1>1. ClaimsApplied(owner) =
        ((members \ UNION {d.before : d \in mine}) \ Unconditional("added", "after"))
        \cup (UNION {d.after : d \in mine}) \cup Unconditional("removed", "before")
  BY Zenon DEF ClaimsApplied
<1>2. mine = OwnerDrafts(owner)
  BY MineAre
<1>3. members = MembersOf(base, owner)
      /\ {Member(c) : c \in {x \in target.claims : Owner(x) = owner}} = MembersOf(target, owner)
  BY DEF MembersOf, Group
<1>4. /\ Unconditional("added", "after") =
           Unconditioned(UNION {d.after : d \in {x \in mine : x.fact = "condition_group" /\ x.change = "added"}})
      /\ Unconditional("removed", "before") =
           Unconditioned(UNION {d.before : d \in {x \in mine : x.fact = "condition_group" /\ x.change = "removed"}})
  BY DEF Unconditioned
<1> HIDE DEF mine, Unconditional, members
<1>5. ClaimsApplied(owner) = OwnersClaims(owner)
  BY <1>1, <1>2, <1>3, <1>4, Zenon DEF OwnersClaims
<1>. QED BY <1>3, <1>5, OwnersClaimsTell

-----------------------------------------------------------------------------
(* What is said not to break does not.                                     *)
Harmless == \A d \in Drafts : d.compatibility = "non_breaking"

(* Without a breaking difference every endpoint continues.                 *)
LEMMA HarmlessEndpoints ==
  ASSUME base.version = target.version, Complete(target), Harmless, NEW e \in EndpointsOf(base)
  PROVE  Continues(e) /\ EndpointDrafts(e) \subseteq Drafts
<1>1. EndpointDrafts(e) \subseteq Drafts
  BY DraftsHold
<1>2. ASSUME ~Continues(e) PROVE FALSE
  <2> DEFINE gone == Gone("endpoint", e, Blank, Projection(base, e), "potentially_breaking")
  <2>1. gone \in EndpointDrafts(e)
    BY <1>2 DEF EndpointDrafts
  <2>2. gone.compatibility = "potentially_breaking"
    BY DEF Gone, Difference
  <2> HIDE DEF gone
  <2>. QED BY <1>1, <2>1, <2>2 DEF Harmless
<1>. QED BY <1>1, <1>2

(* A member that differs is a request member that became optional, in a    *)
(* form that stayed.                                                       *)
LEMMA HarmlessMembers ==
  ASSUME base.version = target.version, Complete(target), Harmless, NEW e \in EndpointsOf(base),
         NEW kind \in MemberKinds, NEW key,
         NEW before, before = Members(base, kind, e, key),
         NEW after, after = Members(target, kind, e, key), before # after
  PROVE  /\ kind \in RequestKinds
         /\ \/ before = {} /\ after # {} /\ addedMemberCompatibility(after) = "non_breaking"
            \/ before # {} /\ after # {} /\ changedMemberCompatibility(before, after) = "non_breaking"
<1>1. PICK d \in MemberDraft(kind, e, key) : TRUE
  BY MemberMade
<1>2. d \in Drafts
  BY <1>1, MemberDrawn, HarmlessEndpoints DEF EndpointDrafts
<1>3. d.compatibility = "non_breaking"
  BY <1>2 DEF Harmless
<1>4. \/ /\ d.change = "added" /\ before = {} /\ after # {}
         /\ d.compatibility = IF kind \in RequestKinds THEN addedMemberCompatibility(after)
                              ELSE "potentially_breaking"
      \/ /\ d.change = "removed" /\ d.compatibility = "potentially_breaking"
         /\ Complete(target) /\ before # {} /\ after = {}
      \/ /\ d.change = "unconfirmed" /\ d.compatibility = "unknown" /\ ~Complete(target)
         /\ before # {} /\ after = {}
      \/ /\ d.change = "changed" /\ before # {} /\ after # {}
         /\ d.compatibility = IF kind \in RequestKinds THEN changedMemberCompatibility(before, after)
                              ELSE "potentially_breaking"
  BY <1>1, MemberShape
<1>. QED BY <1>3, <1>4

(* A parameter or a body is one fact.                                      *)
LEMMA RequestMemberIsOne ==
  ASSUME NEW s, WellFormed(s), ~Duplicated(s), NEW kind \in RequestKinds, NEW e, NEW key,
         NEW f \in Members(s, kind, e, key)
  PROVE  Members(s, kind, e, key) = {f}
<1> SUFFICES ASSUME NEW g \in Members(s, kind, e, key) PROVE g = f
  OBVIOUS
<1>1. /\ f \in s.facts /\ f.kind = kind /\ f.of = e /\ f.key = key
      /\ g \in s.facts /\ g.kind = kind /\ g.of = e /\ g.key = key
  BY DEF Members, FactsOf
<1>2. f.part = Blank /\ g.part = Blank
  BY <1>1 DEF WellFormed
<1>. QED BY <1>1, <1>2 DEF Duplicated

LEMMA OfOneMember ==
  ASSUME NEW f
  PROVE  /\ PresenceState({f}) = IF f.value[1] \in Presences THEN f.value[1] ELSE "conditional"
         /\ Content({f}) = {f.value[2]} /\ Encoding({f}) = {f.value[3]}
<1>1. (CHOOSE x \in {f} : TRUE) = f
  OBVIOUS
<1>. QED BY <1>1 DEF PresenceState, Content, Encoding

(* Without a breaking difference what was offered still is, and nothing    *)
(* more is demanded, whichever conditions hold.                            *)
LEMMA HarmlessRequests ==
  ASSUME BothWellFormed, ~Duplicated(base), ~Duplicated(target),
         base.version = target.version, Complete(target), Harmless, NEW e \in EndpointsOf(base)
  PROVE  /\ Offered(base, e) \subseteq Offered(target, e)
         /\ \A world : Keys(Demanded(target, e, world)) \subseteq Keys(Demanded(base, e, world))
<1>1. RequestKinds \subseteq MemberKinds
  BY DEF RequestKinds, MemberKinds
<1>2. ASSUME NEW o \in Offered(base, e) PROVE o \in Offered(target, e)
  <2>1. PICK f \in base.facts : /\ f.of = e /\ f.kind \in RequestKinds
                                /\ o = <<f.kind, f.key, f.value[2], f.value[3]>>
    BY DEF Offered
  <2> DEFINE before == Members(base, f.kind, e, f.key)
             after == Members(target, f.kind, e, f.key)
  <2>2. before = {f}
    <3>1. f \in before
      BY <2>1 DEF Members, FactsOf
    <3>. QED BY <2>1, <3>1, RequestMemberIsOne DEF BothWellFormed
  <2>3. \E g \in after : g.value[2] = f.value[2] /\ g.value[3] = f.value[3]
    <3>1. CASE after = before
      BY <2>2, <3>1
    <3>2. CASE after # before
      <4>1. after # {} /\ changedMemberCompatibility(before, after) = "non_breaking"
        <5> HIDE DEF before, after
        <5>1. before # {}
          BY <2>2
        <5>. QED BY <1>1, <2>1, <3>2, <5>1, HarmlessMembers DEF before, after
      <4>2. PICK g : after = {g}
        BY <2>1, <4>1, RequestMemberIsOne DEF BothWellFormed
      <4>3. Content(before) = Content(after) /\ Encoding(before) = Encoding(after)
        <5> HIDE DEF before, after
        <5>. QED BY <4>1 DEF changedMemberCompatibility
      <4>4. {f.value[2]} = {g.value[2]} /\ {f.value[3]} = {g.value[3]}
        BY <2>2, <4>2, <4>3, OfOneMember
      <4>. QED BY <4>2, <4>4
    <3>. QED BY <3>1, <3>2
  <2>4. PICK g \in target.facts : /\ g.kind = f.kind /\ g.of = e /\ g.key = f.key
                                  /\ g.value[2] = f.value[2] /\ g.value[3] = f.value[3]
    BY <2>3 DEF Members, FactsOf
  <2>. QED BY <2>1, <2>4 DEF Offered
<1>3. ASSUME NEW world, NEW k \in Keys(Demanded(target, e, world))
      PROVE  k \in Keys(Demanded(base, e, world))
  <2>1. PICK f \in Demanded(target, e, world) : k = <<f.kind, f.key>>
    BY DEF Keys
  <2>2. /\ f \in target.facts /\ f.of = e /\ f.kind \in RequestKinds
        /\ \/ f.value[1] \in {"required", "unknown"}
           \/ f.value[1] \notin Presences /\ f.value[1] \in world
    BY DEF Demanded
  <2> DEFINE before == Members(base, f.kind, e, f.key)
             after == Members(target, f.kind, e, f.key)
  <2>3. after = {f}
    <3>1. f \in after
      BY <2>2 DEF Members, FactsOf
    <3>. QED BY <2>2, <3>1, RequestMemberIsOne DEF BothWellFormed
  <2>4. PresenceState(after) # "optional"
    <3>1. PresenceState(after) = IF f.value[1] \in Presences THEN f.value[1] ELSE "conditional"
      BY <2>3, OfOneMember
    <3>. QED BY <2>2, <3>1 DEF Presences
  <2>5. before = after
    <3> SUFFICES ASSUME before # after PROVE FALSE
      OBVIOUS
    <3>1. \/ addedMemberCompatibility(after) = "non_breaking"
          \/ changedMemberCompatibility(before, after) = "non_breaking"
      BY <1>1, <2>2, HarmlessMembers
    <3> HIDE DEF before, after
    <3>. QED BY <2>4, <3>1 DEF addedMemberCompatibility, changedMemberCompatibility
  <2>6. f \in base.facts
    BY <2>3, <2>5 DEF Members, FactsOf
  <2>7. f \in Demanded(base, e, world)
    BY <2>2, <2>6 DEF Demanded
  <2>. QED BY <2>1, <2>7 DEF Keys
<1>. QED BY <1>2, <1>3

(* Without a breaking difference names, responses and security are equal,  *)
(* and no schema changed.                                                  *)
LEMMA HarmlessRest ==
  ASSUME base.version = target.version, Complete(target), Harmless
  PROVE  /\ \A e \in EndpointsOf(base) : \A kind \in {"names", "response", "security"} :
              FactsOf(base, kind, e) = FactsOf(target, kind, e)
         /\ {f \in base.facts : f.kind = "schema"} \subseteq target.facts
<1>1. ASSUME NEW e \in EndpointsOf(base) PROVE FactsOf(base, "names", e) = FactsOf(target, "names", e)
  <2> SUFFICES ASSUME FactsOf(base, "names", e) # FactsOf(target, "names", e) PROVE FALSE
    OBVIOUS
  <2>1. PICK d \in NamesDrafts(e) : TRUE
    BY NamesMade
  <2>2. d \in Drafts
    BY HarmlessEndpoints DEF EndpointDrafts
  <2>3. d.compatibility = "potentially_breaking"
    BY NamesShape
  <2>. QED BY <2>2, <2>3 DEF Harmless
<1>2. ASSUME NEW e \in EndpointsOf(base), NEW kind \in {"response", "security"}
      PROVE  FactsOf(base, kind, e) = FactsOf(target, kind, e)
  <2>1. kind \in MemberKinds /\ kind \notin RequestKinds
    BY DEF MemberKinds, RequestKinds
  <2>2. \A key : Members(base, kind, e, key) = Members(target, kind, e, key)
    BY <2>1, HarmlessMembers
  <2>3. \A f : /\ f \in FactsOf(base, kind, e) <=> f \in Members(base, kind, e, f.key)
               /\ f \in FactsOf(target, kind, e) <=> f \in Members(target, kind, e, f.key)
    BY DEF Members
  <2>4. \A f : f \in FactsOf(base, kind, e) <=> f \in FactsOf(target, kind, e)
    BY <2>2, <2>3
  <2>. QED BY <2>4
<1>3. ASSUME NEW f \in base.facts, f.kind = "schema" PROVE f \in target.facts
  <2>1. f \in FactsOf(base, "schema", f.of)
    BY <1>3 DEF FactsOf
  <2>2. FactsOf(base, "schema", f.of) = FactsOf(target, "schema", f.of)
    <3> SUFFICES ASSUME FactsOf(base, "schema", f.of) # FactsOf(target, "schema", f.of) PROVE FALSE
      OBVIOUS
    <3>1. PICK d \in SchemaDrafts(f.of) : TRUE
      BY SchemaMade
    <3>2. d \in Drafts
      BY DraftsHold
    <3>3. d.compatibility # "non_breaking"
      BY <2>1, SchemaShape
    <3>. QED BY <3>2, <3>3 DEF Harmless
  <2>. QED BY <2>1, <2>2 DEF FactsOf
<1>. QED BY <1>1, <1>2, <1>3

(* What an owner's claims leave after their pairing can be counted.        *)
LEMMA PartitionsFinite ==
  ASSUME BothWellFormed, NEW owner
  PROVE  IsFiniteSet(Partitions(owner))
<1> DEFINE S == Group(base, owner) \cup Group(target, owner)
           f == [c \in S |-> Partition(c)]
<1>1. IsFiniteSet(S)
  BY GroupsTyped, FS_Union DEF BothWellFormed
<1>2. Partitions(owner) = {Partition(c) : c \in S}
  BY DEF Partitions
<1>3. f \in Surjection(S, Partitions(owner))
  <2>1. f \in [S -> Partitions(owner)]
    BY <1>2
  <2>2. \A p \in Partitions(owner) : \E c \in S : f[c] = p
    BY <1>2
  <2>. QED BY <2>1, <2>2 DEF Surjection
<1>. QED BY <1>1, <1>3, FS_Surjection

Tagged(owner) ==
  UNION {{p} \X Paired(owner)[p]["leftAfter"] :
           p \in {q \in DOMAIN Paired(owner) : q[1] \in {r[1] : r \in DOMAIN Paired(owner)}}}

(* What is left alone is counted place by place.                           *)
LEMMA TaggedFinite ==
  ASSUME BothWellFormed, NEW owner
  PROVE  /\ IsFiniteSet(Tagged(owner))
         /\ Count(Paired(owner), "leftAfter").all = Cardinality(Tagged(owner))
         /\ \A p \in Partitions(owner) : \A x \in Paired(owner)[p].leftAfter : <<p, x>> \in Tagged(owner)
<1> DEFINE n == Cardinality(Group(target, owner))
           P == (0..Len(Conditions)) \X (1..n)
<1>1. IsFiniteSet(Partitions(owner)) /\ DOMAIN Paired(owner) = Partitions(owner)
  BY PartitionsFinite DEF Paired
<1>2. IsFiniteSet(P)
  <2>1. n \in Nat /\ Len(Conditions) \in Nat
    BY GroupsTyped, FS_CardinalityType, ConditionsAreCanonical DEF BothWellFormed
  <2>2. IsFiniteSet(0..Len(Conditions)) /\ IsFiniteSet(1..n)
    BY <2>1, FS_Interval
  <2>. QED BY <2>2, FS_Product
<1>3. IsFiniteSet(Partitions(owner) \X P)
  <2> HIDE DEF P
  <2>. QED BY <1>1, <1>2, FS_Product
<1>4. \A p \in Partitions(owner) : Paired(owner)[p]["leftAfter"] \subseteq P
  <2>1. \A p : New(owner, p) \subseteq P
    BY DEF New, cancelEqualConditions
  <2>2. \A p \in Partitions(owner) : Paired(owner)[p].leftAfter \subseteq New(owner, p)
    BY PairedAt
  <2> HIDE DEF P
  <2>. QED BY <2>1, <2>2
<1>5. Tagged(owner) \subseteq Partitions(owner) \X P
  <2> HIDE DEF P
  <2>. QED BY <1>1, <1>4 DEF Tagged
<1>6. IsFiniteSet(Tagged(owner))
  <2> HIDE DEF P
  <2>. QED BY <1>3, <1>5, FS_Subset
<1>7. Count(Paired(owner), "leftAfter").all = Cardinality(Tagged(owner))
  BY DEF Count, Total, Tagged
<1>8. \A p \in Partitions(owner) : \A x \in Paired(owner)[p].leftAfter : <<p, x>> \in Tagged(owner)
  BY <1>1 DEF Tagged
<1>. QED BY <1>6, <1>7, <1>8

(* Nothing new is demanded by what is left alone: that would be a claim    *)
(* on its own that relaxes, and no relaxed claim demands.                  *)
LEMMA HarmlessLeaves ==
  ASSUME BothWellFormed, NEW owner, ~Discontinuous(owner[1]),
         \A d \in OwnerDrafts(owner) : d.compatibility = "non_breaking",
         NEW p \in Partitions(owner), p[1] \in Restrictive
  PROVE  Paired(owner)[p].leftAfter = {}
<1> SUFFICES ASSUME NEW x \in Paired(owner)[p].leftAfter PROVE FALSE
  OBVIOUS
<1> DEFINE X == Gathered(Paired(owner), "leftBefore")
           Y == Gathered(Paired(owner), "leftAfter")
           old == Count(Paired(owner), "leftBefore")
           new == Count(Paired(owner), "leftAfter")
           label == changedClaimCompatibility(owner, X, Y, old, new)
           n == CHOOSE m \in Y : TRUE
<1>1. MemberAt(p, x) \in Y
  BY GatheredFrom
<1>2. label = "non_breaking"
  <2>1. ClaimDrafts(owner) = Draft("claim", owner[1], owner[2], X, Y, "unknown", "unknown", label)
    BY DEF ClaimDrafts
  <2>2. ClaimDrafts(owner) \subseteq OwnerDrafts(owner)
    BY OwnerPieces
  <2> HIDE DEF X, Y, label
  <2>3. PICK d \in ClaimDrafts(owner) : TRUE
    BY <1>1, <2>1, DraftMade
  <2>4. d.compatibility = "unknown" \/ d.compatibility = label
    BY <1>1, <2>1, <2>3, DraftShape
  <2>5. d.compatibility = "non_breaking"
    BY <2>2, <2>3
  <2>. QED BY <2>4, <2>5
<1>3. new.all = 1 /\ n.value = "optional"
  <2> HIDE DEF X, Y, old, new
  <2>. QED BY <1>2 DEF changedClaimCompatibility
<1>4. n \in Y
  BY <1>1
<1>5. PICK q \in Partitions(owner) : \E y \in Paired(owner)[q]["leftAfter"] : n = MemberAt(q, y)
  BY <1>4, GatheredFrom
<1>6. PICK y \in Paired(owner)[q].leftAfter : n = MemberAt(q, y)
  BY <1>5
<1>7. \E t : Tagged(owner) = {t}
  <2>1. IsFiniteSet(Tagged(owner)) /\ Cardinality(Tagged(owner)) = 1
    BY <1>3, TaggedFinite
  <2>. QED BY <2>1, FS_Singleton
<1>8. <<p, x>> \in Tagged(owner) /\ <<q, y>> \in Tagged(owner)
  BY <1>5, <1>6, TaggedFinite
<1>9. p = q
  BY <1>7, <1>8
<1>10. n.value = p[1]
  <2>1. MemberAt(p, y).value = p[1]
    BY DEF MemberAt
  <2> HIDE DEF n
  <2>2. n = MemberAt(p, y)
    BY <1>6, <1>9
  <2>. QED BY <2>1, <2>2
<1>. QED BY <1>3, <1>10 DEF Restrictive

(* Without a breaking difference no demand is claimed that was not: it     *)
(* would be left alone, for what is paired is never harmless.              *)
LEMMA HarmlessClaims ==
  ASSUME BothWellFormed, base.version = target.version, Harmless
  PROVE  Claimed(target) \subseteq Claimed(base)
<1> SUFFICES ASSUME NEW c \in target.claims, c.key = "request.field.presence", c.value \in Restrictive
             PROVE  <<Owner(c), c.condition>> \in Claimed(base)
  BY DEF Claimed
<1> DEFINE owner == Owner(c)
           p == Partition(c)
<1>1. owner \in Owners /\ c \in Group(target, owner) /\ p \in Partitions(owner)
  BY DEF Owners, Group, Partitions
<1>2. owner[1] = c.of /\ owner[2] = c.key /\ p[1] = c.value /\ p[2] = c.verification
  BY DEF Owner, Partition
<1>3. \A d \in OwnerDrafts(owner) : d.compatibility = "non_breaking"
  <2>1. OwnerDrafts(owner) \subseteq Drafts
    BY <1>1, DraftsHold
  <2>. QED BY <2>1 DEF Harmless
<1>4. IsFiniteSet(Group(base, owner)) /\ IsFiniteSet(Group(target, owner)) /\ c.condition \in ConditionsOf
  BY <1>1, GroupsTyped DEF BothWellFormed
<1> HIDE DEF owner, p
<1>5. ~Discontinuous(owner[1])
  <2> SUFFICES ASSUME Discontinuous(owner[1]) PROVE FALSE
    OBVIOUS
  <2> DEFINE N == MembersOf(target, owner)
             new == Draft("claim", owner[1], owner[2], {}, N, "unknown", "unknown", "unknown")
  <2>1. new \subseteq OwnerDrafts(owner)
    BY OwnerPieces
  <2>2. N # {}
    BY <1>1 DEF MembersOf
  <2> HIDE DEF N
  <2>3. PICK d \in new : TRUE
    BY <2>2, DraftMade
  <2>4. d.compatibility = "unknown"
    BY <2>2, <2>3, DraftShape
  <2>. QED BY <1>3, <2>1, <2>3, <2>4
<1>6. NumberOf(Group(base, owner), p, c.condition) # 0
  <2> SUFFICES ASSUME NumberOf(Group(base, owner), p, c.condition) = 0 PROVE FALSE
    OBVIOUS
  <2>1. PICK i \in 0..Len(Conditions) : ConditionAt(<<i, 1>>) = c.condition
    BY <1>4, ConditionsArePlaces
  <2>2. NumberOf(Group(target, owner), p, c.condition) \in Nat \ {0}
    <3>1. Partition(c) = p
      BY DEF p
    <3>. QED BY <1>1, <1>4, <3>1, NumberTyped
  <2>3. <<i, 1>> \in New(owner, p)
    <3>1. NumberOf(Group(base, owner), p, ConditionAt(<<i, 1>>))
            < NumberOf(Group(target, owner), p, ConditionAt(<<i, 1>>))
      BY <2>1, <2>2
    <3>. QED BY <1>4, <3>1, SurplusHasPlace DEF New
  <2>4. \A d \in OwnerDrafts(owner) : d.fact # "condition_group"
    <3>1. \A d \in OwnerDrafts(owner) : d.fact = "condition_group" =>
            d.compatibility \in {"potentially_breaking", "unknown"}
      BY OwnerShape
    <3>. QED BY <1>3, <3>1
  <2>5. /\ Gathered(Paired(owner), "added") = {} /\ Gathered(Paired(owner), "removed") = {}
        /\ Gathered(Paired(owner), "changedAfter") = {}
    <3> DEFINE A == Gathered(Paired(owner), "added")
               R == Gathered(Paired(owner), "removed")
               B == Gathered(Paired(owner), "changedBefore")
               C == Gathered(Paired(owner), "changedAfter")
               DA == ConditionDrafts(owner, "added", "potentially_breaking", {}, A)
               DR == ConditionDrafts(owner, "removed", "unknown", R, {})
               DC == ConditionDrafts(owner, "changed", "potentially_breaking", B, C)
    <3>1. DA \cup DR \cup DC \subseteq OwnerDrafts(owner)
      BY <1>5, OwnerPieces
    <3>2. \A d \in DA \cup DR \cup DC : d.fact = "condition_group"
      <4> HIDE DEF A, R, B, C
      <4>. QED BY ConditionShape
    <3>3. DA = {} /\ DR = {} /\ DC = {}
      <4> HIDE DEF DA, DR, DC
      <4>. QED BY <2>4, <3>1, <3>2
    <3>4. A = {} /\ R = {} /\ C = {}
      <4> HIDE DEF A, R, B, C
      <4>1. /\ {} \cup A # {} => \E d \in DA : TRUE
            /\ R \cup {} # {} => \E d \in DR : TRUE
            /\ B \cup C # {} => \E d \in DC : TRUE
        BY ConditionMade
      <4> HIDE DEF DA, DR, DC
      <4>. QED BY <3>3, <4>1
    <3>. QED BY <3>4
  <2>6. /\ Paired(owner)[p].added = {} /\ Paired(owner)[p].removed = {}
        /\ Paired(owner)[p].changedAfter = {}
    <3>1. ASSUME NEW field, Gathered(Paired(owner), field) = {} PROVE Paired(owner)[p][field] = {}
      <4> SUFFICES ASSUME NEW x \in Paired(owner)[p][field] PROVE FALSE
        OBVIOUS
      <4>1. MemberAt(p, x) \in Gathered(Paired(owner), field)
        BY <1>1, GatheredFrom
      <4>. QED BY <3>1, <4>1
    <3>. QED BY <2>5, <3>1
  <2>7. <<i, 1>> \in Paired(owner)[p].leftAfter
    <3>1. /\ New(owner, p) \ Nulls(New(owner, p)) \subseteq Paired(owner)[p].added
               \cup Paired(owner)[p].changedAfter \cup Paired(owner)[p].leftAfter
          /\ Nulls(New(owner, p)) \subseteq Paired(owner)[p].leftAfter \/ Paired(owner)[p].removed # {}
      BY <1>1, PairedAt
    <3>. QED BY <2>3, <2>6, <3>1
  <2>8. Paired(owner)[p].leftAfter = {}
    BY <1>1, <1>2, <1>3, <1>5, HarmlessLeaves
  <2>. QED BY <2>7, <2>8
<1>7. PICK b \in Group(base, owner) : Partition(b) = p /\ b.condition = c.condition
  BY <1>4, <1>6, NumberTyped
<1>8. b \in base.claims /\ Owner(b) = owner
  BY <1>7 DEF Group
<1>9. b.key = c.key /\ b.value = c.value
  <2>1. Owner(b) = Owner(c) /\ Partition(b) = Partition(c)
    BY <1>7, <1>8 DEF owner, p
  <2>. QED BY <2>1 DEF Owner, Partition
<1>. QED BY <1>7, <1>8, <1>9 DEF Claimed, owner

-----------------------------------------------------------------------------
(* The answer of compareContractSnapshots, as a function of the snapshots. *)
Verdict ==
  IF Duplicated(base) \/ Duplicated(target)
  THEN [NoSet EXCEPT !.status = "incompatible"]
  ELSE IF ~validateDifferenceSetSemantics(Reasons, Drafts)
       THEN [NoSet EXCEPT !.status = "rejected"]
       ELSE [status |-> IF Reasons = {} THEN "complete" ELSE "incomplete",
             reasons |-> Reasons, differences |-> Drafts]
DifferencesInv == BothWellFormed /\ (set = NoSet \/ set = Verdict)

(* Snapshots stay what they were, and an answer is the one they have.      *)
LEMMA DifferencesInvHolds == DifferencesSpec => []DifferencesInv
<1>1. DifferencesInit => DifferencesInv
  BY SnapshotsAreWellFormed DEF DifferencesInit, DifferencesInv, BothWellFormed
<1>2. DifferencesInv /\ [DifferencesNext]_comparison => DifferencesInv'
  <2> SUFFICES ASSUME DifferencesInv, [DifferencesNext]_comparison PROVE DifferencesInv'
    OBVIOUS
  <2>1. base' = base /\ target' = target
    BY DEF DifferencesNext, compareContractSnapshots, comparison
  <2>2. set' = set \/ set' = Verdict
    BY Zenon DEF DifferencesNext, compareContractSnapshots, comparison, Verdict
  <2>3. BothWellFormed'
    BY <2>1 DEF DifferencesInv, BothWellFormed
  <2>4. Verdict' = Verdict
    BY <2>1, SMT DEF Verdict, Drafts, Reasons, Named, EndpointDrafts, SchemaDrafts, DiagnosticDrafts,
      addClaimDrafts, Owners, OwnerDrafts, Discontinuous, Continues, NamesDrafts, addEndpointMemberDrafts,
      MemberDrafts, MemberDraft, ClaimGroupDrafts, PairedDrafts, Draft, Gone
  <2>. QED BY <2>2, <2>3, <2>4, Zenon DEF DifferencesInv
<1>. QED BY <1>1, <1>2, PTL DEF DifferencesSpec

(* What each status says of the answer.                                    *)
LEMMA StatusTells ==
  ASSUME DifferencesInv
  PROVE  /\ set.status = "rejected" =>
              ~Duplicated(base) /\ ~Duplicated(target) /\ ~validateDifferenceSetSemantics(Reasons, Drafts)
         /\ Compared => ~Duplicated(base) /\ ~Duplicated(target) /\ set.differences = Drafts
         /\ set.status = "complete" => Reasons = {}
<1>1. CASE set = NoSet
  BY <1>1 DEF NoSet, Compared
<1>2. CASE set = Verdict
  <2>1. CASE Duplicated(base) \/ Duplicated(target)
    <3>1. set.status = "incompatible"
      BY <1>2, <2>1 DEF Verdict, NoSet
    <3>. QED BY <3>1 DEF Compared
  <2>2. CASE ~(Duplicated(base) \/ Duplicated(target)) /\ ~validateDifferenceSetSemantics(Reasons, Drafts)
    <3>1. set.status = "rejected"
      BY <1>2, <2>2 DEF Verdict, NoSet
    <3>. QED BY <2>2, <3>1 DEF Compared
  <2>3. CASE ~(Duplicated(base) \/ Duplicated(target)) /\ validateDifferenceSetSemantics(Reasons, Drafts)
    <3>1. set = [status |-> IF Reasons = {} THEN "complete" ELSE "incomplete",
                 reasons |-> Reasons, differences |-> Drafts]
      BY <1>2, <2>3, Zenon DEF Verdict
    <3>. QED BY <2>3, <3>1
  <2>. QED BY <2>1, <2>2, <2>3
<1>. QED BY <1>1, <1>2 DEF DifferencesInv

(* What the validator of the schema would refuse is never drafted, unless  *)
(* endpoints change in a later version of the identities.                  *)
LEMMA DraftsAreValid ==
  ASSUME BothWellFormed,
         \/ base.version # target.version \/ base.version = "current"
         \/ {<<e, Route(base, e)>> : e \in EndpointsOf(base)} =
            {<<e, Route(target, e)>> : e \in EndpointsOf(target)}
  PROVE  validateDifferenceSetSemantics(Reasons, Drafts)
<1>1. ASSUME NEW d \in Drafts
      PROVE  /\ validateDifferenceSemantics(d)
             /\ d.change = "unconfirmed" => "target_coverage_incomplete" \in Reasons
             /\ d.change = "removed" /\ d.fact # "condition_group" =>
                  ~("target_coverage_incomplete" \in Reasons)
  <2>1. validateDifferenceSemantics(d)
    BY DraftsAreSemantic
  <2>. QED BY <2>1, DraftsAreConfirmed, ReasonsTell
<1>2. ASSUME NEW d \in Drafts, NEW f \in Drafts,
             <<d.fact, d.change, d.of, d.key>> = <<f.fact, f.change, f.of, f.key>>
      PROVE  d = f
  <2>1. d.fact = f.fact /\ d.change = f.change /\ d.of = f.of /\ d.key = f.key
    BY <1>2
  <2>. QED BY <2>1, DraftsAreSingle
<1>. QED BY <1>1, <1>2, Zenon DEF validateDifferenceSetSemantics

(* The answer tells the whole truth.                                       *)
LEMMA TruthIsTold ==
  ASSUME DifferencesInv
  PROVE  DifferencesTellTheTruth
<1>1. BothWellFormed
  BY DEF DifferencesInv
<1>2. ASSUME set.status = "rejected"
      PROVE  /\ base.version = target.version /\ base.version # "current"
             /\ {<<e, Route(base, e)>> : e \in EndpointsOf(base)} #
                {<<e, Route(target, e)>> : e \in EndpointsOf(target)}
  <2>1. ~validateDifferenceSetSemantics(Reasons, Drafts)
    BY <1>2, StatusTells
  <2>. QED BY <1>1, <2>1, DraftsAreValid, Zenon
<1>3. ASSUME Compared
      PROVE  /\ Applied(Kinds(base), {d \in set.differences :
                  d.fact \notin {"claim", "condition_group"}}) = Kinds(target)
             /\ base.version = target.version /\ Distinct(base) /\ Distinct(target) =>
                  \A owner \in Owners :
                    ClaimsApplied(owner) = {Member(c) : c \in {x \in target.claims : Owner(x) = owner}}
  <2>1. set.differences = Drafts
    BY <1>3, StatusTells
  <2>2. {d \in set.differences : d.fact \notin {"claim", "condition_group"}}
          = {d \in Drafts : AboutFacts(d)}
    BY <2>1, Zenon DEF AboutFacts
  <2>3. Applied(Kinds(base), {d \in Drafts : AboutFacts(d)}) = Kinds(target)
    BY <1>1, FactsApplied
  <2>4. ASSUME base.version = target.version, Distinct(base), Distinct(target), NEW owner \in Owners
        PROVE  ClaimsApplied(owner) = {Member(c) : c \in {x \in target.claims : Owner(x) = owner}}
    BY <1>1, <2>1, <2>4, ClaimsTold
  <2>. QED BY <2>2, <2>3, <2>4, Zenon
<1>. QED BY <1>2, <1>3, Zenon DEF DifferencesTellTheTruth

(* An answer without a breaking difference is safe to rely on.             *)
LEMMA SafetyIsPromised ==
  ASSUME DifferencesInv
  PROVE  NonBreakingIsSafe
<1> SUFFICES ASSUME set.status = "complete",
                    \A d \in set.differences : d.compatibility = "non_breaking"
             PROVE  /\ \A e \in EndpointsOf(base) :
                         /\ e \in EndpointsOf(target) /\ Route(base, e) = Route(target, e)
                         /\ Offered(base, e) \subseteq Offered(target, e)
                         /\ \A kind \in {"names", "response", "security"} :
                              FactsOf(base, kind, e) = FactsOf(target, kind, e)
                         /\ \A world \in SUBSET {Conditions[i] : i \in DOMAIN Conditions} :
                              Keys(Demanded(target, e, world)) \subseteq Keys(Demanded(base, e, world))
                    /\ {f \in base.facts : f.kind = "schema"} \subseteq target.facts
                    /\ Claimed(target) \subseteq Claimed(base)
  BY Zenon DEF NonBreakingIsSafe
<1>1. BothWellFormed
  BY DEF DifferencesInv
<1>2. Compared
  BY DEF Compared
<1>3. ~Duplicated(base) /\ ~Duplicated(target) /\ set.differences = Drafts /\ Reasons = {}
  BY <1>2, StatusTells
<1>4. Complete(target) /\ base.version = target.version
  BY <1>3, ReasonsTell
<1>5. Harmless
  BY <1>3 DEF Harmless
<1>6. ASSUME NEW e \in EndpointsOf(base)
      PROVE  /\ e \in EndpointsOf(target) /\ Route(base, e) = Route(target, e)
             /\ Offered(base, e) \subseteq Offered(target, e)
             /\ \A kind \in {"names", "response", "security"} :
                  FactsOf(base, kind, e) = FactsOf(target, kind, e)
             /\ \A world \in SUBSET {Conditions[i] : i \in DOMAIN Conditions} :
                  Keys(Demanded(target, e, world)) \subseteq Keys(Demanded(base, e, world))
  <2>1. e \in EndpointsOf(target) /\ Route(base, e) = Route(target, e)
    BY <1>4, <1>5, HarmlessEndpoints DEF Continues
  <2>2. /\ Offered(base, e) \subseteq Offered(target, e)
        /\ \A world : Keys(Demanded(target, e, world)) \subseteq Keys(Demanded(base, e, world))
    BY <1>1, <1>3, <1>4, <1>5, HarmlessRequests
  <2>3. \A kind \in {"names", "response", "security"} : FactsOf(base, kind, e) = FactsOf(target, kind, e)
    BY <1>4, <1>5, HarmlessRest
  <2>. QED BY <2>1, <2>2, <2>3, Zenon
<1>7. {f \in base.facts : f.kind = "schema"} \subseteq target.facts
  BY <1>4, <1>5, HarmlessRest
<1>8. Claimed(target) \subseteq Claimed(base)
  BY <1>1, <1>4, <1>5, HarmlessClaims
<1>. QED BY <1>6, <1>7, <1>8, Zenon

(* compareContractSnapshots answers truly whatever the snapshots are: the  *)
(* differences applied to the base give the target, its own validator      *)
(* refuses an answer in one known case only, and an answer that is         *)
(* complete and non-breaking throughout asks nothing new of any request.   *)
THEOREM ContractDifferencesAreSound == DifferencesSpec => []DifferencesAreSound
<1>1. DifferencesInv => DifferencesAreSound
  BY TruthIsTold, SafetyIsPromised DEF DifferencesAreSound
<1>. QED BY <1>1, DifferencesInvHolds, PTL
=============================================================================
