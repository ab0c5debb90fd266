-------------------------- MODULE ContractDifferences --------------------------
(***************************************************************************)
(* compareContractSnapshots of packages/updates (differences.ts) and the   *)
(* validator every difference set must pass (schema.ts).                   *)
(*                                                                         *)
(* A snapshot is reduced to the facts the comparison projects: one record  *)
(* for an endpoint (its value is the route identity), for the names of its *)
(* path parameters, for each parameter, request body, response, response   *)
(* content and security, and for each schema and diagnostic.  Claims are   *)
(* apart, because several may say the same thing.  Sorting, hashing and    *)
(* evidence are left out: projections are sets and identities are values.  *)
(***************************************************************************)
EXTENDS Integers, Sequences, FiniteSets

CONSTANTS
  Families,    \* sets of snapshots, compared with each other within a set
  Conditions   \* the conditions of claims, in canonical order

Null == "null"
Blank == ""                \* the key or part of what needs none
Presences == {"required", "optional", "unknown"}     \* or a condition
MemberKinds   == {"parameter", "request_body", "response", "security"}
RequestKinds  == {"parameter", "request_body"}
EndpointKinds == {"endpoint", "names"} \cup MemberKinds

VARIABLES
  base, target,   \* the two snapshots
  set             \* the difference set, or why there is none

comparison == <<base, target, set>>

NoSet == [status |-> "none", reasons |-> {}, differences |-> {}]

EndpointsOf(s) == {f.of : f \in {x \in s.facts : x.kind = "endpoint"}}
FactsOf(s, kind, of) == {f \in s.facts : f.kind = kind /\ f.of = of}
Route(s, e)    == {f.value : f \in FactsOf(s, "endpoint", e)}
Complete(s)    == s.coverage = "complete"
Projection(s, e) == {f \in s.facts : f.of = e /\ f.kind \in EndpointKinds}

(* What the schema of a snapshot sees to: a fact of an endpoint is of one   *)
(* the snapshot has, identities are of its version, a parameter or body is *)
(* one fact, and the conditions are known, canonical ones.                 *)
ConditionsOf == {Null} \cup {Conditions[i] : i \in DOMAIN Conditions}
WellFormed(s) ==
  /\ \A f \in s.facts :
       /\ f = [kind |-> f.kind, of |-> f.of, key |-> f.key, part |-> f.part, value |-> f.value]
       /\ f.kind \in EndpointKinds \cup {"schema", "diagnostic"}
       /\ f.kind \in EndpointKinds => f.of \in EndpointsOf(s)
       /\ f.kind = "endpoint" => f.key = Blank /\ f.part = s.version
       /\ f.kind \in RequestKinds => f.part = Blank
  /\ IsFiniteSet(s.claims) /\ \A c \in s.claims : c.condition \in ConditionsOf
ASSUME SnapshotsAreWellFormed == \A family \in Families : \A s \in family : WellFormed(s)
ASSUME ConditionsAreCanonical ==
  /\ Len(Conditions) \in Nat /\ DOMAIN Conditions = 1..Len(Conditions)
  /\ \A i, j \in DOMAIN Conditions : Conditions[i] # Null /\ (Conditions[i] = Conditions[j] => i = j)

(* duplicateComparisonKeyIssues: two facts of one comparison key.          *)
Duplicated(s) == \E f, g \in s.facts :
  f # g /\ <<f.kind, f.of, f.key, f.part>> = <<g.kind, g.of, g.key, g.part>>

-----------------------------------------------------------------------------
Difference(fact, change, compatibility, of, key, before, after) ==
  [fact |-> fact, change |-> change, compatibility |-> compatibility,
   of |-> of, key |-> key, before |-> before, after |-> after]

(* What is gone is removed only when the target was covered completely.    *)
Gone(fact, of, key, before, removed) ==
  IF Complete(target) THEN Difference(fact, "removed", removed, of, key, before, {})
  ELSE Difference(fact, "unconfirmed", "unknown", of, key, before, {})

(* One group of facts, or of claims, on both sides.                        *)
Draft(fact, of, key, before, after, added, removed, changed) ==
  IF before \cup after = {} THEN {}
  ELSE IF before = {} THEN {Difference(fact, "added", added, of, key, {}, after)}
  ELSE IF after = {} THEN {Gone(fact, of, key, before, removed)}
  ELSE {Difference(fact, "changed", changed, of, key, before, after)}

-----------------------------------------------------------------------------
(* Parameters, request bodies, responses and security of an endpoint.      *)
(* The value of a request member is <<presence, content, encoding>>.       *)
PresenceState(members) == LET m == CHOOSE x \in members : TRUE IN
  IF m.value[1] \in Presences THEN m.value[1] ELSE "conditional"
Content(members)  == {m.value[2] : m \in members}
Encoding(members) == {m.value[3] : m \in members}

addedMemberCompatibility(after) ==
  IF PresenceState(after) = "optional" THEN "non_breaking"
  ELSE IF PresenceState(after) = "unknown" THEN "unknown" ELSE "potentially_breaking"

BugEncodingForgotten(before, after) ==
  IF Content(before) # Content(after) THEN "potentially_breaking"
  ELSE IF "unknown" \in {PresenceState(before), PresenceState(after)} THEN "unknown"
  ELSE IF PresenceState(before) # "optional" /\ PresenceState(after) = "optional"
    THEN "non_breaking" ELSE "potentially_breaking"
changedMemberCompatibility(before, after) ==
  IF Content(before) # Content(after) \/ Encoding(before) # Encoding(after)
    THEN "potentially_breaking"
  ELSE IF "unknown" \in {PresenceState(before), PresenceState(after)} THEN "unknown"
  ELSE IF PresenceState(before) \in {"required", "conditional"}
          /\ PresenceState(after) = "optional" THEN "non_breaking"
  ELSE "potentially_breaking"

Members(s, kind, e, key) == {f \in FactsOf(s, kind, e) : f.key = key}
MemberDraft(kind, e, key) ==
  LET before == Members(base, kind, e, key)  after == Members(target, kind, e, key) IN
  IF before = after THEN {}
  ELSE Draft(kind, e, key, before, after,
         IF kind \in RequestKinds THEN addedMemberCompatibility(after) ELSE "potentially_breaking",
         "potentially_breaking",
         IF kind \in RequestKinds THEN changedMemberCompatibility(before, after)
         ELSE "potentially_breaking")
MemberDrafts(kind, e) ==
  UNION {MemberDraft(kind, e, key) :
           key \in {f.key : f \in FactsOf(base, kind, e) \cup FactsOf(target, kind, e)}}

addEndpointMemberDrafts(e) == UNION {MemberDrafts(kind, e) : kind \in MemberKinds}

NamesDrafts(e) ==
  LET before == FactsOf(base, "names", e)  after == FactsOf(target, "names", e)
  IN  IF before = after THEN {}
      ELSE {Difference("names", "changed", "potentially_breaking", e, Blank, before, after)}

Continues(e) ==
  e \in EndpointsOf(base) \cap EndpointsOf(target) /\ Route(base, e) = Route(target, e)
EndpointDrafts(e) ==
  IF Continues(e) THEN NamesDrafts(e) \cup addEndpointMemberDrafts(e)
  ELSE {d \in {Difference("endpoint", "added", "non_breaking", e, Blank, {}, Projection(target, e))} :
          e \in EndpointsOf(target)}
       \cup {d \in {Gone("endpoint", e, Blank, Projection(base, e), "potentially_breaking")} :
              e \in EndpointsOf(base)}

-----------------------------------------------------------------------------
(* Claims, grouped by owner (endpoint and predicate), partitioned by value *)
(* and verification.  An endpoint whose route changed has a group on each  *)
(* side.  Equal members cancel; the rest is paired in canonical order.     *)
Member(c) == [value |-> c.value, verification |-> c.verification, condition |-> c.condition]
Partition(c) == <<c.value, c.verification>>
Owner(c) == <<c.of, c.key>>

NumberOf(claims, p, condition) ==
  Cardinality({c \in claims : Partition(c) = p /\ c.condition = condition})
(* The places of what does not cancel, in canonical order: the n-th of the *)
(* i-th condition, and the n-th without one under 0.                       *)
ConditionAt(x) == IF x[1] = 0 THEN Null ELSE Conditions[x[1]]
cancelEqualConditions(some, others, p) ==
  {x \in (0..Len(Conditions)) \X (1..Cardinality(some)) :
     x[2] <= NumberOf(some, p, ConditionAt(x)) - NumberOf(others, p, ConditionAt(x))}
Nulls(places) == {x \in places : x[1] = 0}

Earlier(x, y) == x[1] < y[1] \/ (x[1] = y[1] /\ x[2] < y[2])
First(places, n) == {x \in places : Cardinality({y \in places : Earlier(y, x)}) < n}
Least(a, b) == IF a < b THEN a ELSE b

(* How the surplus conditions of one partition are paired.                 *)
Pairing(before, after, p) ==
  LET old == cancelEqualConditions(before, after, p)
      new == cancelEqualConditions(after, before, p)
      oldConditions == old \ Nulls(old)
      newConditions == new \ Nulls(new)
      added    == Least(Cardinality(Nulls(old)), Cardinality(newConditions))
      removed  == Least(Cardinality(Nulls(new)), Cardinality(oldConditions))
      restOld  == oldConditions \ First(oldConditions, removed)
      restNew  == newConditions \ First(newConditions, added)
      changed  == Least(Cardinality(restOld), Cardinality(restNew))
  IN  [added   |-> First(newConditions, added),
       removed |-> First(oldConditions, removed),
       changedBefore |-> First(restOld, changed),
       changedAfter  |-> First(restNew, changed),
       leftBefore |-> (Nulls(old) \ First(Nulls(old), added)) \cup (restOld \ First(restOld, changed)),
       leftAfter  |-> (Nulls(new) \ First(Nulls(new), removed)) \cup (restNew \ First(restNew, changed))]
Assigned(p, places) ==
  {[value |-> p[1], verification |-> p[2], condition |-> ConditionAt(x)] : x \in places}

(* Repeated members count.  A single member on each side is what the rule  *)
(* for relaxations asks for.                                               *)
Restrictive == {"required", "conditional"}
changedClaimCompatibility(owner, before, after, old, new) ==
  LET single == old.all = 1 /\ new.all = 1
      tightened == new.optional < old.optional /\ new.restrictive > old.restrictive
      relaxed == LET m == CHOOSE x \in before : TRUE  n == CHOOSE x \in after : TRUE IN
                 /\ m.value \in Restrictive /\ n.value = "optional"
                 /\ m.verification = n.verification /\ m.condition = n.condition
  IN  IF owner[2] # "request.field.presence" THEN "unknown"
      ELSE IF tightened THEN "potentially_breaking"
      ELSE IF single /\ relaxed THEN "non_breaking" ELSE "unknown"

ConditionDrafts(owner, change, label, before, after) ==
  IF before \cup after = {} THEN {}
  ELSE {Difference("condition_group", change, label, owner[1], owner[2], before, after)}

(* What the pairing of each partition comes to.                            *)
Gathered(pairing, field) == UNION {Assigned(p, pairing[p][field]) : p \in DOMAIN pairing}
Total(pairing, field, values) ==
  Cardinality(UNION {{p} \X pairing[p][field] : p \in {q \in DOMAIN pairing : q[1] \in values}})
Count(pairing, field) ==
  [all |-> Total(pairing, field, {p[1] : p \in DOMAIN pairing}),
   optional |-> Total(pairing, field, {"optional"}),
   restrictive |-> Total(pairing, field, Restrictive)]

PairedDrafts(owner, pairing) ==
  LET before == Gathered(pairing, "leftBefore")  after == Gathered(pairing, "leftAfter") IN
  ConditionDrafts(owner, "added", "potentially_breaking", {}, Gathered(pairing, "added"))
  \cup ConditionDrafts(owner, "removed", "unknown", Gathered(pairing, "removed"), {})
  \cup ConditionDrafts(owner, "changed", "potentially_breaking",
                       Gathered(pairing, "changedBefore"), Gathered(pairing, "changedAfter"))
  \cup Draft("claim", owner[1], owner[2], before, after, "unknown", "unknown",
         changedClaimCompatibility(owner, before, after,
           Count(pairing, "leftBefore"), Count(pairing, "leftAfter")))
ClaimGroupDrafts(owner, before, after) ==
  PairedDrafts(owner, [p \in {Partition(c) : c \in before \cup after} |-> Pairing(before, after, p)])

Group(s, owner) == {c \in s.claims : Owner(c) = owner}
Discontinuous(e) == e \in EndpointsOf(base) \cap EndpointsOf(target) /\ ~Continues(e)
OwnerDrafts(owner) ==
  LET before == Group(base, owner)  after == Group(target, owner)
      All(old, new) == Draft("claim", owner[1], owner[2],
        {Member(c) : c \in old}, {Member(c) : c \in new}, "unknown", "unknown", "unknown")
  IN  IF Discontinuous(owner[1]) THEN All(before, {}) \cup All({}, after)
      ELSE ClaimGroupDrafts(owner, before, after)
Owners == {Owner(c) : c \in base.claims \cup target.claims}
addClaimDrafts == UNION {OwnerDrafts(owner) : owner \in Owners}

-----------------------------------------------------------------------------
(* Schemas and diagnostics.                                                *)
SchemaDrafts(id) ==
  LET before == FactsOf(base, "schema", id)  after == FactsOf(target, "schema", id) IN
  IF before = after THEN {}
  ELSE Draft("schema", id, Blank, before, after, "non_breaking", "potentially_breaking",
             "potentially_breaking")

DiagnosticDrafts(id) ==
  LET before == FactsOf(base, "diagnostic", id)  after == FactsOf(target, "diagnostic", id) IN
  IF before = after THEN {}
  ELSE (IF after = {} THEN {}
        ELSE {Difference("diagnostic", "added", "unknown", id, Blank, {}, after)})
       \cup (IF before = {} THEN {}
             ELSE {Difference("diagnostic", "resolved", "unknown", id, Blank, before, {})})

Named(kind) == {f.of : f \in {x \in base.facts \cup target.facts : x.kind = kind}}

Reasons ==
  (IF Complete(base) THEN {} ELSE {"base_coverage_incomplete"})
  \cup (IF Complete(target) THEN {} ELSE {"target_coverage_incomplete"})
  \cup (IF base.version = target.version THEN {} ELSE {"identity_version_changed"})

Drafts ==
  (IF base.version # target.version
   THEN {Difference("identity", "changed", "unknown", Blank, Blank, {}, {})}
   ELSE (UNION {EndpointDrafts(e) : e \in EndpointsOf(base) \cup EndpointsOf(target)})
        \cup addClaimDrafts)
  \cup (UNION {SchemaDrafts(id) : id \in Named("schema")})
  \cup (IF base.coverage = target.coverage THEN {}
        ELSE {Difference("coverage", "changed", "unknown", Blank, Blank, {}, {})})
  \cup UNION {DiagnosticDrafts(id) : id \in Named("diagnostic")}

-----------------------------------------------------------------------------
(* parseContractDifferenceSet: the validator of schema.ts.                 *)
validateDifferenceSemantics(d) ==
  /\ d.fact = "condition_group" /\ d.change = "changed" => d.before # d.after
  /\ d.fact = "endpoint" =>       \* EndpointIdentitySchema fixes the version
       \A f \in d.before \cup d.after : f.kind = "endpoint" => f.part = "current"
validateDifferenceSetSemantics(reasons, differences) ==
  LET unsure == "target_coverage_incomplete" \in reasons IN
  /\ \A d \in differences :
       /\ validateDifferenceSemantics(d)
       /\ d.change = "unconfirmed" => unsure
       /\ d.change = "removed" /\ d.fact # "condition_group" => ~unsure
  /\ \A d, f \in differences :
       <<d.fact, d.change, d.of, d.key>> = <<f.fact, f.change, f.of, f.key>> => d = f

compareContractSnapshots ==
  /\ set = NoSet
  /\ set' = IF Duplicated(base) \/ Duplicated(target)
            THEN [NoSet EXCEPT !.status = "incompatible"]
            ELSE LET drafts == Drafts IN
                 IF ~validateDifferenceSetSemantics(Reasons, drafts)
                 THEN [NoSet EXCEPT !.status = "rejected"]
                 ELSE [status |-> IF Reasons = {} THEN "complete" ELSE "incomplete",
                       reasons |-> Reasons, differences |-> drafts]
  /\ UNCHANGED <<base, target>>

DifferencesInit ==
  /\ \E family \in Families : base \in family /\ target \in family
  /\ set = NoSet
DifferencesNext == compareContractSnapshots
DifferencesSpec == DifferencesInit /\ [][DifferencesNext]_comparison

-----------------------------------------------------------------------------
(* Properties.                                                             *)
Compared == set.status \in {"complete", "incomplete"}
Kinds(s) == IF base.version = target.version THEN s.facts
            ELSE {f \in s.facts : f.kind \in {"schema", "diagnostic"}}
Distinct(s) == \A c, d \in s.claims :
  Owner(c) = Owner(d) /\ Member(c) = Member(d) => c = d
Applied(facts, differences) ==
  (facts \ UNION {d.before : d \in differences}) \cup UNION {d.after : d \in differences}

(* The members an owner's claims have after its differences: a condition   *)
(* that was added replaces the unconditional member of its partition, and  *)
(* a condition that was removed leaves one.                                *)
ClaimsApplied(owner) ==
  LET mine == {d \in set.differences : <<d.of, d.key>> = owner
                                       /\ d.fact \in {"claim", "condition_group"}}
      Unconditional(change, side) ==
        {[m EXCEPT !.condition = Null] : m \in
           UNION {d[side] : d \in {x \in mine : x.fact = "condition_group"
                                                /\ x.change = change}}}
      members == {Member(c) : c \in {x \in base.claims : Owner(x) = owner}}
  IN  ((members \ UNION {d.before : d \in mine}) \ Unconditional("added", "after"))
      \cup (UNION {d.after : d \in mine}) \cup Unconditional("removed", "before")

(* compareContractSnapshots always has an answer it accepts itself, unless *)
(* two snapshots of one later identity version differ in their endpoints;  *)
(* and the answer tells the whole truth: applied to the base it gives the  *)
(* target, for every fact, and for claims that are not stated twice.       *)
DifferencesTellTheTruth ==
  /\ set.status = "rejected" =>
       /\ base.version = target.version /\ base.version # "current"
       /\ {<<e, Route(base, e)>> : e \in EndpointsOf(base)} #
          {<<e, Route(target, e)>> : e \in EndpointsOf(target)}
  /\ Compared =>
       /\ Applied(Kinds(base), {d \in set.differences :
            d.fact \notin {"claim", "condition_group"}}) = Kinds(target)
       /\ base.version = target.version /\ Distinct(base) /\ Distinct(target) =>
            \A owner \in Owners :
              ClaimsApplied(owner) = {Member(c) : c \in {x \in target.claims : Owner(x) = owner}}

(* What a snapshot may ask of a request when the condition [world] holds   *)
(* or fails and unknown presences are as hard as can be.                   *)
Demanded(s, e, world) == {f \in s.facts :
  /\ f.of = e /\ f.kind \in RequestKinds
  /\ \/ f.value[1] \in {"required", "unknown"}
     \/ f.value[1] \notin Presences /\ f.value[1] \in world}
Offered(s, e) == {<<f.kind, f.key, f.value[2], f.value[3]>> :
  f \in {x \in s.facts : x.of = e /\ x.kind \in RequestKinds}}
Keys(facts) == {<<f.kind, f.key>> : f \in facts}
Claimed(s) == {<<Owner(c), c.condition>> : c \in
  {x \in s.claims : x.key = "request.field.presence" /\ x.value \in Restrictive}}

(* A comparison that is complete and finds nothing but non-breaking        *)
(* differences promises every client of the base that its requests are     *)
(* still good: nothing it may send changed its form, nothing more is asked *)
(* of it, whichever conditions hold, and responses and security are equal. *)
NonBreakingIsSafe ==
  set.status = "complete" /\ (\A d \in set.differences : d.compatibility = "non_breaking") =>
    /\ \A e \in EndpointsOf(base) :
         /\ e \in EndpointsOf(target) /\ Route(base, e) = Route(target, e)
         /\ Offered(base, e) \subseteq Offered(target, e)
         /\ \A kind \in {"names", "response", "security"} :
              FactsOf(base, kind, e) = FactsOf(target, kind, e)
         /\ \A world \in SUBSET {Conditions[i] : i \in DOMAIN Conditions} :
              Keys(Demanded(target, e, world)) \subseteq Keys(Demanded(base, e, world))
    /\ {f \in base.facts : f.kind = "schema"} \subseteq target.facts
    /\ Claimed(target) \subseteq Claimed(base)

(* compareContractSnapshots: what is said to differ does, in both          *)
(* directions, and what is said not to break does not.                     *)
DifferencesAreSound == DifferencesTellTheTruth /\ NonBreakingIsSafe
=============================================================================
