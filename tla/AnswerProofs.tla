----------------------------- MODULE AnswerProofs -----------------------------
(***************************************************************************)
(* Proofs about what readers are told.  Field presence, for any policies,  *)
(* batches and bounds: its rows are grounded when they are written under   *)
(* the lock, and what they name is only added to.  The search of a corpus, *)
(* for any configuration, grants, limits and cuts: its answer claims no    *)
(* more than was searched.  Inference, for any contracts, configurations,  *)
(* callers and outputs of a provider: its history is grounded in what was  *)
(* served, its reviews are chains, an answer about all services is about   *)
(* one moment, and a ranking uses the vectors of the texts it ranks.       *)
(***************************************************************************)
EXTENDS FieldPresence, CorpusSearch, SemanticDiscovery, FiniteSetTheorems, TLAPS

-----------------------------------------------------------------------------
(* Field presence: what its tables hold.                                   *)

Fingerprints == {Activations[i] : i \in Nat}
Selected == [version : Nat, config : Fingerprints]
PolicyRows == [activation : Nat, lifetime : Nat, budget : Nat]
ImportRows ==
  [pin : Selected, at : Nat, end : Nat,
   confirmed : {b.confirmed : b \in Batches}, unresolved : {b.unresolved : b \in Batches}]

PresenceTyped ==
  /\ activation \in Nat /\ now \in Nat /\ enabled \in BOOLEAN
  /\ serving \in [version : Nat, config : Fingerprints, reconcile : BOOLEAN]
  /\ policies \in Seq(PolicyRows) /\ imports \in Seq(ImportRows)
  /\ enabled => policies # <<>>

(* Who asks names a policy and an import that are there.                   *)
ImporterNames(q) == q.revision \in DOMAIN policies /\ q.import \in DOMAIN imports
ImportersName == \A q \in importing : ImporterNames(q)

(* A row is of a policy and an import that are there, and older than the   *)
(* next one will be, also when rows were deleted since: a deleted row      *)
(* leaves its tombstone.                                                   *)
RowsTyped ==
  /\ IsFiniteSet(results) /\ IsFiniteSet(tombstones)
  /\ \A r \in results :
       /\ r.revision \in DOMAIN policies /\ r.import \in DOMAIN imports
       /\ r.expires \in Nat /\ r.created \in Nat
       /\ r.seen \in [pin : Selected, activation : Nat]
       /\ r.created < Cardinality(results) + Cardinality(tombstones)

PresenceInv ==
  /\ PresenceTyped /\ ImportersName /\ RowsTyped
  /\ DeletedStaysDeleted /\ BudgetHolds /\ RowsAreGrounded

-----------------------------------------------------------------------------
LEMMA AssumedNumbers ==
  /\ \A p \in Policies : p.lifetime \in Nat /\ p.budget \in Nat
  /\ WindowEnds \subseteq Nat
  /\ \A limit \in Limits : limit \in Nat
BY PresenceAssumption

LEMMA LiveRows ==
  ASSUME RowsTyped
  PROVE  /\ IsFiniteSet(Live) /\ Cardinality(Live) \in Nat
         /\ Cardinality(results) \in Nat /\ Cardinality(tombstones) \in Nat
         /\ \A S \in SUBSET Live : IsFiniteSet(S) /\ Cardinality(S) \in Nat
                                   /\ Cardinality(S) <= Cardinality(Live)
<1>1. IsFiniteSet(Live) /\ IsFiniteSet(results) /\ IsFiniteSet(tombstones)
  BY FS_Subset DEF RowsTyped, Live
<1> QED
  BY <1>1, FS_Subset, FS_CardinalityType

(* Rows that nobody wrote or deleted.                                      *)
SameRows == UNCHANGED <<results, tombstones>>
(* Policies and imports are only added to.                                 *)
Extended ==
  /\ policies' \in Seq(PolicyRows) /\ imports' \in Seq(ImportRows)
  /\ \A k \in DOMAIN policies : k \in DOMAIN policies' /\ policies'[k] = policies[k]
  /\ \A i \in DOMAIN imports : i \in DOMAIN imports' /\ imports'[i] = imports[i]

LEMMA BudgetShrinks ==
  ASSUME PresenceInv, Live' \subseteq Live, Extended
  PROVE  BudgetHolds'
<1>1. ASSUME NEW r \in Live'
      PROVE  Cardinality({s \in Live' : s.created <= r.created}) <= policies'[r.revision].budget
  <2> DEFINE Was == {s \in Live : s.created <= r.created}
             Now == {s \in Live' : s.created <= r.created}
  <2>1. r \in Live /\ r \in results
    BY <1>1 DEF Live
  <2>2. policies \in Seq(PolicyRows) /\ r.revision \in DOMAIN policies
    BY <2>1 DEF PresenceInv, PresenceTyped, RowsTyped
  <2>3. policies[r.revision] \in PolicyRows /\ policies'[r.revision] = policies[r.revision]
    BY <2>2 DEF Extended
  <2>4. policies[r.revision].budget \in Nat
    BY <2>3 DEF PolicyRows
  <2>5. Was \in SUBSET Live /\ Now \in SUBSET Was
    OBVIOUS
  <2>6. Cardinality(Was) <= policies[r.revision].budget
    BY <2>1 DEF PresenceInv, BudgetHolds
  <2> HIDE DEF Was, Now
  <2>7. IsFiniteSet(Was) /\ Cardinality(Was) \in Nat
    BY <2>5, LiveRows DEF PresenceInv
  <2>8. Cardinality(Now) <= Cardinality(Was) /\ Cardinality(Now) \in Nat
    BY <2>5, <2>7, FS_Subset, FS_CardinalityType
  <2>9. Cardinality(Now) <= policies'[r.revision].budget
    BY <2>3, <2>4, <2>6, <2>7, <2>8
  <2> QED
    BY <2>9 DEF Now
<1> QED
  BY <1>1 DEF BudgetHolds

(* What is kept while time passes and policies and imports are added.      *)
LEMMA PresenceKept ==
  ASSUME PresenceInv, SameRows, Extended, now' \in Nat, now' >= now
  PROVE  RowsTyped' /\ DeletedStaysDeleted' /\ BudgetHolds' /\ RowsAreGrounded'
<1>1. RowsTyped'
  BY DEF PresenceInv, RowsTyped, SameRows, Extended
<1>2. DeletedStaysDeleted'
  BY DEF PresenceInv, DeletedStaysDeleted, SameRows, Key
<1>3. RowsAreGrounded'
  <2>1. ASSUME NEW r \in results
        PROVE  /\ r.seen.pin = imports'[r.import].pin /\ r.record \in imports'[r.import].confirmed
               /\ r.seen.pin.config = Activations[r.seen.activation]
               /\ r.seen.activation = policies'[r.revision].activation
    <3>1. /\ imports'[r.import] = imports[r.import]
          /\ policies'[r.revision] = policies[r.revision]
      BY DEF PresenceInv, RowsTyped, Extended
    <3> QED
      BY <3>1 DEF PresenceInv, RowsAreGrounded
  <2> QED
    BY <2>1 DEF RowsAreGrounded, SameRows
<1>4. BudgetHolds'
  BY BudgetShrinks DEF Live, SameRows, PresenceInv, PresenceTyped, RowsTyped
<1> QED
  BY <1>1, <1>2, <1>3, <1>4

-----------------------------------------------------------------------------
(* The environment, the owner and the importer of metadata.                *)

LEMMA ImportersKept ==
  ASSUME ImportersName, Extended, importing' \subseteq importing
  PROVE  ImportersName'
BY DEF ImportersName, ImporterNames, Extended

LEMMA NothingAdded ==
  ASSUME PresenceTyped, UNCHANGED <<policies, imports>>
  PROVE  Extended
BY DEF PresenceTyped, Extended

LEMMA WorldKeeps ==
  ASSUME PresenceInv, Activate \/ Serve \/ Tick
  PROVE  PresenceInv'
<1>1. Extended
  BY NothingAdded DEF PresenceInv, Activate, Serve, Tick
<1>2. ImportersName'
  BY <1>1, ImportersKept DEF PresenceInv, Activate, Serve, Tick
<1>3. activation \in Nat /\ now \in Nat
  BY DEF PresenceInv, PresenceTyped
<1>4. RowsTyped' /\ DeletedStaysDeleted' /\ BudgetHolds' /\ RowsAreGrounded'
  BY <1>1, <1>3, PresenceKept DEF SameRows, Activate, Serve, Tick
<1>5. PresenceTyped'
  <2>1. CASE Activate
    BY <2>1 DEF Activate, PresenceInv, PresenceTyped
  <2>2. CASE Serve
    <3>1. PICK i \in 1..activation, reconcile \in BOOLEAN :
            serving' = [version |-> serving.version + 1, config |-> Activations[i],
                        reconcile |-> reconcile]
      BY <2>2 DEF Serve
    <3>2. i \in Nat /\ Activations[i] \in Fingerprints /\ serving.version \in Nat
      BY <1>3 DEF Fingerprints, PresenceInv, PresenceTyped
    <3> QED
      BY <2>2, <3>1, <3>2 DEF Serve, PresenceInv, PresenceTyped
  <2>3. CASE Tick
    BY <2>3 DEF Tick, PresenceInv, PresenceTyped
  <2> QED
    BY <2>1, <2>2, <2>3
<1> QED
  BY <1>2, <1>4, <1>5 DEF PresenceInv

LEMMA Appended ==
  ASSUME NEW S, NEW s \in Seq(S), NEW x \in S
  PROVE  /\ Append(s, x) \in Seq(S) /\ Append(s, x) # <<>>
         /\ \A k \in DOMAIN s : k \in DOMAIN Append(s, x) /\ Append(s, x)[k] = s[k]
OBVIOUS

LEMMA OwnerKeeps ==
  ASSUME PresenceInv, approve \/ disable
  PROVE  PresenceInv'
<1>1. PresenceTyped' /\ Extended
  <2>1. CASE approve
    <3>1. PICK p \in Policies :
            policies' = Append(policies,
              [activation |-> activation, lifetime |-> p.lifetime, budget |-> p.budget])
      BY <2>1 DEF approve
    <3> DEFINE row == [activation |-> activation, lifetime |-> p.lifetime, budget |-> p.budget]
    <3>2. row \in PolicyRows
      BY AssumedNumbers DEF PolicyRows, PresenceInv, PresenceTyped
    <3> HIDE DEF row
    <3>3. /\ policies' \in Seq(PolicyRows) /\ policies' # <<>>
          /\ \A k \in DOMAIN policies : k \in DOMAIN policies' /\ policies'[k] = policies[k]
      BY <3>1, <3>2, Appended DEF row, PresenceInv, PresenceTyped
    <3> QED
      BY <2>1, <3>3 DEF approve, Extended, PresenceInv, PresenceTyped
  <2>2. CASE disable
    BY <2>2, NothingAdded DEF disable, PresenceInv, PresenceTyped
  <2> QED
    BY <2>1, <2>2
<1>2. ImportersName'
  BY <1>1, ImportersKept DEF PresenceInv, approve, disable
<1>3. RowsTyped' /\ DeletedStaysDeleted' /\ BudgetHolds' /\ RowsAreGrounded'
  BY <1>1, PresenceKept DEF SameRows, approve, disable, PresenceInv, PresenceTyped
<1> QED
  BY <1>1, <1>2, <1>3 DEF PresenceInv

LEMMA PinTyped == PresenceTyped => Pin \in Selected
BY DEF PresenceTyped, Pin, Selected

LEMMA ImportBatchKeeps ==
  ASSUME PresenceInv, importBatch
  PROVE  PresenceInv'
<1>1. PICK b \in Batches, end \in WindowEnds :
        imports' = Append(imports, [pin |-> Pin, at |-> now, end |-> end,
                                    confirmed |-> b.confirmed, unresolved |-> b.unresolved])
  BY DEF importBatch
<1> DEFINE row == [pin |-> Pin, at |-> now, end |-> end,
                   confirmed |-> b.confirmed, unresolved |-> b.unresolved]
<1>2. row \in ImportRows
  BY AssumedNumbers, PinTyped DEF ImportRows, PresenceInv, PresenceTyped
<1> HIDE DEF row
<1>3. /\ imports' \in Seq(ImportRows)
      /\ \A i \in DOMAIN imports : i \in DOMAIN imports' /\ imports'[i] = imports[i]
  BY <1>1, <1>2, Appended DEF row, PresenceInv, PresenceTyped
<1>4. PresenceTyped' /\ Extended
  BY <1>3 DEF importBatch, Extended, PresenceInv, PresenceTyped
<1>5. ImportersName'
  BY <1>4, ImportersKept DEF PresenceInv, importBatch
<1>6. RowsTyped' /\ DeletedStaysDeleted' /\ BudgetHolds' /\ RowsAreGrounded'
  BY <1>4, PresenceKept DEF SameRows, importBatch, PresenceInv, PresenceTyped
<1> QED
  BY <1>4, <1>5, <1>6 DEF PresenceInv

-----------------------------------------------------------------------------
(* The importer of presence.                                               *)

LEMMA BeginKeeps ==
  ASSUME PresenceInv, NEW i \in DOMAIN imports, NEW r \in imports[i].confirmed,
         beginImport([revision |-> Len(policies), import |-> i, record |-> r, pin |-> Pin])
  PROVE  PresenceInv'
<1> DEFINE q == [revision |-> Len(policies), import |-> i, record |-> r, pin |-> Pin]
<1>1. /\ importing' = importing \cup {q} /\ PolicyInForce(Len(policies))
      /\ UNCHANGED <<activation, serving, now, policies, enabled, imports, results, tombstones>>
  BY DEF beginImport
<1>2. Len(policies) \in DOMAIN policies
  BY <1>1 DEF PolicyInForce, PresenceInv, PresenceTyped
<1>3. ImportersName'
  BY <1>1, <1>2 DEF ImportersName, ImporterNames, PresenceInv
<1>4. Extended
  BY <1>1, NothingAdded DEF PresenceInv
<1>5. PresenceTyped'
  BY <1>1 DEF PresenceInv, PresenceTyped
<1>6. RowsTyped' /\ DeletedStaysDeleted' /\ BudgetHolds' /\ RowsAreGrounded'
  BY <1>1, <1>4, PresenceKept DEF SameRows, PresenceInv, PresenceTyped
<1> QED
  BY <1>3, <1>5, <1>6 DEF PresenceInv

LEMMA AbandonKeeps ==
  ASSUME PresenceInv, NEW q \in importing, abandonImport(q)
  PROVE  PresenceInv'
<1>1. Extended /\ importing' \subseteq importing
  BY NothingAdded DEF PresenceInv, abandonImport
<1>2. PresenceTyped' /\ ImportersName'
  BY <1>1, ImportersKept DEF PresenceInv, PresenceTyped, abandonImport
<1>3. RowsTyped' /\ DeletedStaysDeleted' /\ BudgetHolds' /\ RowsAreGrounded'
  BY <1>1, PresenceKept DEF SameRows, abandonImport, PresenceInv, PresenceTyped
<1> QED
  BY <1>2, <1>3 DEF PresenceInv

LEMMA RowFacts ==
  ASSUME PresenceInv, NEW q \in importing
  PROVE  /\ Row(q).revision = q.revision /\ Row(q).import = q.import
         /\ Row(q).record = q.record /\ Key(Row(q)) = Key(q)
         /\ Row(q).expires \in Nat
         /\ Row(q).created = Cardinality(results) + Cardinality(tombstones)
         /\ Row(q).seen = [pin |-> q.pin, activation |-> activation]
<1>1. imports[q.import] \in ImportRows /\ policies[q.revision] \in PolicyRows
  BY DEF PresenceInv, PresenceTyped, ImportersName, ImporterNames
<1>2. imports[q.import].end + policies[q.revision].lifetime \in Nat
  BY <1>1 DEF ImportRows, PolicyRows
<1> QED
  BY <1>2 DEF Row, Key

(* The new row is the newest, so that the budget of an older one is not    *)
(* touched, and its own was looked at.                                     *)
LEMMA StoreKeeps ==
  ASSUME PresenceInv, NEW q \in importing, storeResult(q)
  PROVE  PresenceInv'
<1> DEFINE row == Row(q)
           next == Cardinality(results) + Cardinality(tombstones)
<1>1. /\ results' = results \cup {row} /\ importing' = importing \ {q}
      /\ UNCHANGED <<activation, serving, now, policies, enabled, imports, tombstones>>
      /\ authorizePinned(q.pin) /\ PolicyInForce(q.revision) /\ loadState(q) /\ insertGuard(q)
  BY DEF storeResult
<1>2. /\ row.revision = q.revision /\ row.import = q.import
      /\ row.record = q.record /\ Key(row) = Key(q)
      /\ row.expires \in Nat /\ row.created = next
      /\ row.seen = [pin |-> q.pin, activation |-> activation]
  BY RowFacts
<1>3. /\ IsFiniteSet(Live) /\ Cardinality(Live) \in Nat
      /\ Cardinality(results) \in Nat /\ Cardinality(tombstones) \in Nat
      /\ \A S \in SUBSET Live : IsFiniteSet(S) /\ Cardinality(S) \in Nat
                                /\ Cardinality(S) <= Cardinality(Live)
  BY LiveRows DEF PresenceInv
<1>4. next \in Nat
  BY <1>3
<1>5. \A r \in results : r.created \in Nat /\ r.created < next
  BY DEF PresenceInv, RowsTyped
<1>6. row \notin results
  BY <1>1, <1>2 DEF insertGuard
<1>7. IsFiniteSet(results') /\ Cardinality(results') = Cardinality(results) + 1
  BY <1>1, <1>6, FS_AddElement DEF PresenceInv, RowsTyped
<1>8. q.revision \in DOMAIN policies /\ q.import \in DOMAIN imports
  BY DEF PresenceInv, ImportersName, ImporterNames
<1>9. /\ q.pin = Pin /\ q.pin \in Selected /\ q.pin.config = Activations[activation]
      /\ policies[q.revision].activation = activation
      /\ imports[q.import].pin = q.pin /\ q.record \in imports[q.import].confirmed
  BY <1>1, PinTyped
     DEF authorizePinned, ActiveConfig, PolicyInForce, loadState, PresenceInv
<1>10. row.seen \in [pin : Selected, activation : Nat]
  BY <1>2, <1>9 DEF PresenceInv, PresenceTyped
<1>11. row.seen.pin = q.pin /\ row.seen.activation = activation
  BY <1>2
<1> HIDE DEF row
<1>12. PresenceTyped' /\ ImportersName'
  BY <1>1 DEF PresenceInv, PresenceTyped, ImportersName, ImporterNames
<1>13. RowsTyped'
  <2>1. ASSUME NEW r \in results'
        PROVE  /\ r.revision \in DOMAIN policies /\ r.import \in DOMAIN imports
               /\ r.expires \in Nat /\ r.created \in Nat
               /\ r.seen \in [pin : Selected, activation : Nat]
               /\ r.created < next + 1
    <3>1. CASE r = row
      BY <1>2, <1>4, <1>8, <1>10, <3>1
    <3>2. CASE r \in results
      BY <1>4, <1>5, <3>2 DEF PresenceInv, RowsTyped
    <3> QED
      BY <1>1, <3>1, <3>2
  <2>2. Cardinality(results') + Cardinality(tombstones') = next + 1
    BY <1>1, <1>3, <1>7
  <2>3. IsFiniteSet(tombstones')
    BY <1>1 DEF PresenceInv, RowsTyped
  <2> QED
    BY <1>1, <1>7, <2>1, <2>2, <2>3 DEF RowsTyped
<1>14. DeletedStaysDeleted'
  <2>1. Key(row) \notin tombstones /\ \A r \in results : Key(r) # Key(row)
    BY <1>1, <1>2 DEF insertGuard
  <2>2. /\ \A r \in results : Key(r) \notin tombstones
        /\ \A r, s \in results : Key(r) = Key(s) => r = s
    BY DEF PresenceInv, DeletedStaysDeleted
  <2>3. /\ \A r \in results' : Key(r) \notin tombstones'
        /\ \A r, s \in results' : Key(r) = Key(s) => r = s
    BY <1>1, <2>1, <2>2
  <2> QED
    BY <2>3 DEF DeletedStaysDeleted, Key
<1>15. RowsAreGrounded'
  <2>1. ASSUME NEW r \in results'
        PROVE  /\ r.seen.pin = imports[r.import].pin /\ r.record \in imports[r.import].confirmed
               /\ r.seen.pin.config = Activations[r.seen.activation]
               /\ r.seen.activation = policies[r.revision].activation
    <3>1. CASE r = row
      BY <1>2, <1>9, <1>11, <3>1
    <3>2. CASE r \in results
      BY <3>2 DEF PresenceInv, RowsAreGrounded
    <3> QED
      BY <1>1, <3>1, <3>2
  <2> QED
    BY <1>1, <2>1 DEF RowsAreGrounded
<1>16. BudgetHolds'
  <2>1. Live' \subseteq Live \cup {row} /\ \A r \in Live' : r \in results' /\ (r = row \/ r \in Live)
    BY <1>1 DEF Live
  <2>2. ASSUME NEW r \in Live'
        PROVE  Cardinality({s \in Live' : s.created <= r.created})
                 <= policies'[r.revision].budget
    <3> DEFINE Now == {s \in Live' : s.created <= r.created}
               Was == {s \in Live : s.created <= r.created}
    <3>1. CASE r = row
      <4>1. Now \in SUBSET (Live \cup {row})
        BY <2>1
      <4>2. /\ IsFiniteSet(Live \cup {row})
            /\ Cardinality(Live \cup {row}) <= Cardinality(Live) + 1
            /\ Cardinality(Live \cup {row}) \in Nat
        BY <1>3, FS_AddElement, FS_CardinalityType
      <4> HIDE DEF Now
      <4>3. Cardinality(Now) <= Cardinality(Live \cup {row}) /\ Cardinality(Now) \in Nat
        BY <4>1, <4>2, FS_Subset, FS_CardinalityType
      <4>4. Cardinality(Live) < policies[q.revision].budget
        BY <1>1 DEF insertGuard
      <4>5. policies[q.revision] \in PolicyRows
        BY <1>8 DEF PresenceInv, PresenceTyped
      <4>6. policies[q.revision].budget \in Nat
        BY <4>5 DEF PolicyRows
      <4>7. Cardinality(Now) <= policies[q.revision].budget
        BY <1>3, <4>2, <4>3, <4>4, <4>6
      <4> QED
        BY <1>1, <1>2, <3>1, <4>7 DEF Now
    <3>2. CASE r # row
      <4>1. r \in Live /\ r \in results
        BY <2>1, <2>2, <3>2 DEF Live
      <4>2. ~(row.created <= r.created)
        BY <1>2, <1>4, <1>5, <4>1
      <4>3. Now = Was
        BY <1>1, <2>1, <4>2 DEF Live
      <4>4. Cardinality(Was) <= policies[r.revision].budget
        BY <4>1 DEF PresenceInv, BudgetHolds
      <4> QED
        BY <1>1, <4>3, <4>4
    <3> QED
      BY <3>1, <3>2
  <2> QED
    BY <2>2 DEF BudgetHolds
<1> QED
  BY <1>12, <1>13, <1>14, <1>15, <1>16 DEF PresenceInv

-----------------------------------------------------------------------------
(* Maintenance.  Rows and tombstones together are as many as before.       *)

LEMMA DeletedCounted ==
  ASSUME PresenceInv, NEW gone \in SUBSET results
  PROVE  LET keys == {Key(r) : r \in gone} IN
         /\ IsFiniteSet(results \ gone) /\ IsFiniteSet(tombstones \cup keys)
         /\ Cardinality(results \ gone) + Cardinality(tombstones \cup keys)
              = Cardinality(results) + Cardinality(tombstones)
<1> DEFINE keys == {Key(r) : r \in gone}
           f == [r \in gone |-> Key(r)]
<1>1. /\ IsFiniteSet(results) /\ IsFiniteSet(tombstones) /\ IsFiniteSet(gone)
      /\ Cardinality(results) \in Nat /\ Cardinality(tombstones) \in Nat
      /\ Cardinality(gone) \in Nat
  BY FS_Subset, FS_CardinalityType DEF PresenceInv, RowsTyped
<1>2. /\ \A r \in results : Key(r) \notin tombstones
      /\ \A r, s \in results : Key(r) = Key(s) => r = s
  BY DEF PresenceInv, DeletedStaysDeleted
<1>3. f \in Surjection(gone, keys)
  BY DEF Surjection
<1>4. f \in Injection(gone, keys)
  BY <1>2 DEF Injection, IsInjective
<1> HIDE DEF f
<1>5. IsFiniteSet(keys) /\ Cardinality(keys) = Cardinality(gone)
  BY <1>1, <1>3, <1>4, FS_Surjection
<1>6. tombstones \cap keys = {} /\ results \cap gone = gone
  BY <1>2
<1> HIDE DEF keys
<1>7. /\ IsFiniteSet(tombstones \cup keys)
      /\ Cardinality(tombstones \cup keys)
           = Cardinality(tombstones) + Cardinality(keys) - Cardinality(tombstones \cap keys)
  BY <1>1, <1>5, FS_Union
<1>8. Cardinality(tombstones \cap keys) = 0
  BY <1>6, FS_EmptySet
<1>9. /\ IsFiniteSet(results \ gone)
      /\ Cardinality(results \ gone) = Cardinality(results) - Cardinality(gone)
  BY <1>1, <1>6, FS_Difference
<1>10. Cardinality(results \ gone) + Cardinality(tombstones \cup keys)
         = Cardinality(results) + Cardinality(tombstones)
  BY <1>1, <1>5, <1>7, <1>8, <1>9
<1> QED
  BY <1>7, <1>9, <1>10 DEF keys

LEMMA CleanupKeeps ==
  ASSUME PresenceInv, cleanup
  PROVE  PresenceInv'
<1>1. PICK gone \in SUBSET Removable :
        results' = results \ gone /\ tombstones' = tombstones \cup {Key(r) : r \in gone}
  BY DEF cleanup
<1>2. gone \in SUBSET results
  BY <1>1 DEF Removable
<1>3. UNCHANGED <<activation, serving, now, policies, enabled, imports, importing>>
  BY DEF cleanup
<1>4. /\ IsFiniteSet(results') /\ IsFiniteSet(tombstones')
      /\ Cardinality(results') + Cardinality(tombstones')
           = Cardinality(results) + Cardinality(tombstones)
  BY <1>1, <1>2, DeletedCounted
<1>5. results' \subseteq results
  BY <1>1
<1>6. PresenceTyped' /\ ImportersName'
  BY <1>3 DEF PresenceInv, PresenceTyped, ImportersName, ImporterNames
<1>7. RowsTyped'
  BY <1>3, <1>4, <1>5 DEF PresenceInv, RowsTyped
<1>8. DeletedStaysDeleted'
  <2>1. /\ \A r \in results : Key(r) \notin tombstones
        /\ \A r, s \in results : Key(r) = Key(s) => r = s
    BY DEF PresenceInv, DeletedStaysDeleted
  <2>2. /\ \A r \in results' : Key(r) \notin tombstones'
        /\ \A r, s \in results' : Key(r) = Key(s) => r = s
    BY <1>1, <1>2, <2>1
  <2> QED
    BY <2>2 DEF DeletedStaysDeleted, Key
<1>9. RowsAreGrounded'
  BY <1>3, <1>5 DEF PresenceInv, RowsAreGrounded
<1>10. BudgetHolds'
  <2>1. Live' \subseteq Live /\ Extended
    BY <1>3, <1>5, NothingAdded DEF Live, PresenceInv
  <2> QED
    BY <2>1, BudgetShrinks
<1> QED
  BY <1>6, <1>7, <1>8, <1>9, <1>10 DEF PresenceInv

-----------------------------------------------------------------------------
LEMMA PresenceStarts == PresenceInit => PresenceInv
<1> SUFFICES ASSUME PresenceInit PROVE PresenceInv
  OBVIOUS
<1>1. PresenceTyped
  <2>1. Activations[1] \in Fingerprints
    BY DEF Fingerprints
  <2>2. serving \in [version : Nat, config : Fingerprints, reconcile : BOOLEAN]
    BY <2>1 DEF PresenceInit
  <2>3. activation \in Nat /\ now \in Nat /\ enabled = FALSE
    BY DEF PresenceInit
  <2>4. policies \in Seq(PolicyRows) /\ imports \in Seq(ImportRows)
    BY DEF PresenceInit
  <2>5. enabled \in BOOLEAN /\ (enabled => policies # <<>>)
    BY <2>3, Zenon
  <2> QED
    BY <2>2, <2>3, <2>4, <2>5 DEF PresenceTyped
<1>2. ImportersName
  BY DEF PresenceInit, ImportersName
<1>3. RowsTyped
  BY FS_EmptySet DEF PresenceInit, RowsTyped
<1>4. DeletedStaysDeleted /\ BudgetHolds /\ RowsAreGrounded
  BY DEF PresenceInit, DeletedStaysDeleted, BudgetHolds, RowsAreGrounded, Live
<1> QED
  BY <1>1, <1>2, <1>3, <1>4 DEF PresenceInv

LEMMA PresenceSteps == PresenceInv /\ [PresenceNext]_presenceVars => PresenceInv'
<1> SUFFICES ASSUME PresenceInv, [PresenceNext]_presenceVars PROVE PresenceInv'
  OBVIOUS
<1>1. CASE UNCHANGED presenceVars
  BY <1>1 DEF presenceVars, PresenceInv, PresenceTyped, ImportersName, ImporterNames, RowsTyped,
     DeletedStaysDeleted, Key, BudgetHolds, Live, RowsAreGrounded
<1>2. CASE Activate \/ Serve \/ Tick
  BY <1>2, WorldKeeps
<1>3. CASE approve \/ disable
  BY <1>3, OwnerKeeps
<1>4. CASE importBatch
  BY <1>4, ImportBatchKeeps
<1>5. CASE cleanup
  BY <1>5, CleanupKeeps
<1>6. CASE \E i \in DOMAIN imports : \E r \in imports[i].confirmed :
             beginImport([revision |-> Len(policies), import |-> i, record |-> r, pin |-> Pin])
  BY <1>6, BeginKeeps
<1>7. CASE \E q \in importing : storeResult(q) \/ abandonImport(q)
  BY <1>7, StoreKeeps, AbandonKeeps
<1> QED
  BY <1>1, <1>2, <1>3, <1>4, <1>5, <1>6, <1>7 DEF PresenceNext

(* The inductive invariant: a row written under the lock names a policy    *)
(* and an import that stay, and a deleted one leaves its tombstone.        *)
THEOREM PresenceInvariant == PresenceSpec => []PresenceInv
BY PresenceStarts, PresenceSteps, PTL DEF PresenceSpec

(* A page that is not full is all there is.                                *)
LEMMA NewestOfFew ==
  ASSUME NEW rows, IsFiniteSet(rows), \A r \in rows : r.created \in Nat,
         NEW n \in Nat, ~(Cardinality(rows) > n)
  PROVE  rows \subseteq Newest(rows, n)
<1> SUFFICES ASSUME NEW r \in rows
             PROVE  Cardinality({s \in rows : s.created > r.created}) < n
  BY DEF Newest
<1> DEFINE others == {s \in rows : s.created > r.created}
<1>1. others \in SUBSET (rows \ {r})
  OBVIOUS
<1> HIDE DEF others
<1>2. /\ IsFiniteSet(rows \ {r}) /\ Cardinality(rows \ {r}) = Cardinality(rows) - 1
      /\ Cardinality(rows) \in Nat
  BY FS_RemoveElement, FS_CardinalityType
<1>3. Cardinality(others) <= Cardinality(rows \ {r}) /\ Cardinality(others) \in Nat
  BY <1>1, <1>2, FS_Subset, FS_CardinalityType
<1>4. Cardinality(others) < n
  BY <1>2, <1>3
<1> QED
  BY <1>4 DEF others

LEMMA NewestGrows ==
  ASSUME NEW rows, IsFiniteSet(rows), NEW n \in Nat
  PROVE  Newest(rows, n) \subseteq Newest(rows, n + 1)
<1>1. ASSUME NEW r \in rows, Cardinality({s \in rows : s.created > r.created}) < n
      PROVE  Cardinality({s \in rows : s.created > r.created}) < n + 1
  <2> DEFINE others == {s \in rows : s.created > r.created}
  <2>1. others \in SUBSET rows
    OBVIOUS
  <2> HIDE DEF others
  <2>2. Cardinality(others) \in Nat
    BY <2>1, FS_Subset, FS_CardinalityType
  <2>3. Cardinality(others) < n
    BY <1>1 DEF others
  <2>4. Cardinality(others) < n + 1
    BY <2>2, <2>3
  <2> QED
    BY <2>4 DEF others
<1> QED
  BY <1>1 DEF Newest

LEMMA ReadsTrue == PresenceInv => ReadsAreTrue
<1> SUFFICES ASSUME PresenceInv, NEW revision \in DOMAIN policies, NEW limit \in Limits,
                    presenceRead(Pin, revision, limit).status = "resolved"
             PROVE  LET read == presenceRead(Pin, revision, limit) IN
                    /\ \A r \in read.rows :
                         /\ r.seen = [pin |-> Pin, activation |-> activation] /\ r.expires > now
                         /\ <<r.import, r.record>> \in metadataRead(Pin)
                         /\ ~RecordedTwice(r.import, r.record)
                    /\ ~read.truncated =>
                         \A r \in Live : r.revision = revision /\ r.seen.pin = Pin
                                           => r \in read.rows
  BY DEF ReadsAreTrue
<1> DEFINE read == presenceRead(Pin, revision, limit)
           scanned == Found(Pin, revision)
<1>1. /\ Readable(Pin, revision) /\ ~PageAmbiguous(Newest(scanned, limit + 1))
      /\ read.rows = Newest(scanned, limit)
      /\ ~read.truncated => ~(Cardinality(scanned) > limit)
  BY DEF presenceRead
<1>2. limit \in Nat
  BY AssumedNumbers
<1>3. scanned \in SUBSET Live /\ Live \subseteq results
  BY DEF Found, Live
<1>4. IsFiniteSet(scanned) /\ \A r \in scanned : r.created \in Nat
  BY <1>3, LiveRows DEF PresenceInv, RowsTyped
<1>5. /\ authorizePinned(Pin) /\ policies[revision].activation = activation
  BY <1>1 DEF Readable, PolicyInForce
<1>6. ASSUME NEW r \in scanned
      PROVE  /\ r.seen = [pin |-> Pin, activation |-> activation] /\ r.expires > now
             /\ <<r.import, r.record>> \in metadataRead(Pin)
  <2>1. /\ r \in results /\ r.expires > now /\ r.revision = revision
        /\ imports[r.import].pin = Pin /\ r.record \in imports[r.import].confirmed
    BY DEF Found, Live
  <2>2. /\ r.seen.pin = imports[r.import].pin
        /\ r.seen.activation = policies[r.revision].activation
    BY <2>1 DEF PresenceInv, RowsAreGrounded
  <2>3. r.seen \in [pin : Selected, activation : Nat] /\ r.import \in DOMAIN imports
    BY <2>1 DEF PresenceInv, RowsTyped
  <2>4. r.seen = [pin |-> Pin, activation |-> activation]
    BY <1>5, <2>1, <2>2, <2>3
  <2>5. <<r.import, r.record>> \in metadataRead(Pin)
    <3>1. r.import \in {j \in DOMAIN imports : imports[j].pin = Pin}
      BY <2>1, <2>3
    <3>2. <<r.import, r.record>>
            \in {<<r.import, x>> : x \in imports[r.import].confirmed \cup imports[r.import].unresolved}
      BY <2>1
    <3> QED
      BY <1>5, <3>1, <3>2 DEF metadataRead
  <2> QED
    BY <2>1, <2>4, <2>5
<1>7. ASSUME NEW r \in read.rows PROVE r \in scanned /\ ~RecordedTwice(r.import, r.record)
  <2>1. r \in Newest(scanned, limit) /\ r \in Newest(scanned, limit + 1)
    BY <1>1, <1>2, <1>4, NewestGrows
  <2> QED
    BY <1>1, <2>1 DEF Newest, PageAmbiguous
<1>8. ASSUME ~read.truncated, NEW r \in Live, r.revision = revision, r.seen.pin = Pin
      PROVE  r \in read.rows
  <2>1. r \in scanned
    BY <1>3, <1>8 DEF Found, PresenceInv, RowsAreGrounded
  <2>2. scanned \subseteq Newest(scanned, limit)
    <3>1. ~(Cardinality(scanned) > limit)
      BY <1>1, <1>8
    <3> HIDE DEF scanned
    <3> QED
      BY <1>2, <1>4, <3>1, NewestOfFew
  <2> QED
    BY <1>1, <2>1, <2>2
<1> QED
  BY <1>6, <1>7, <1>8

(* Presence is kept and shown only as the policy in force allows: deleted  *)
(* rows stay deleted, budgets held when a row was written, rows are of     *)
(* what was confirmed, and reads show just these.                          *)
THEOREM PresenceSound == PresenceSpec => []PresenceIsSound
<1>1. PresenceInv => PresenceIsSound
  BY ReadsTrue DEF PresenceInv, PresenceIsSound
<1> QED
  BY <1>1, PresenceInvariant, PTL

-----------------------------------------------------------------------------
(* Ranks in a finite set under a strict order, given as a set of pairs.    *)
Below(R, S, x) == {y \in S : <<y, x>> \in R}
Rank(R, S, x) == Cardinality(Below(R, S, x))
First(R, S, n) == {x \in S : Rank(R, S, x) < n}
StrictOrder(R, S) ==
  /\ \A x \in S : <<x, x>> \notin R
  /\ \A x, y, z \in S : <<x, y>> \in R /\ <<y, z>> \in R => <<x, z>> \in R
  /\ \A x, y \in S : x = y \/ <<x, y>> \in R \/ <<y, x>> \in R

LEMMA RankBound ==
  ASSUME NEW S, IsFiniteSet(S), NEW R, StrictOrder(R, S), NEW x \in S
  PROVE  /\ IsFiniteSet(Below(R, S, x))
         /\ Rank(R, S, x) \in Nat /\ Rank(R, S, x) < Cardinality(S)
<1>1. Below(R, S, x) \subseteq S \ {x}
  BY DEF Below, StrictOrder
<1>2. /\ IsFiniteSet(S \ {x}) /\ Cardinality(S \ {x}) = Cardinality(S) - 1
      /\ Cardinality(S) \in Nat
  BY FS_RemoveElement, FS_CardinalityType
<1>3. /\ IsFiniteSet(Below(R, S, x))
      /\ Cardinality(Below(R, S, x)) <= Cardinality(S \ {x})
  BY <1>1, <1>2, FS_Subset
<1>4. Cardinality(Below(R, S, x)) \in Nat
  BY <1>3, FS_CardinalityType
<1> QED
  BY <1>2, <1>3, <1>4 DEF Rank

LEMMA RankGrows ==
  ASSUME NEW S, IsFiniteSet(S), NEW R, StrictOrder(R, S),
         NEW x \in S, NEW y \in S, <<x, y>> \in R
  PROVE  Rank(R, S, x) < Rank(R, S, y)
<1>1. Below(R, S, x) \subseteq Below(R, S, y) \ {x} /\ x \in Below(R, S, y)
  BY DEF Below, StrictOrder
<1>2. /\ IsFiniteSet(Below(R, S, y)) /\ Rank(R, S, y) \in Nat
      /\ Rank(R, S, x) \in Nat
  BY RankBound
<1>3. /\ IsFiniteSet(Below(R, S, y) \ {x})
      /\ Cardinality(Below(R, S, y) \ {x}) = Rank(R, S, y) - 1
  BY <1>1, <1>2, FS_RemoveElement DEF Rank
<1>4. Rank(R, S, x) <= Cardinality(Below(R, S, y) \ {x})
  BY <1>1, <1>3, FS_Subset DEF Rank
<1> QED
  BY <1>2, <1>3, <1>4

LEMMA RankDiffers ==
  ASSUME NEW S, IsFiniteSet(S), NEW R, StrictOrder(R, S),
         NEW x \in S, NEW y \in S, Rank(R, S, x) = Rank(R, S, y)
  PROVE  x = y
<1>1. Rank(R, S, x) \in Nat
  BY RankBound
<1>2. <<x, y>> \notin R /\ <<y, x>> \notin R
  BY <1>1, RankGrows
<1> QED
  BY <1>2 DEF StrictOrder

(* Every rank below the size of the set is someone's.                      *)
LEMMA RankOnto ==
  ASSUME NEW S, IsFiniteSet(S), NEW R, StrictOrder(R, S),
         NEW p \in Nat, p < Cardinality(S)
  PROVE  \E x \in S : Rank(R, S, x) = p
<1> DEFINE T == {Rank(R, S, x) : x \in S}
           f == [x \in S |-> Rank(R, S, x)]
           N == Cardinality(S)
<1>1. f \in Surjection(S, T) /\ f \in Injection(S, T)
  <2>1. f \in [S -> T] /\ \A t \in T : \E x \in S : f[x] = t
    OBVIOUS
  <2>2. \A x, y \in S : f[x] = f[y] => x = y
    BY RankDiffers
  <2> QED
    BY <2>1, <2>2 DEF Surjection, Injection, IsInjective
<1>2. T \subseteq 0..(N - 1)
  BY RankBound, FS_CardinalityType
<1> HIDE DEF f
<1>3. Cardinality(T) = N /\ N \in Nat
  BY <1>1, FS_Surjection, FS_CardinalityType
<1> HIDE DEF N, T
<1>4. IsFiniteSet(0..(N - 1)) /\ Cardinality(0..(N - 1)) = N
  <2>1. 0 \in Int /\ N - 1 \in Int
    BY <1>3
  <2>2. IsFiniteSet(0..(N - 1)) /\ Cardinality(0..(N - 1)) = IF 0 > N - 1 THEN 0 ELSE (N - 1) - 0 + 1
    BY ONLY <2>1, FS_Interval
  <2> QED
    BY <1>3, <2>2
<1>5. T = 0..(N - 1)
  BY <1>2, <1>3, <1>4, FS_Subset
<1>6. p \in T
  BY <1>3, <1>5 DEF N
<1> QED
  BY <1>6 DEF T

LEMMA FirstSize ==
  ASSUME NEW S, IsFiniteSet(S), NEW R, StrictOrder(R, S), NEW n \in Nat
  PROVE  /\ IsFiniteSet(First(R, S, n)) /\ Cardinality(First(R, S, n)) \in Nat
         /\ Cardinality(First(R, S, n)) <= n
         /\ n <= Cardinality(S) => Cardinality(First(R, S, n)) = n
         /\ Cardinality(S) <= n => First(R, S, n) = S
<1> DEFINE F == First(R, S, n)
           f == [x \in F |-> Rank(R, S, x)]
<1>1. F \subseteq S /\ \A x \in F : Rank(R, S, x) < n /\ Rank(R, S, x) \in Nat
  BY RankBound DEF First
<1>2. IsFiniteSet(F) /\ Cardinality(F) \in Nat /\ Cardinality(S) \in Nat
  BY <1>1, FS_Subset, FS_CardinalityType
<1>3. IsFiniteSet(0..(n - 1)) /\ Cardinality(0..(n - 1)) = n
  BY FS_Interval
<1>4. f \in Injection(F, 0..(n - 1))
  <2>1. f \in [F -> 0..(n - 1)]
    BY <1>1
  <2>2. \A x, y \in F : f[x] = f[y] => x = y
    BY <1>1, RankDiffers
  <2> QED
    BY <2>1, <2>2 DEF Injection, IsInjective
<1>5. ASSUME n <= Cardinality(S) PROVE f \in Surjection(F, 0..(n - 1))
  <2>1. \A p \in 0..(n - 1) : \E x \in F : f[x] = p
    <3> TAKE p \in 0..(n - 1)
    <3>1. PICK x \in S : Rank(R, S, x) = p
      BY <1>2, <1>5, RankOnto
    <3>2. x \in F
      BY <3>1 DEF First
    <3> QED
      BY <3>1, <3>2
  <2> QED
    BY <1>4, <2>1 DEF Injection, Surjection
<1>6. Cardinality(S) <= n => F = S
  BY <1>2, RankBound DEF First
<1> HIDE DEF f
<1>7. Cardinality(F) <= n
  BY <1>3, <1>4, FS_Injection
<1>8. n <= Cardinality(S) => Cardinality(F) = n
  BY <1>3, <1>4, <1>5, FS_Injection
<1> QED
  BY <1>2, <1>6, <1>7, <1>8 DEF F

-----------------------------------------------------------------------------
(* The orders of the search: services by their identifier, candidates by   *)
(* their score and their place.                                            *)
Places == UNION {{i} \X Ids(i) : i \in DOMAIN corpus}
BetterIn(S) == {p \in S \X S : Better(p[1], p[2])}
LessIn(S) == {p \in S \X S : p[1] < p[2]}

LEMMA CorpusTyped ==
  ASSUME corpus \in Corpora
  PROVE  /\ Len(corpus) \in Nat /\ DOMAIN corpus = 1..Len(corpus)
         /\ \A i \in DOMAIN corpus :
              /\ corpus[i].environment \in BOOLEAN /\ corpus[i].granted \in BOOLEAN
              /\ corpus[i].state \in {"denied", "hidden", "unresolved", "resolved"}
              /\ corpus[i].complete \in BOOLEAN /\ Len(corpus[i].endpoints) \in Nat
              /\ Ids(i) \subseteq Nat /\ IsFiniteSet(Ids(i))
              /\ \A k \in Ids(i) :
                   /\ corpus[i].endpoints[k].score \in Nat
                   /\ corpus[i].endpoints[k].safe \in BOOLEAN
                   /\ corpus[i].endpoints[k].cited \in BOOLEAN
                   /\ corpus[i].endpoints[k].context \in BOOLEAN
<1> DEFINE E == [safe : BOOLEAN, cited : BOOLEAN, context : BOOLEAN, score : Nat]
           Se == [environment : BOOLEAN, granted : BOOLEAN,
                  state : {"denied", "hidden", "unresolved", "resolved"}, complete : BOOLEAN,
                  endpoints : Seq(E)]
<1>1. corpus \in Seq(Se)
  BY CorporaAreScored
<1> HIDE DEF E
<1>2. ASSUME NEW i \in DOMAIN corpus
      PROVE  /\ corpus[i].environment \in BOOLEAN /\ corpus[i].granted \in BOOLEAN
             /\ corpus[i].state \in {"denied", "hidden", "unresolved", "resolved"}
             /\ corpus[i].complete \in BOOLEAN
             /\ corpus[i].endpoints \in Seq(E)
  <2> HIDE DEF Se
  <2>1. corpus[i] \in Se
    BY <1>1, <1>2
  <2> QED
    BY <2>1 DEF Se
<1>3. ASSUME NEW i \in DOMAIN corpus
      PROVE  /\ Ids(i) = 1..Len(corpus[i].endpoints) /\ Len(corpus[i].endpoints) \in Nat
             /\ IsFiniteSet(Ids(i))
  <2>1. Ids(i) = 1..Len(corpus[i].endpoints) /\ Len(corpus[i].endpoints) \in Nat
    BY <1>2, <1>3 DEF Ids
  <2>2. IsFiniteSet(1..Len(corpus[i].endpoints))
    BY <2>1, FS_Interval
  <2> QED
    BY <2>1, <2>2
<1>4. ASSUME NEW i \in DOMAIN corpus, NEW k \in Ids(i)
      PROVE  /\ corpus[i].endpoints[k].score \in Nat
             /\ corpus[i].endpoints[k].safe \in BOOLEAN
             /\ corpus[i].endpoints[k].cited \in BOOLEAN
             /\ corpus[i].endpoints[k].context \in BOOLEAN
  <2>1. corpus[i].endpoints[k] \in E
    BY <1>2, <1>4 DEF Ids
  <2> QED
    BY <2>1 DEF E
<1>5. Len(corpus) \in Nat /\ DOMAIN corpus = 1..Len(corpus)
  BY <1>1
<1> HIDE DEF Se, E
<1> QED
  BY <1>2, <1>3, <1>4, <1>5

LEMMA LessIsOrder ==
  ASSUME NEW S, S \subseteq Nat
  PROVE  StrictOrder(LessIn(S), S)
<1>1. \A x, y \in S : <<x, y>> \in LessIn(S) <=> x < y
  BY DEF LessIn
<1> QED
  BY <1>1 DEF StrictOrder

LEMMA BetterIsOrder ==
  ASSUME corpus \in Corpora, NEW S, S \subseteq Places
  PROVE  StrictOrder(BetterIn(S), S)
<1>1. \A x, y \in S : <<x, y>> \in BetterIn(S) <=> Better(x, y)
  BY DEF BetterIn
<1>2. \A x \in S : /\ x = <<x[1], x[2]>> /\ x[1] \in Nat /\ x[2] \in Nat
                   /\ Score(x) \in Nat
  BY CorpusTyped DEF Places, Score
<1>3. ASSUME NEW x \in S PROVE ~Better(x, x)
  BY <1>2 DEF Better
<1>4. ASSUME NEW x \in S, NEW y \in S, NEW z \in S, Better(x, y), Better(y, z)
      PROVE  Better(x, z)
  <2>1. /\ Score(x) \in Nat /\ Score(y) \in Nat /\ Score(z) \in Nat
        /\ x[1] \in Nat /\ y[1] \in Nat /\ z[1] \in Nat
        /\ x[2] \in Nat /\ y[2] \in Nat /\ z[2] \in Nat
    BY <1>2
  <2> QED
    BY <1>4, <2>1 DEF Better
<1>5. ASSUME NEW x \in S, NEW y \in S, ~Better(x, y), ~Better(y, x)
      PROVE  x = y
  <2>1. /\ Score(x) \in Nat /\ Score(y) \in Nat
        /\ x[1] \in Nat /\ y[1] \in Nat /\ x[2] \in Nat /\ y[2] \in Nat
        /\ x = <<x[1], x[2]>> /\ y = <<y[1], y[2]>>
    BY <1>2
  <2>2. x[1] = y[1] /\ x[2] = y[2]
    BY <1>5, <2>1 DEF Better
  <2> QED
    BY <2>1, <2>2
<1> QED
  BY <1>1, <1>3, <1>4, <1>5 DEF StrictOrder

LEMMA TopIsFirst ==
  ASSUME NEW S, NEW n
  PROVE  /\ Top(S, n) = First(BetterIn(S), S, n)
         /\ \A c \in S : Below(BetterIn(S), S, c) = Ahead(S, c)
<1>1. \A c \in S : Below(BetterIn(S), S, c) = Ahead(S, c)
  BY DEF Below, BetterIn, Ahead
<1> QED
  BY <1>1 DEF Top, First, Rank

LEMMA InOrderFacts ==
  ASSUME NEW S, S \subseteq Nat, IsFiniteSet(S)
  PROVE  /\ InOrder(S) \in Seq(S)
         /\ \A i \in S : \E p \in DOMAIN InOrder(S) : InOrder(S)[p] = i
         /\ \A n \in Nat : Cardinality(S) <= n => FirstOf(S, n) = S
<1>1. StrictOrder(LessIn(S), S) /\ Cardinality(S) \in Nat
  BY LessIsOrder, FS_CardinalityType
<1>2. \A i \in S : Below(LessIn(S), S, i) = Before(S, i)
  BY DEF Below, LessIn, Before
<1>3. ASSUME NEW p \in 1..Cardinality(S)
      PROVE  Nth(S, p) \in S /\ Rank(LessIn(S), S, Nth(S, p)) = p - 1
  <2>1. p - 1 \in Nat /\ p - 1 < Cardinality(S)
    BY <1>1
  <2>2. \E i \in S : Rank(LessIn(S), S, i) = p - 1
    <3> DEFINE q == p - 1
    <3>1. q \in Nat /\ q < Cardinality(S)
      BY <2>1
    <3> HIDE DEF q
    <3>2. \E i \in S : Rank(LessIn(S), S, i) = q
      BY ONLY IsFiniteSet(S), <1>1, <3>1, RankOnto
    <3> QED
      BY <3>2 DEF q
  <2>3. \E i \in S : Cardinality(Before(S, i)) = p - 1
    BY <1>2, <2>2 DEF Rank
  <2>4. Nth(S, p) \in S /\ Cardinality(Before(S, Nth(S, p))) = p - 1
    BY <2>3 DEF Nth
  <2> QED
    BY <1>2, <2>4 DEF Rank
<1>4. /\ DOMAIN InOrder(S) = 1..Cardinality(S)
      /\ \A p \in 1..Cardinality(S) : InOrder(S)[p] = Nth(S, p)
  BY DEF InOrder
<1>5. InOrder(S) \in Seq(S)
  BY <1>1, <1>3 DEF InOrder
<1>6. ASSUME NEW i \in S
      PROVE  \E p \in DOMAIN InOrder(S) : InOrder(S)[p] = i
  <2>1. Rank(LessIn(S), S, i) \in Nat /\ Rank(LessIn(S), S, i) < Cardinality(S)
    BY <1>1, RankBound
  <2> DEFINE p == Rank(LessIn(S), S, i) + 1
  <2>2. p \in 1..Cardinality(S) /\ p - 1 = Rank(LessIn(S), S, i)
    BY <1>1, <2>1
  <2> HIDE DEF p
  <2>3. Nth(S, p) = i
    BY <1>1, <1>3, <2>2, RankDiffers
  <2> QED
    BY <1>4, <2>2, <2>3
<1>7. ASSUME NEW n \in Nat, Cardinality(S) <= n
      PROVE  FirstOf(S, n) = S
  <2>1. \A i \in S : Cardinality(Before(S, i)) \in Nat /\ Cardinality(Before(S, i)) < Cardinality(S)
    BY <1>1, <1>2, RankBound DEF Rank
  <2>2. \A i \in S : Cardinality(Before(S, i)) < n
    BY <1>1, <1>7, <2>1
  <2> QED
    BY <2>2 DEF FirstOf
<1> QED
  BY <1>5, <1>6, <1>7

LEMMA BetterTotal ==
  ASSUME corpus \in Corpora, NEW x \in Places, NEW y \in Places
  PROVE  /\ x = y \/ Better(x, y) \/ Better(y, x)
         /\ \A z \in Places : Better(x, y) /\ Better(y, z) => Better(x, z)
<1>1. StrictOrder(BetterIn(Places), Places)
  BY BetterIsOrder
<1>2. \A a, b \in Places : <<a, b>> \in BetterIn(Places) <=> Better(a, b)
  BY DEF BetterIn
<1> QED
  BY <1>1, <1>2 DEF StrictOrder

(* What the best n of a set of places are.                                 *)
LEMMA TopFacts ==
  ASSUME corpus \in Corpora, NEW S, S \subseteq Places, IsFiniteSet(S), NEW n \in Nat
  PROVE  /\ Top(S, n) \subseteq S /\ IsFiniteSet(Top(S, n)) /\ Cardinality(Top(S, n)) <= n
         /\ n <= Cardinality(S) => Cardinality(Top(S, n)) = n
         /\ Cardinality(S) <= n => Top(S, n) = S
         /\ n > 0 /\ S # {} => Top(S, n) # {}
         /\ \A c \in S : /\ IsFiniteSet(Ahead(S, c)) /\ Cardinality(Ahead(S, c)) \in Nat
                         /\ Cardinality(Ahead(S, c)) < Cardinality(S)
         /\ \A c, d \in S : Better(c, d) => Cardinality(Ahead(S, c)) < Cardinality(Ahead(S, d))
<1>1. StrictOrder(BetterIn(S), S)
  BY BetterIsOrder
<1>2. Top(S, n) = First(BetterIn(S), S, n) /\ \A c \in S : Below(BetterIn(S), S, c) = Ahead(S, c)
  BY TopIsFirst
<1>3. /\ Top(S, n) \subseteq S /\ IsFiniteSet(Top(S, n)) /\ Cardinality(Top(S, n)) <= n
      /\ n <= Cardinality(S) => Cardinality(Top(S, n)) = n
      /\ Cardinality(S) <= n => Top(S, n) = S
  BY <1>1, <1>2, FirstSize DEF Top
<1>4. \A c \in S : /\ IsFiniteSet(Ahead(S, c)) /\ Cardinality(Ahead(S, c)) \in Nat
                   /\ Cardinality(Ahead(S, c)) < Cardinality(S)
  BY <1>1, <1>2, RankBound DEF Rank
<1>5. \A c, d \in S : Better(c, d) => Cardinality(Ahead(S, c)) < Cardinality(Ahead(S, d))
  <2>1. \A c, d \in S : Better(c, d) => <<c, d>> \in BetterIn(S)
    BY DEF BetterIn
  <2> QED
    BY <1>1, <1>2, <2>1, RankGrows DEF Rank
<1>6. ASSUME n > 0, S # {} PROVE Top(S, n) # {}
  <2>1. Cardinality(S) \in Nat /\ Cardinality(S) # 0
    BY <1>6, FS_EmptySet, FS_CardinalityType
  <2>2. PICK x \in S : Rank(BetterIn(S), S, x) = 0
    BY <1>1, <2>1, RankOnto
  <2>3. Cardinality(Ahead(S, x)) < n
    BY <1>2, <1>6, <2>2 DEF Rank
  <2> QED
    BY <2>3 DEF Top
<1> QED
  BY <1>3, <1>4, <1>5, <1>6

ToSearch == {i \in Visible : corpus[i].state = "resolved"}

LEMMA MatchesFacts ==
  ASSUME corpus \in Corpora
  PROVE  /\ \A i \in DOMAIN corpus : IsFiniteSet(Matches(i)) /\ Matches(i) \subseteq Places
         /\ AllMatches = UNION {Matches(i) : i \in ToSearch}
         /\ \A i \in ToSearch : Matches(i) \subseteq AllMatches
         /\ ToSearch \subseteq Visible /\ Visible \subseteq DOMAIN corpus
         /\ AllMatches \subseteq Places /\ IsFiniteSet(AllMatches)
<1>1. ASSUME NEW i \in DOMAIN corpus
      PROVE  IsFiniteSet(Matches(i)) /\ Matches(i) \subseteq Places
  <2> DEFINE K == {j \in Ids(i) : Candidate(corpus[i].endpoints[j])}
             f == [k \in K |-> <<i, k>>]
  <2>1. IsFiniteSet(K)
    <3>1. IsFiniteSet(Ids(i)) /\ K \subseteq Ids(i)
      BY CorpusTyped
    <3> QED
      BY <3>1, FS_Subset
  <2>2. f \in Surjection(K, Matches(i))
    BY DEF Matches, Surjection
  <2>3. Matches(i) \subseteq Places
    BY DEF Matches, Places
  <2> HIDE DEF f, K
  <2>4. IsFiniteSet(Matches(i))
    BY <2>1, <2>2, FS_Surjection
  <2> QED
    BY <2>3, <2>4
<1>2. ToSearch \subseteq Visible /\ Visible \subseteq DOMAIN corpus
  BY DEF ToSearch, Visible
<1>3. AllMatches = UNION {Matches(i) : i \in ToSearch}
  BY DEF AllMatches, ToSearch
<1>4. IsFiniteSet(AllMatches)
  <2> DEFINE f == [i \in ToSearch |-> Matches(i)]
             M == {Matches(i) : i \in ToSearch}
  <2>1. f \in Surjection(ToSearch, M)
    BY DEF Surjection
  <2>2. IsFiniteSet(ToSearch)
    <3>1. DOMAIN corpus = 1..Len(corpus) /\ Len(corpus) \in Nat
      BY CorpusTyped
    <3>2. IsFiniteSet(1..Len(corpus)) /\ ToSearch \subseteq 1..Len(corpus)
      BY <1>2, <3>1, FS_Interval
    <3> QED
      BY <3>2, FS_Subset
  <2>3. \A T \in M : IsFiniteSet(T)
    BY <1>1, <1>2
  <2> HIDE DEF f, M
  <2>4. IsFiniteSet(UNION M)
    BY <2>1, <2>2, <2>3, FS_Surjection, FS_UNION
  <2> QED
    BY <1>3, <2>4 DEF M
<1>5. AllMatches \subseteq Places
  BY <1>1, <1>2, <1>3
<1>6. \A i \in ToSearch : Matches(i) \subseteq AllMatches
  BY <1>3
<1> QED
  BY <1>1, <1>2, <1>3, <1>4, <1>5, <1>6

(* The best of what the services' own bests leave are the best of all.     *)
LEMMA BestOfBests ==
  ASSUME corpus \in Corpora, NEW F, F \subseteq AllMatches, NEW n \in Nat, n <= ServiceLimit,
         \A i \in ToSearch : Top(Matches(i), ServiceLimit) \subseteq F
  PROVE  Top(F, n) = Top(AllMatches, n)
<1> DEFINE A == AllMatches
           L == ServiceLimit
<1>1. /\ A \subseteq Places /\ IsFiniteSet(A) /\ F \subseteq Places /\ IsFiniteSet(F)
      /\ L \in Nat
  BY MatchesFacts, FS_Subset, SearchAssumption
<1>2. \A i \in ToSearch : /\ Matches(i) \subseteq Places /\ IsFiniteSet(Matches(i))
                          /\ Matches(i) \subseteq A
  BY MatchesFacts
<1>3. /\ \A c \in F : IsFiniteSet(Ahead(F, c)) /\ Cardinality(Ahead(F, c)) \in Nat
      /\ \A c \in A : IsFiniteSet(Ahead(A, c)) /\ Cardinality(Ahead(A, c)) \in Nat
  BY <1>1, TopFacts
<1>4. ASSUME NEW c \in F, Cardinality(Ahead(F, c)) < n, NEW d \in A, Better(d, c)
      PROVE  d \in F
  <2>1. SUFFICES ASSUME d \notin F PROVE FALSE
    OBVIOUS
  <2>2. PICK i \in ToSearch : d \in Matches(i)
    BY MatchesFacts
  <2> DEFINE M == Matches(i)
             T == Top(M, L)
  <2>3. M \subseteq Places /\ IsFiniteSet(M) /\ T \subseteq F /\ T \subseteq M
    BY <1>2 DEF Top
  <2>4. /\ \A e \in M : Cardinality(Ahead(M, e)) \in Nat
        /\ \A e, f \in M : Better(e, f) => Cardinality(Ahead(M, e)) < Cardinality(Ahead(M, f))
        /\ Cardinality(Ahead(M, d)) < Cardinality(M)
        /\ L <= Cardinality(M) => Cardinality(T) = L
    <3> HIDE DEF M
    <3> QED
      BY <1>1, <2>2, <2>3, TopFacts DEF M
  <2>5. ~(Cardinality(Ahead(M, d)) < L) /\ Cardinality(Ahead(M, d)) \in Nat
    BY <2>1, <2>2, <2>3, <2>4 DEF Top
  <2>6. Cardinality(T) = L
    <3>1. Cardinality(M) \in Nat
      BY <2>3, FS_CardinalityType
    <3> QED
      BY <1>1, <2>4, <2>5, <3>1
  <2>7. T \subseteq Ahead(F, c)
    <3> SUFFICES ASSUME NEW e \in T PROVE Better(e, c)
      BY <2>3 DEF Ahead
    <3>1. e \in M /\ Cardinality(Ahead(M, e)) < L /\ Cardinality(Ahead(M, e)) \in Nat
      BY <2>3, <2>4 DEF Top
    <3>2. e # d /\ ~Better(d, e)
      BY <1>1, <2>2, <2>4, <2>5, <3>1
    <3>3. e \in Places /\ d \in Places /\ c \in Places
      BY <1>1, <2>3, <3>1
    <3> QED
      BY <1>4, <3>2, <3>3, BetterTotal
  <2>8. L <= Cardinality(Ahead(F, c))
    BY <1>3, <2>6, <2>7, FS_Subset
  <2> QED
    BY <1>1, <1>3, <1>4, <2>8
<1>5. ASSUME NEW c \in F, Cardinality(Ahead(F, c)) < n
      PROVE  c \in A /\ Cardinality(Ahead(A, c)) < n
  <2>1. Ahead(A, c) = Ahead(F, c)
    BY <1>4, <1>5 DEF Ahead
  <2> QED
    BY <1>5, <2>1
<1>6. ASSUME NEW c \in A, Cardinality(Ahead(A, c)) < n
      PROVE  c \in F /\ Cardinality(Ahead(F, c)) < n
  <2>1. PICK i \in ToSearch : c \in Matches(i)
    BY MatchesFacts
  <2>2. Ahead(Matches(i), c) \subseteq Ahead(A, c) /\ Ahead(F, c) \subseteq Ahead(A, c)
    BY <1>2 DEF Ahead
  <2>3. /\ Cardinality(Ahead(Matches(i), c)) <= Cardinality(Ahead(A, c))
        /\ Cardinality(Ahead(F, c)) <= Cardinality(Ahead(A, c))
        /\ IsFiniteSet(Ahead(F, c)) /\ IsFiniteSet(Ahead(Matches(i), c))
    BY <1>3, <2>2, FS_Subset
  <2>4. /\ Cardinality(Ahead(Matches(i), c)) \in Nat /\ Cardinality(Ahead(F, c)) \in Nat
        /\ Cardinality(Ahead(A, c)) \in Nat
    BY <1>3, <2>3, FS_CardinalityType
  <2>5. Cardinality(Ahead(Matches(i), c)) < L
    BY <1>1, <1>6, <2>3, <2>4
  <2>6. c \in F
    BY <2>1, <2>5 DEF Top
  <2> QED
    BY <1>6, <2>3, <2>4, <2>6
<1> QED
  BY <1>5, <1>6 DEF Top

-----------------------------------------------------------------------------
(* The scan: everyone the caller may see has been searched, or is still to *)
(* be, unless the answer will say that something was cut.                  *)
Entitled == {i \in DOMAIN corpus : corpus[i].environment /\ corpus[i].granted}
Searched(i) ==
  \/ corpus[i].state \in {"denied", "hidden"}
  \/ corpus[i].state = "unresolved" /\ tally.incomplete
  \/ /\ corpus[i].state = "resolved"
     /\ Top(Matches(i), ServiceLimit) \subseteq found
     /\ tally.incomplete \/ (WhollyCovered(i) /\ Understood(i))
     /\ tally.truncated \/ Cardinality(Matches(i)) <= ServiceLimit
Queued(i) == \E p \in DOMAIN queue : queue[p] = i

Tallies == [scanLimit : BOOLEAN, incomplete : BOOLEAN, truncated : BOOLEAN,
            visible : Nat, size : Nat]
SearchTyped ==
  /\ corpus \in Corpora /\ request \in Requests
  /\ queue \in Seq(Authorized) \/ queue = Unread
  /\ tally \in Tallies

SearchInv ==
  /\ SearchTyped
  /\ found \subseteq AllMatches
  /\ tally.visible > 0 => Visible # {}
  /\ tally.truncated => \E i \in ToSearch : Cardinality(Matches(i)) > ServiceLimit
  /\ queue # Unread /\ ~tally.scanLimit => \A i \in Entitled : Searched(i) \/ Queued(i)
  /\ SearchIsHonest

LEMMA AuthorizedFacts ==
  ASSUME corpus \in Corpora
  PROVE  /\ Authorized \subseteq Entitled /\ Entitled \subseteq Nat \ {0}
         /\ IsFiniteSet(Authorized) /\ Cardinality(Authorized) \in Nat
         /\ Len(corpus) <= MaxInspected => Authorized = Entitled
         /\ Visible \subseteq Entitled
<1>1. DOMAIN corpus = 1..Len(corpus) /\ Len(corpus) \in Nat
  BY CorpusTyped
<1>2. Inspected \subseteq DOMAIN corpus
  BY <1>1, SearchAssumption DEF Inspected
<1>3. ASSUME Len(corpus) <= MaxInspected PROVE Inspected = DOMAIN corpus
  <2>1. ~(Len(corpus) > MaxInspected)
    BY <1>1, <1>3, SearchAssumption
  <2> QED
    BY <1>1, <2>1 DEF Inspected
<1>4. IsFiniteSet(1..Len(corpus))
  BY <1>1, FS_Interval
<1>5. Authorized \subseteq Entitled /\ Authorized \subseteq 1..Len(corpus)
  BY <1>1, <1>2 DEF Authorized, Entitled
<1>6. IsFiniteSet(Authorized) /\ Cardinality(Authorized) \in Nat
  BY <1>4, <1>5, FS_Subset, FS_CardinalityType
<1> QED
  BY <1>1, <1>3, <1>5, <1>6 DEF Authorized, Entitled, Visible

LEMMA ReadGrantsKeeps ==
  ASSUME SearchInv, readGrants
  PROVE  SearchInv'
<1>1. /\ queue = Unread /\ reply = NoReply /\ UNCHANGED <<corpus, request, found, reply>>
      /\ queue' = InOrder(FirstOf(Authorized, MaxServices))
      /\ tally' = [tally EXCEPT !.scanLimit =
                     Len(corpus) > MaxInspected \/ Cardinality(Authorized) > MaxServices]
  BY DEF readGrants
<1>2. corpus \in Corpora /\ SearchTyped
  BY DEF SearchInv, SearchTyped
<1>3. /\ tally' \in Tallies
      /\ tally'.visible = tally.visible /\ tally'.incomplete = tally.incomplete
      /\ tally'.truncated = tally.truncated
      /\ ~tally'.scanLimit => Len(corpus) <= MaxInspected /\ Cardinality(Authorized) <= MaxServices
  <2> DEFINE cut == Len(corpus) > MaxInspected \/ Cardinality(Authorized) > MaxServices
  <2>1. Cardinality(Authorized) \in Nat /\ Len(corpus) \in Nat
    BY <1>2, AuthorizedFacts, CorpusTyped
  <2>2. cut \in BOOLEAN /\ tally' = [tally EXCEPT !.scanLimit = cut]
    BY <1>1
  <2>3. ~cut => Len(corpus) <= MaxInspected /\ Cardinality(Authorized) <= MaxServices
    BY <2>1, SearchAssumption
  <2> HIDE DEF cut
  <2>4. tally \in Tallies
    BY <1>2 DEF SearchTyped
  <2>5. tally'.scanLimit = cut
    BY <2>2, <2>4 DEF Tallies
  <2> QED
    BY <2>2, <2>3, <2>4, <2>5 DEF Tallies
<1> DEFINE Q == FirstOf(Authorized, MaxServices)
<1>4. Q \subseteq Authorized /\ IsFiniteSet(Q) /\ Q \subseteq Nat
  BY <1>2, AuthorizedFacts, FS_Subset DEF FirstOf
<1>5. queue' \in Seq(Authorized) /\ \A i \in Q : \E p \in DOMAIN queue' : queue'[p] = i
  <2>1. queue' = InOrder(Q)
    BY <1>1
  <2> HIDE DEF Q
  <2>2. InOrder(Q) \in Seq(Q) /\ \A i \in Q : \E p \in DOMAIN InOrder(Q) : InOrder(Q)[p] = i
    BY <1>4, InOrderFacts
  <2>3. queue' \in Seq(Authorized)
    <3>1. /\ Len(queue') \in Nat /\ DOMAIN queue' = 1..Len(queue')
          /\ queue' = [p \in 1..Len(queue') |-> queue'[p]]
          /\ \A p \in 1..Len(queue') : queue'[p] \in Authorized
      BY <1>4, <2>1, <2>2 DEF Q
    <3> QED
      BY <3>1
  <2> QED
    BY <2>1, <2>2, <2>3
<1>6. ASSUME ~tally'.scanLimit PROVE Q = Entitled
  <2>1. Authorized = Entitled /\ Authorized \subseteq Nat /\ IsFiniteSet(Authorized)
    BY <1>2, <1>3, <1>6, AuthorizedFacts
  <2> QED
    BY <1>3, <1>6, <2>1, InOrderFacts, SearchAssumption
<1> HIDE DEF Q
<1>7. Authorized' = Authorized /\ Entitled' = Entitled /\ Visible' = Visible /\ ToSearch' = ToSearch
      /\ AllMatches' = AllMatches /\ \A i : Matches(i)' = Matches(i)
  BY <1>1 DEF Authorized, Entitled, Visible, ToSearch, Inspected, AllMatches, Matches, Ids
<1>8. SearchTyped'
  BY <1>1, <1>2, <1>3, <1>5, <1>7 DEF SearchTyped
<1>9. \A i \in Q : Queued(i)'
  BY <1>5 DEF Queued
<1> QED
  BY <1>1, <1>3, <1>6, <1>7, <1>8, <1>9 DEF SearchInv, SearchIsHonest, NoReply

LEMMA SameCorpus ==
  ASSUME UNCHANGED corpus
  PROVE  /\ Authorized' = Authorized /\ Entitled' = Entitled /\ Visible' = Visible
         /\ ToSearch' = ToSearch /\ AllMatches' = AllMatches
         /\ \A i : Matches(i)' = Matches(i) /\ Ids(i)' = Ids(i)
         /\ \A i : WhollyCovered(i)' = WhollyCovered(i) /\ Understood(i)' = Understood(i)
         /\ \A S, n : Top(S, n)' = Top(S, n)
         /\ Exhaustive' = Exhaustive
BY DEF Authorized, Entitled, Visible, ToSearch, Inspected, AllMatches, Matches, Ids, WhollyCovered,
       Understood, Top, Ahead, Better, Score, Exhaustive

(* The service at the head of the queue, and the queue without it.         *)
LEMMA HeadFacts ==
  ASSUME SearchTyped, Searching
  PROVE  /\ queue \in Seq(Authorized) /\ Upcoming \in Entitled /\ Tail(queue) \in Seq(Authorized)
         /\ corpus[Upcoming].state \in {"denied", "hidden", "unresolved", "resolved"}
         /\ queue' = Tail(queue) => \A i : Queued(i) => i = Upcoming \/ Queued(i)'
<1>1. queue \in Seq(Authorized) /\ queue # <<>> /\ corpus \in Corpora
  BY DEF SearchTyped, Searching
<1>2. Upcoming \in Authorized /\ Tail(queue) \in Seq(Authorized)
  BY <1>1 DEF Upcoming
<1>3. Upcoming \in Entitled
  BY <1>1, <1>2, AuthorizedFacts
<1>4. ASSUME queue' = Tail(queue), NEW i, Queued(i), i # Upcoming
      PROVE  Queued(i)'
  <2>1. PICK p \in DOMAIN queue : queue[p] = i
    BY <1>4 DEF Queued
  <2>2. p \in 1..Len(queue) /\ Len(queue) \in Nat /\ p # 1
    BY <1>1, <1>4, <2>1 DEF Upcoming
  <2> DEFINE q == p - 1
  <2>3. q \in 1..(Len(queue) - 1) /\ q + 1 = p
    BY <2>2
  <2> HIDE DEF q
  <2>4. q \in DOMAIN queue' /\ queue'[q] = i
    BY <1>1, <1>4, <2>1, <2>2, <2>3
  <2> QED
    BY <2>4 DEF Queued
<1> QED
  BY <1>1, <1>2, <1>3, <1>4, CorpusTyped DEF Entitled

(* What the searching of a service makes of the tally.                     *)
LEMMA TallyTyped ==
  ASSUME NEW x \in Tallies
  PROVE  /\ x.scanLimit \in BOOLEAN /\ x.incomplete \in BOOLEAN /\ x.truncated \in BOOLEAN
         /\ x.visible + 1 \in Nat /\ x.size \in Nat
         /\ x = [scanLimit |-> x.scanLimit, incomplete |-> x.incomplete,
                 truncated |-> x.truncated, visible |-> x.visible, size |-> x.size]
BY DEF Tallies

LEMMA TallyMeets ==
  ASSUME NEW x \in Tallies, NEW y, y = [x EXCEPT !.visible = x.visible + 1, !.incomplete = TRUE]
  PROVE  /\ y \in Tallies
         /\ y.incomplete = TRUE /\ y.truncated = x.truncated /\ y.scanLimit = x.scanLimit
<1>1. y = [scanLimit |-> x.scanLimit, incomplete |-> TRUE, truncated |-> x.truncated,
          visible |-> x.visible + 1, size |-> x.size]
  BY Zenon DEF Tallies
<1>2. y \in Tallies
  BY <1>1, TallyTyped DEF Tallies
<1> QED
  BY <1>1, <1>2, Zenon

LEMMA TallyExceeds ==
  ASSUME NEW x \in Tallies, NEW z \in Nat,
         NEW y, y = [x EXCEPT !.visible = x.visible + 1, !.size = z, !.scanLimit = TRUE]
  PROVE  y \in Tallies /\ y.truncated = x.truncated /\ y.scanLimit = TRUE
<1>1. y = [scanLimit |-> TRUE, incomplete |-> x.incomplete, truncated |-> x.truncated,
          visible |-> x.visible + 1, size |-> z]
  BY Zenon DEF Tallies
<1>2. y \in Tallies
  BY <1>1, TallyTyped DEF Tallies
<1> QED
  BY <1>1, <1>2, Zenon

Tallied(x, z, b, c) ==
  [x EXCEPT !.visible = x.visible + 1, !.size = z, !.incomplete = b, !.truncated = c]
LEMMA TallySearches ==
  ASSUME NEW x \in Tallies, NEW z \in Nat, NEW b \in BOOLEAN, NEW c \in BOOLEAN
  PROVE  /\ Tallied(x, z, b, c) \in Tallies
         /\ Tallied(x, z, b, c).incomplete = b /\ Tallied(x, z, b, c).truncated = c
         /\ Tallied(x, z, b, c).scanLimit = x.scanLimit
<1>1. PICK y : y = Tallied(x, z, b, c)
  OBVIOUS
<1>2. y = [x EXCEPT !.visible = x.visible + 1, !.size = z, !.incomplete = b, !.truncated = c]
  BY <1>1 DEF Tallied
<1>3. y = [scanLimit |-> x.scanLimit, incomplete |-> b, truncated |-> c,
           visible |-> x.visible + 1, size |-> z]
  BY <1>2, Zenon DEF Tallies
<1>4. y \in Tallies
  BY <1>3 DEF Tallies
<1>5. y.incomplete = b /\ y.truncated = c /\ y.scanLimit = x.scanLimit
  BY <1>3, Zenon
<1> QED
  BY <1>1, <1>4, <1>5, Zenon

LEMMA SizeTyped ==
  ASSUME SearchTyped, Searching  PROVE Size(Upcoming) \in Nat
<1>1. Upcoming \in DOMAIN corpus /\ tally.size \in Nat /\ corpus \in Corpora
  BY HeadFacts DEF Entitled, SearchTyped, Tallies
<1> QED
  BY <1>1, CorpusTyped DEF Size

LEMMA SkipDeniedKeeps ==
  ASSUME SearchInv, skipDenied
  PROVE  SearchInv'
<1>1. /\ Searching /\ corpus[Upcoming].state \in {"denied", "hidden"}
      /\ queue' = Tail(queue) /\ UNCHANGED <<corpus, request, found, tally, reply>>
  BY DEF skipDenied
<1>2. SearchTyped /\ reply.status = "none" /\ queue # Unread
  BY <1>1 DEF SearchInv, Searching, NoReply
<1>3. SearchTyped'
  BY <1>1, <1>2, HeadFacts, SameCorpus DEF SearchTyped
<1>4. ~tally.scanLimit => \A i \in Entitled : Searched(i) \/ Queued(i)
  BY <1>2 DEF SearchInv
<1>5. \A i : Searched(i) => Searched(i)'
  BY <1>1, SameCorpus DEF Searched
<1>6. Searched(Upcoming)
  BY <1>1 DEF Searched
<1>7. \A i : Queued(i) => Searched(i)' \/ Queued(i)'
  BY <1>1, <1>2, <1>5, <1>6, HeadFacts
<1> QED
  BY <1>1, <1>2, <1>3, <1>4, <1>5, <1>7, SameCorpus DEF SearchInv, SearchIsHonest

LEMMA MeetUnresolvedKeeps ==
  ASSUME SearchInv, meetUnresolved
  PROVE  SearchInv'
<1>1. /\ Searching /\ corpus[Upcoming].state = "unresolved"
      /\ queue' = Tail(queue) /\ UNCHANGED <<corpus, request, found, reply>>
      /\ tally' = [tally EXCEPT !.visible = @ + 1, !.incomplete = TRUE]
  BY DEF meetUnresolved
<1>2. SearchTyped /\ reply.status = "none" /\ queue # Unread
  BY <1>1 DEF SearchInv, Searching, NoReply
<1>3. /\ tally' \in Tallies
      /\ tally'.incomplete /\ tally'.truncated = tally.truncated
      /\ tally'.scanLimit = tally.scanLimit
  <2>1. tally \in Tallies /\ tally' = [tally EXCEPT !.visible = tally.visible + 1, !.incomplete = TRUE]
    BY <1>1, <1>2 DEF SearchTyped
  <2> QED
    BY ONLY <2>1, TallyMeets
<1>4. SearchTyped'
  BY <1>1, <1>2, <1>3, HeadFacts, SameCorpus DEF SearchTyped
<1>5. ~tally.scanLimit => \A i \in Entitled : Searched(i) \/ Queued(i)
  BY <1>2 DEF SearchInv
<1>6. \A i : Searched(i) => Searched(i)'
  BY <1>1, <1>3, SameCorpus DEF Searched
<1>7. \A i : corpus[i].state = "unresolved" => Searched(i)'
  BY <1>1, <1>3 DEF Searched
<1>8. \A i : Queued(i) => Searched(i)' \/ Queued(i)'
  BY <1>1, <1>2, <1>7, HeadFacts
<1>9. Visible # {}
  BY <1>1, <1>2, HeadFacts DEF Entitled, Visible
<1> QED
  BY <1>1, <1>2, <1>3, <1>4, <1>5, <1>6, <1>8, <1>9, SameCorpus DEF SearchInv, SearchIsHonest

LEMMA ExceedBudgetKeeps ==
  ASSUME SearchInv, exceedBudget
  PROVE  SearchInv'
<1>1. /\ Searching /\ corpus[Upcoming].state = "resolved"
      /\ queue' = <<>> /\ UNCHANGED <<corpus, request, found, reply>>
      /\ tally' = [tally EXCEPT !.visible = @ + 1, !.size = Size(Upcoming), !.scanLimit = TRUE]
  BY DEF exceedBudget
<1>2. SearchTyped /\ reply.status = "none" /\ queue # Unread
  BY <1>1 DEF SearchInv, Searching, NoReply
<1>3. /\ tally' \in Tallies
      /\ tally'.truncated = tally.truncated /\ tally'.scanLimit
  <2> DEFINE s == Size(Upcoming)
  <2>1. s \in Nat
    BY <1>1, <1>2, SizeTyped
  <2>2. tally' = [tally EXCEPT !.visible = tally.visible + 1, !.size = s, !.scanLimit = TRUE]
    BY <1>1
  <2> HIDE DEF s
  <2>3. tally \in Tallies
    BY <1>2 DEF SearchTyped
  <2> QED
    BY ONLY <2>1, <2>2, <2>3, TallyExceeds
<1>4. SearchTyped'
  BY <1>1, <1>2, <1>3, SameCorpus DEF SearchTyped
<1>5. Visible # {}
  BY <1>1, <1>2, HeadFacts DEF Entitled, Visible
<1> QED
  BY <1>1, <1>2, <1>3, <1>4, <1>5, SameCorpus DEF SearchInv, SearchIsHonest

LEMMA SearchServiceKeeps ==
  ASSUME SearchInv, searchService
  PROVE  SearchInv'
<1> DEFINE incomplete == tally.incomplete \/ ~WhollyCovered(Upcoming) \/ ~Understood(Upcoming)
           truncated == tally.truncated \/ Cardinality(Matches(Upcoming)) > ServiceLimit
           s == Size(Upcoming)
<1>1. /\ Searching /\ corpus[Upcoming].state = "resolved"
      /\ queue' = Tail(queue) /\ UNCHANGED <<corpus, request, reply>>
      /\ found' = found \cup Top(Matches(Upcoming), ServiceLimit)
      /\ tally' = [tally EXCEPT !.visible = @ + 1, !.size = s, !.incomplete = incomplete,
                                !.truncated = truncated]
  BY DEF searchService
<1>2. SearchTyped /\ reply.status = "none" /\ queue # Unread
  BY <1>1 DEF SearchInv, Searching, NoReply
<1>3. s \in Nat /\ incomplete \in BOOLEAN /\ truncated \in BOOLEAN
  BY <1>1, <1>2, SizeTyped
<1>4. /\ Upcoming \in Entitled /\ Upcoming \in ToSearch /\ Visible # {}
      /\ corpus \in Corpora
  BY <1>1, <1>2, HeadFacts DEF Entitled, Visible, ToSearch, SearchTyped
<1>5. PICK u, b, t : u = Upcoming /\ b = incomplete /\ t = truncated
  OBVIOUS
<1>6. /\ b <=> tally.incomplete \/ ~WhollyCovered(u) \/ ~Understood(u)
      /\ t <=> tally.truncated \/ Cardinality(Matches(u)) > ServiceLimit
      /\ b \in BOOLEAN /\ t \in BOOLEAN
      /\ tally' = [tally EXCEPT !.visible = @ + 1, !.size = s, !.incomplete = b, !.truncated = t]
  BY <1>1, <1>3, <1>5
<1> HIDE DEF incomplete, truncated, s
<1>7. /\ tally' \in Tallies
      /\ tally'.incomplete = b /\ tally'.truncated = t /\ tally'.scanLimit = tally.scanLimit
  <2>1. /\ tally \in Tallies
        /\ tally' = [tally EXCEPT !.visible = tally.visible + 1, !.size = s, !.incomplete = b,
                                  !.truncated = t]
    BY <1>2, <1>6 DEF SearchTyped
  <2>2. s \in Nat /\ b \in BOOLEAN /\ t \in BOOLEAN
    BY <1>3, <1>6
  <2>3. tally' = Tallied(tally, s, b, t)
    BY <2>1 DEF Tallied
  <2> QED
    BY ONLY <2>1, <2>2, <2>3, TallySearches
<1>8. SearchTyped'
  BY <1>1, <1>2, <1>7, HeadFacts, SameCorpus DEF SearchTyped
<1>9. /\ Top(Matches(u), ServiceLimit) \subseteq AllMatches
      /\ Cardinality(Matches(u)) \in Nat
  <2>1. u \in DOMAIN corpus /\ IsFiniteSet(Matches(u)) /\ Matches(u) \subseteq AllMatches
    BY <1>4, <1>5, MatchesFacts DEF Entitled
  <2> QED
    BY <2>1, FS_CardinalityType DEF Top
<1>10. ~tally.scanLimit => \A i \in Entitled : Searched(i) \/ Queued(i)
  BY <1>2 DEF SearchInv
<1>11. ASSUME NEW i, Searched(i) PROVE Searched(i)'
  <2>1. /\ found \subseteq found' /\ tally.incomplete => tally'.incomplete
        /\ tally.truncated => tally'.truncated
    BY <1>1, <1>6, <1>7
  <2> QED
    BY <1>1, <1>11, <2>1, SameCorpus DEF Searched
<1>12. Searched(u)'
  <2>1. Top(Matches(u), ServiceLimit) \subseteq found' /\ corpus'[u].state = "resolved"
    BY <1>1, <1>5
  <2>2. tally'.incomplete \/ (WhollyCovered(u) /\ Understood(u))
    BY <1>6, <1>7
  <2>3. tally'.truncated \/ Cardinality(Matches(u)) <= ServiceLimit
    BY <1>6, <1>7, <1>9, SearchAssumption
  <2> QED
    BY <1>1, <2>1, <2>2, <2>3, SameCorpus DEF Searched
<1>13. \A i : Queued(i) => Searched(i)' \/ Queued(i)'
  BY <1>1, <1>2, <1>5, <1>12, HeadFacts
<1>14. found' \subseteq AllMatches
  BY <1>1, <1>5, <1>9 DEF SearchInv
<1>15. tally'.truncated => \E i \in ToSearch : Cardinality(Matches(i)) > ServiceLimit
  BY <1>4, <1>5, <1>6, <1>7 DEF SearchInv
<1> QED
  BY <1>1, <1>2, <1>4, <1>7, <1>8, <1>10, <1>11, <1>13, <1>14, <1>15, SameCorpus
     DEF SearchInv, SearchIsHonest


LEMMA NoticeDeadlineKeeps ==
  ASSUME SearchInv, noticeDeadline
  PROVE  SearchInv'
<1>1. /\ Searching /\ queue' = <<>> /\ UNCHANGED <<corpus, request, found, reply>>
      /\ tally' = [tally EXCEPT !.scanLimit = TRUE]
  BY DEF noticeDeadline
<1>2. SearchTyped /\ reply.status = "none" /\ queue # Unread
  BY <1>1 DEF SearchInv, Searching, NoReply
<1>3. /\ tally' \in Tallies /\ tally'.scanLimit
      /\ tally'.truncated = tally.truncated /\ tally'.visible = tally.visible
  BY <1>1, <1>2 DEF SearchTyped, Tallies
<1>4. SearchTyped'
  BY <1>1, <1>2, <1>3, SameCorpus DEF SearchTyped
<1> QED
  BY <1>1, <1>2, <1>3, <1>4, SameCorpus DEF SearchInv, SearchIsHonest

LEMMA ExceedDeadlineKeeps ==
  ASSUME SearchInv, exceedDeadline
  PROVE  SearchInv'
<1>1. /\ reply'.status = "unknown" /\ UNCHANGED <<corpus, request, queue, found, tally>>
  BY DEF exceedDeadline, Unknown
<1>2. SearchTyped /\ SearchTyped'
  BY <1>1, SameCorpus DEF SearchInv, SearchTyped
<1>3. \A i : (Searched(i) => Searched(i)') /\ (Queued(i) => Queued(i)')
  BY <1>1, SameCorpus DEF Searched, Queued
<1> QED
  BY <1>1, <1>2, <1>3, SameCorpus DEF SearchInv, SearchIsHonest

(* A scan that nothing cut has read everything the caller may see.         *)
LEMMA ScanIsExhaustive ==
  ASSUME SearchInv, queue = <<>>, NothingCut
  PROVE  /\ Exhaustive
         /\ \A i \in Visible :
              /\ i \in ToSearch /\ Top(Matches(i), ServiceLimit) \subseteq found
              /\ tally.truncated \/ Cardinality(Matches(i)) <= ServiceLimit
<1>1. SearchTyped /\ corpus \in Corpora /\ ~tally.scanLimit /\ ~tally.incomplete
  BY DEF SearchInv, SearchTyped, NothingCut
<1>2. queue # Unread /\ \A i : ~Queued(i)
  BY DEF Unread, Queued
<1>3. \A i \in Entitled : Searched(i)
  BY <1>1, <1>2 DEF SearchInv
<1>4. ASSUME NEW i \in Visible
      PROVE  /\ corpus[i].state = "resolved" /\ Top(Matches(i), ServiceLimit) \subseteq found
             /\ WhollyCovered(i) /\ Understood(i)
             /\ tally.truncated \/ Cardinality(Matches(i)) <= ServiceLimit
  BY <1>1, <1>3, <1>4, AuthorizedFacts DEF Searched, Visible
<1>5. \A i : Understood(i) => Ids(i) # {}
  BY DEF Understood
<1> QED
  BY <1>4, <1>5 DEF Exhaustive, ToSearch

LEMMA LimitsPositive ==
  ASSUME SearchTyped
  PROVE  request \in Nat /\ request > 0 /\ ServiceLimit \in Nat /\ request <= ServiceLimit
<1>1. request \in 1..ServiceLimit
  BY SearchAssumption DEF SearchTyped
<1> QED
  BY <1>1, SearchAssumption

LEMMA NoMatchHonest ==
  ASSUME SearchInv, queue = <<>>, NothingCut, found = {}, tally.visible > 0
  PROVE  /\ Visible # {} /\ Exhaustive
         /\ \A i \in Visible : \A k \in Ids(i) : corpus[i].endpoints[k].score = 0
<1>1. Visible # {} /\ Exhaustive /\ SearchTyped /\ corpus \in Corpora
  BY ScanIsExhaustive DEF SearchInv, SearchTyped
<1>2. ASSUME NEW i \in Visible, NEW k \in Ids(i)
      PROVE  corpus[i].endpoints[k].score = 0
  <2>1. /\ i \in DOMAIN corpus /\ Matches(i) \subseteq Places /\ IsFiniteSet(Matches(i))
    BY <1>1, <1>2, MatchesFacts
  <2>2. Top(Matches(i), ServiceLimit) = {}
    BY <1>2, ScanIsExhaustive
  <2>3. Matches(i) = {}
    BY <1>1, <2>1, <2>2, LimitsPositive, TopFacts
  <2>4. ~Candidate(corpus[i].endpoints[k])
    BY <1>2, <2>3 DEF Matches
  <2>5. Covered(corpus[i].endpoints[k])
    BY <1>1, <1>2 DEF Exhaustive, WhollyCovered
  <2>6. corpus[i].endpoints[k].score \in Nat
    BY <1>1, <1>2, <2>1, CorpusTyped
  <2> QED
    BY <2>4, <2>5, <2>6 DEF Candidate, Covered
<1> QED
  BY <1>1, <1>2

LEMMA CandidatesHonest ==
  ASSUME SearchInv, queue = <<>>, found # {}
  PROVE  /\ Top(found, request) # {} /\ Top(found, request) \subseteq AllMatches
         /\ Cardinality(Top(found, request)) <= request
         /\ NothingCut =>
              /\ Exhaustive /\ Top(found, request) = Top(AllMatches, request)
              /\ (tally.truncated \/ Cardinality(found) > request)
                   <=> Cardinality(AllMatches) > request
<1>1. /\ SearchTyped /\ corpus \in Corpora /\ found \subseteq AllMatches
      /\ AllMatches \subseteq Places /\ IsFiniteSet(AllMatches)
  BY MatchesFacts DEF SearchInv, SearchTyped
<1>2. /\ IsFiniteSet(found) /\ found \subseteq Places /\ Cardinality(AllMatches) \in Nat
      /\ request \in Nat /\ request > 0 /\ ServiceLimit \in Nat /\ request <= ServiceLimit
  BY <1>1, LimitsPositive, FS_Subset, FS_CardinalityType
<1>3. /\ Top(found, request) # {} /\ Top(found, request) \subseteq AllMatches
      /\ Cardinality(Top(found, request)) <= request
  BY <1>1, <1>2, TopFacts
<1>4. ASSUME NothingCut
      PROVE  /\ Exhaustive /\ Top(found, request) = Top(AllMatches, request)
             /\ (tally.truncated \/ Cardinality(found) > request)
                  <=> Cardinality(AllMatches) > request
  <2>1. /\ Exhaustive
        /\ \A i \in ToSearch :
             /\ Top(Matches(i), ServiceLimit) \subseteq found
             /\ tally.truncated \/ Cardinality(Matches(i)) <= ServiceLimit
    BY <1>1, <1>4, ScanIsExhaustive, MatchesFacts
  <2>2. Top(found, request) = Top(AllMatches, request)
    BY <1>1, <1>2, <2>1, BestOfBests
  <2>3. ASSUME tally.truncated PROVE Cardinality(AllMatches) > request
    <3>1. PICK i \in ToSearch : Cardinality(Matches(i)) > ServiceLimit
      BY <2>3 DEF SearchInv
    <3>2. Matches(i) \subseteq AllMatches /\ IsFiniteSet(Matches(i))
      BY <1>1, <3>1, MatchesFacts
    <3>3. /\ Cardinality(Matches(i)) <= Cardinality(AllMatches)
          /\ Cardinality(Matches(i)) \in Nat
      BY <1>1, <3>2, FS_Subset, FS_CardinalityType
    <3> QED
      BY <1>2, <3>1, <3>3
  <2>4. ASSUME ~tally.truncated PROVE found = AllMatches
    <3>1. ASSUME NEW i \in ToSearch PROVE Matches(i) \subseteq found
      <4>1. Matches(i) \subseteq Places /\ IsFiniteSet(Matches(i))
        BY <1>1, <3>1, MatchesFacts
      <4>2. Top(Matches(i), ServiceLimit) = Matches(i)
        BY <1>1, <1>2, <2>1, <2>4, <4>1, TopFacts
      <4> QED
        BY <2>1, <4>2
    <3> QED
      BY <1>1, <3>1, MatchesFacts
  <2> QED
    BY <2>1, <2>2, <2>3, <2>4
<1> QED
  BY <1>3, <1>4

LEMMA AnswerKeeps ==
  ASSUME SearchInv, answer
  PROVE  SearchInv'
<1>1. /\ queue = <<>> /\ reply' = Answer /\ UNCHANGED <<corpus, request, queue, found, tally>>
  BY DEF answer
<1>2. SearchTyped /\ SearchTyped'
  BY <1>1, SameCorpus DEF SearchInv, SearchTyped
<1>3. \A i : (Searched(i) => Searched(i)') /\ (Queued(i) => Queued(i)')
  BY <1>1, SameCorpus DEF Searched, Queued
<1>4. SearchIsHonest'
  <2>1. CASE found # {}
    <3> DEFINE more == tally.truncated \/ Cardinality(found) > request
               rest == Cardinality(AllMatches) > request
    <3>1. reply' = [status |-> "candidates", candidates |-> Top(found, request),
                    complete |-> NothingCut, truncated |-> more]
      BY <1>1, <2>1 DEF Answer
    <3>2. /\ reply'.status = "candidates" /\ reply'.candidates = Top(found, request)
          /\ reply'.complete = NothingCut /\ reply'.truncated = more
      BY <3>1, Zenon
    <3>3. NothingCut => (more <=> rest)
      BY <1>1, <2>1, CandidatesHonest
    <3>4. more \in BOOLEAN /\ rest \in BOOLEAN /\ NothingCut \in BOOLEAN
      BY DEF NothingCut
    <3>5. /\ Top(found, request) # {} /\ Top(found, request) \subseteq AllMatches
          /\ Cardinality(Top(found, request)) <= request
          /\ NothingCut => Exhaustive /\ Top(found, request) = Top(AllMatches, request)
      BY <1>1, <2>1, CandidatesHonest
    <3>6. rest' = rest /\ Top(AllMatches, request)' = Top(AllMatches, request)
          /\ AllMatches' = AllMatches /\ request' = request /\ Exhaustive' = Exhaustive
      BY <1>1, SameCorpus
    <3> HIDE DEF more
    <3>7. reply'.complete => reply'.truncated = rest
      BY <3>2, <3>3, <3>4, Zenon
    <3>8. reply'.complete =>
            Exhaustive' /\ reply'.candidates = Top(AllMatches', request')
      BY <1>1, <3>2, <3>5, <3>6, SameCorpus
    <3>9. reply'.complete => reply'.truncated = (Cardinality(AllMatches') > request')
      BY <3>6, <3>7
    <3> QED
      BY <3>2, <3>5, <3>6, <3>8, <3>9 DEF SearchIsHonest
  <2>2. CASE found = {} /\ NothingCut /\ tally.visible > 0
    <3>1. reply'.status = "no_match"
      BY <1>1, <2>2 DEF Answer
    <3>2. /\ Visible # {} /\ Exhaustive
          /\ \A i \in Visible : \A k \in Ids(i) : corpus[i].endpoints[k].score = 0
      BY <1>1, <2>2, NoMatchHonest
    <3> QED
      BY <1>1, <3>1, <3>2, SameCorpus DEF SearchIsHonest
  <2>3. CASE found = {} /\ ~(NothingCut /\ tally.visible > 0)
    <3>1. reply'.status = "unknown"
      BY <1>1, <2>3 DEF Answer, Unknown
    <3> QED
      BY <3>1 DEF SearchIsHonest
  <2> QED
    BY <2>1, <2>2, <2>3
<1> QED
  BY <1>1, <1>2, <1>3, <1>4, SameCorpus DEF SearchInv

LEMMA SearchStarts == SearchInit => SearchInv
<1> SUFFICES ASSUME SearchInit PROVE SearchInv
  OBVIOUS
<1>1. /\ corpus \in Corpora /\ request \in Requests
      /\ queue = Unread /\ found = {} /\ reply.status = "none"
      /\ tally \in Tallies /\ tally.visible = 0 /\ ~tally.truncated
  BY DEF SearchInit, NoReply, Tallies
<1> QED
  BY <1>1 DEF SearchInv, SearchTyped, SearchIsHonest

LEMMA SearchStutters ==
  ASSUME SearchInv, UNCHANGED searchVars  PROVE SearchInv'
<1>1. UNCHANGED <<corpus, request, queue, found, tally, reply>>
  BY DEF searchVars
<1>2. \A i : (Searched(i) => Searched(i)') /\ (Queued(i) => Queued(i)')
  BY <1>1, SameCorpus DEF Searched, Queued
<1>3. SearchTyped' /\ SearchIsHonest'
  BY <1>1, SameCorpus DEF SearchInv, SearchTyped, SearchIsHonest
<1> QED
  BY <1>1, <1>2, <1>3, SameCorpus DEF SearchInv

(* Every reachable state of a search: of the services the caller is        *)
(* entitled to, none is forgotten unless scanLimit says so, and what was   *)
(* left out of one that was searched is in incomplete and truncated.       *)
THEOREM SearchInvariant == SearchSpec => []SearchInv
<1>1. SearchInv /\ [SearchNext]_searchVars => SearchInv'
  <2> SUFFICES ASSUME SearchInv, [SearchNext]_searchVars PROVE SearchInv'
    OBVIOUS
  <2>1. CASE readGrants      BY <2>1, ReadGrantsKeeps
  <2>2. CASE skipDenied      BY <2>2, SkipDeniedKeeps
  <2>3. CASE meetUnresolved  BY <2>3, MeetUnresolvedKeeps
  <2>4. CASE exceedBudget    BY <2>4, ExceedBudgetKeeps
  <2>5. CASE searchService   BY <2>5, SearchServiceKeeps
  <2>6. CASE noticeDeadline  BY <2>6, NoticeDeadlineKeeps
  <2>7. CASE exceedDeadline  BY <2>7, ExceedDeadlineKeeps
  <2>8. CASE answer          BY <2>8, AnswerKeeps
  <2>9. CASE UNCHANGED searchVars  BY <2>9, SearchStutters
  <2> QED
    BY <2>1, <2>2, <2>3, <2>4, <2>5, <2>6, <2>7, <2>8, <2>9 DEF SearchNext
<1> QED
  BY <1>1, SearchStarts, PTL DEF SearchSpec

(* The answer of a search claims no more than was searched                 *)
(* (SearchIsHonest), for every configuration, grant, limit and cut.        *)
THEOREM SearchHonest == SearchSpec => []SearchIsHonest
<1>1. SearchInv => SearchIsHonest
  BY DEF SearchInv
<1> QED
  BY <1>1, SearchInvariant, PTL

-----------------------------------------------------------------------------
(* Discovery.  What the provider is shown of an endpoint, and what it may  *)
(* cite, is said of it by claims of the snapshot.                          *)
Grounded(row) ==
  /\ row.pin.snapshot \in Contracts /\ row.provider = Inference[row.pin.snapshot.config]
  /\ \A c \in row.cites :
       /\ c.endpoint \in row.requested \ row.omitted
       /\ \A v \in c.evidence : \E k \in row.pin.snapshot.claims :
            k.of = c.endpoint /\ k.scoped /\ v \in k.evidence
  /\ row.omitted \subseteq row.requested /\ row.omitted # row.requested

ServedTyped == served \in [Services -> [version : Nat, snapshot : Contracts]]
CallHolds(call) ==
  /\ call.pin.service \in Services
  /\ Analyzed(call.pin.snapshot, call.ids, call.discovery) # {}

(* The rows of the history are a sequence, their reviews finitely many.    *)
Rows == {answers[h] : h \in DOMAIN answers}
ArchiveHolds ==
  /\ answers \in Seq(Rows) /\ IsFiniteSet(reviews)
  /\ HistoryIsGrounded /\ ReviewsAreAChain

(* A discovery under way: every group of its shortlist is left, waited for *)
(* or answered, once, and what was answered is in the history.             *)
GroupOf(g) == [pin |-> g.pin, ids |-> g.ids]
GroupsOf(S) == {GroupOf(g) : g \in S}
Told(caller, g) ==
  g.status # "no_context" =>
    \E h \in DOMAIN answers :
      /\ answers[h].caller = caller /\ answers[h].pin = g.pin /\ answers[h].requested = g.ids
      /\ answers[h].status = g.status /\ answers[h].cites = g.cites
Asked(caller, shortlist, left, told, waiting) ==
  [phase |-> "asking", caller |-> caller, shortlist |-> shortlist, left |-> left,
   results |-> told, waiting |-> waiting]
AskingHolds(caller, shortlist, left, told, waiting) ==
  /\ IsFiniteSet(shortlist) /\ left \subseteq shortlist
  /\ \A g \in shortlist : g = GroupOf(g) /\ g.pin.service \in Services
  /\ \A c, d \in waiting : c = d
  /\ \A c \in waiting : c.caller = caller /\ GroupOf(c) \notin GroupsOf(told)
  /\ GroupsOf(told) \cup GroupsOf(waiting) = shortlist \ left
  /\ \A g, k \in told : GroupOf(g) = GroupOf(k) => g = k
  /\ \A g \in told : Told(caller, g)
DiscoveryHolds ==
  discovery.phase = "asking" =>
    /\ discovery = Asked(discovery.caller, discovery.shortlist, discovery.left,
                         discovery.results, discovery.waiting)
    /\ AskingHolds(discovery.caller, discovery.shortlist, discovery.left,
                   discovery.results, discovery.waiting)

SemanticInv ==
  /\ ServedTyped
  /\ \A call \in calls : CallHolds(call)
  /\ ArchiveHolds /\ DiscoveryHolds /\ DiscoveryIsConsistent

-----------------------------------------------------------------------------
LEMMA EligibleIsSaid ==
  ASSUME NEW x, NEW e, NEW d, NEW v \in Eligible(x, e, d)
  PROVE  \E k \in x.claims : k.of = e /\ k.scoped /\ v \in k.evidence
<1>1. PICK k : /\ v \in k.evidence /\ (k \in Documents(x, e) \/ k \in SourceClaims(x, e))
  BY DEF Eligible
<1>2. \A kind : \A j \in TheOne(x, e, kind) : j \in x.claims /\ j.of = e /\ j.scoped
  BY DEF TheOne, ClaimsOf
<1>3. k \in Documents(x, e) => k \in x.claims /\ k.of = e /\ k.scoped
  BY DEF Documents, ClaimsOf
<1>4. k \in SourceClaims(x, e) => k \in x.claims /\ k.of = e /\ k.scoped
  BY <1>2 DEF SourceClaims
<1> QED
  BY <1>1, <1>3, <1>4

LEMMA CitesAreEligible ==
  ASSUME NEW o, NEW x, NEW ids, NEW d, validateOutput(o, x, ids, d), NEW c \in o.cites
  PROVE  /\ c.endpoint \in Analyzed(x, ids, d)
         /\ c.evidence \subseteq Eligible(x, c.endpoint, d)
<1>1. CASE o.status = "suggestions"
  BY <1>1 DEF validateOutput
<1>2. CASE o.status = "ambiguous"
  BY <1>2 DEF validateOutput
<1>3. CASE o.status = "no_match"
  BY <1>3 DEF validateOutput
<1>4. CASE o.status \notin {"suggestions", "ambiguous", "no_match"}
  BY <1>4 DEF validateOutput
<1> QED
  BY <1>1, <1>2, <1>3, <1>4

LEMMA PinIsServed ==
  ASSUME ServedTyped, NEW pin, pin.service \in Services, CurrentPin(pin)
  PROVE  pin.snapshot \in Contracts /\ pin.snapshot.config = activeConfig
<1>1. served[pin.service] \in [version : Nat, snapshot : Contracts]
  BY DEF ServedTyped
<1>2. pin.snapshot = served[pin.service].snapshot /\ pin.snapshot.config = activeConfig
  <2>1. PICK n, x : n = served[pin.service].version /\ x = served[pin.service].snapshot
    OBVIOUS
  <2>2. pin = [service |-> pin.service, version |-> n, snapshot |-> x]
    BY <2>1 DEF CurrentPin, PinOf
  <2>3. pin.snapshot = x
    BY <2>2
  <2> QED
    BY <2>1, <2>3 DEF CurrentPin
<1> QED
  BY <1>1, <1>2

(* A call that the two transactions authorized leaves a grounded row.      *)
LEMMA RowIsGrounded ==
  ASSUME ServedTyped, NEW call, CallHolds(call), NEW o,
         validateOutput(o, call.pin.snapshot, call.ids, call.discovery),
         readAuthorized(call.caller, call.pin, call.ids), Inference[activeConfig] = call.provider
  PROVE  Grounded(projectSemanticHistory(call, o))
<1> DEFINE x == call.pin.snapshot
           analyzed == Analyzed(x, call.ids, call.discovery)
<1>1. x \in Contracts /\ x.config = activeConfig
  BY PinIsServed DEF CallHolds, readAuthorized
<1>2. analyzed \subseteq call.ids /\ analyzed # {}
  BY DEF CallHolds, Analyzed
<1>3. \A c \in o.cites : /\ c.endpoint \in analyzed
                         /\ c.evidence \subseteq Eligible(x, c.endpoint, call.discovery)
  BY CitesAreEligible
<1>4. PICK row : row = projectSemanticHistory(call, o)
  OBVIOUS
<1>5. /\ row.pin = call.pin /\ row.provider = call.provider /\ row.requested = call.ids
      /\ row.cites = o.cites /\ row.omitted = call.ids \ analyzed
  BY <1>4 DEF projectSemanticHistory
<1> HIDE DEF analyzed
<1>6. ASSUME NEW c \in o.cites
      PROVE  /\ c.endpoint \in row.requested \ row.omitted
             /\ \A v \in c.evidence : \E k \in x.claims :
                  k.of = c.endpoint /\ k.scoped /\ v \in k.evidence
  <2>1. c.endpoint \in row.requested \ row.omitted
    BY <1>2, <1>3, <1>5, <1>6
  <2>2. \A v \in c.evidence : v \in Eligible(x, c.endpoint, call.discovery)
    BY <1>3, <1>6
  <2> QED
    BY <2>1, <2>2, EligibleIsSaid
<1>7. row.omitted \subseteq row.requested /\ row.omitted # row.requested
  BY <1>2, <1>5
<1> QED
  BY <1>1, <1>4, <1>5, <1>6, <1>7 DEF Grounded

LEMMA SeqNarrowed ==
  ASSUME NEW S, NEW T, NEW q \in Seq(S), \A i \in 1..Len(q) : q[i] \in T
  PROVE  q \in Seq(T)
<1>1. Len(q) \in Nat /\ DOMAIN q = 1..Len(q) /\ q = [i \in 1..Len(q) |-> q[i]]
  OBVIOUS
<1> QED
  BY <1>1

(* Appending a grounded row keeps the archive and all that was told.       *)
LEMMA AppendedRow ==
  ASSUME answers \in Seq(Rows), NEW row, answers' = Append(answers, row)
  PROVE  /\ answers' \in Seq(Rows')
         /\ DOMAIN answers' = DOMAIN answers \cup {Len(answers) + 1}
         /\ Len(answers) + 1 \notin DOMAIN answers
         /\ \A h \in DOMAIN answers : answers'[h] = answers[h]
         /\ answers'[Len(answers) + 1] = row
<1> DEFINE n == Len(answers)
           S == Rows
<1>1. answers \in Seq(S)
  OBVIOUS
<1> HIDE DEF S
<1>2. answers \in Seq(S \cup {row})
  BY <1>1
<1>3. n \in Nat /\ DOMAIN answers = 1..n /\ answers' \in Seq(S \cup {row}) /\ Len(answers') = n + 1
  BY <1>2
<1>4. /\ DOMAIN answers' = 1..(n + 1)
      /\ \A h \in 1..n : answers'[h] = answers[h]
      /\ answers'[n + 1] = row
  BY <1>2
<1>5. answers' \in Seq(Rows')
  <2>1. \A h \in 1..(n + 1) : answers'[h] \in Rows'
    BY <1>4 DEF Rows
  <2> QED
    BY <1>3, <2>1, SeqNarrowed
<1> QED
  BY <1>3, <1>4, <1>5

LEMMA GroundedHistory ==
  HistoryIsGrounded <=> \A h \in DOMAIN answers : Grounded(answers[h])
BY DEF HistoryIsGrounded, Grounded

LEMMA ToldStays ==
  ASSUME answers \in Seq(Rows), UNCHANGED answers \/ \E row : answers' = Append(answers, row)
  PROVE  \A caller, g : Told(caller, g) => Told(caller, g)'
<1>1. /\ DOMAIN answers \subseteq DOMAIN answers'
      /\ \A h \in DOMAIN answers : answers'[h] = answers[h]
  BY AppendedRow
<1> QED
  BY <1>1 DEF Told

LEMMA AppendKeeps ==
  ASSUME ArchiveHolds, NEW row, Grounded(row), answers' = Append(answers, row),
         UNCHANGED <<reviews, receipts>>
  PROVE  ArchiveHolds'
<1>1. /\ answers \in Seq(Rows) /\ IsFiniteSet(reviews) /\ HistoryIsGrounded /\ ReviewsAreAChain
  BY DEF ArchiveHolds
<1> DEFINE n == Len(answers) + 1
<1>2. /\ answers' \in Seq(Rows') /\ DOMAIN answers' = DOMAIN answers \cup {n}
      /\ n \notin DOMAIN answers /\ answers'[n] = row
      /\ \A h \in DOMAIN answers : answers'[h] = answers[h]
  BY <1>1, AppendedRow
<1> HIDE DEF n
<1>3. HistoryIsGrounded'
  <2>1. \A h \in DOMAIN answers : Grounded(answers[h])
    BY <1>1, GroundedHistory
  <2>2. \A h \in DOMAIN answers' : Grounded(answers'[h])
    BY <1>2, <2>1
  <2> QED
    BY <2>2 DEF HistoryIsGrounded, Grounded
<1>4. ReviewsAreAChain'
  <2>1. \A h : ReviewsOf(h)' = ReviewsOf(h)
    BY DEF ReviewsOf
  <2>2. ReviewsOf(n) = {}
    BY <1>1, <1>2 DEF ReviewsAreAChain, ReviewsOf
  <2>3. {r.version : r \in ReviewsOf(n)} = 1..Cardinality(ReviewsOf(n))
    BY <2>2, FS_EmptySet
  <2>4. \A h \in DOMAIN answers' :
          {r.version : r \in ReviewsOf(h)'} = 1..Cardinality(ReviewsOf(h)')
    BY <1>1, <1>2, <2>1, <2>3 DEF ReviewsAreAChain
  <2>5. \A r \in reviews : r.row \in DOMAIN answers' /\ r.by = answers'[r.row].caller
    BY <1>1, <1>2 DEF ReviewsAreAChain
  <2> QED
    BY <1>1, <2>4, <2>5 DEF ReviewsAreAChain
<1> QED
  BY <1>1, <1>2, <1>3, <1>4 DEF ArchiveHolds

LEMMA ReviewKeeps ==
  ASSUME ArchiveHolds, NEW p, NEW s, NEW ids, NEW h \in DOMAIN answers, NEW decision, NEW expected,
         recordSemanticHistoryReview(p, s, ids, h, decision, expected)
  PROVE  ArchiveHolds' /\ UNCHANGED <<worldVars, calls, answers>>
<1> DEFINE review == [row |-> h, version |-> expected + 1, decision |-> decision, by |-> p]
           previous == {r \in ReviewsOf(h) : r.version = expected + 1}
<1>1. /\ answers \in Seq(Rows) /\ IsFiniteSet(reviews) /\ HistoryIsGrounded /\ ReviewsAreAChain
  BY DEF ArchiveHolds
<1>2. UNCHANGED <<worldVars, calls, answers>> /\ Rows' = Rows /\ HistoryIsGrounded'
  BY <1>1 DEF recordSemanticHistoryReview, HistoryIsGrounded, Rows
<1>3. /\ h \in ReadableHistory(p, s, ids) /\ receipts' = receipts \cup {review}
      /\ \/ previous # {} /\ review \in previous /\ reviews' = reviews
         \/ previous = {} /\ expected = Latest(h) /\ reviews' = reviews \cup {review}
  BY DEF recordSemanticHistoryReview, MayReview
<1>4. answers[h].caller = p
  BY <1>3 DEF ReadableHistory
<1>5. CASE review \in previous /\ reviews' = reviews
  <2>1. review \in reviews
    BY <1>5 DEF ReviewsOf
  <2>2. ReviewsAreAChain'
    BY <1>1, <1>2, <1>3, <1>5, <2>1 DEF ReviewsAreAChain, ReviewsOf
  <2> QED
    BY <1>1, <1>2, <1>5, <2>2 DEF ArchiveHolds
<1>6. CASE previous = {} /\ expected = Latest(h) /\ reviews' = reviews \cup {review}
  <2>1. review.row = h /\ review.version = expected + 1 /\ review.by = p
    OBVIOUS
  <2>2. review \notin ReviewsOf(h)
    BY <1>6, <2>1
  <2> HIDE DEF review, previous
  <2>3. ReviewsOf(h)' = ReviewsOf(h) \cup {review} /\ \A g : g # h => ReviewsOf(g)' = ReviewsOf(g)
    BY <1>6, <2>1 DEF ReviewsOf
  <2>4. IsFiniteSet(ReviewsOf(h)) /\ Cardinality(ReviewsOf(h)) \in Nat
    <3>1. ReviewsOf(h) \subseteq reviews
      BY DEF ReviewsOf
    <3> QED
      BY <1>1, <3>1, FS_Subset, FS_CardinalityType
  <2> DEFINE n == Cardinality(ReviewsOf(h))
  <2>5. /\ Cardinality(ReviewsOf(h)') = n + 1 /\ n \in Nat /\ expected = n
    BY <1>6, <2>2, <2>3, <2>4, FS_AddElement DEF Latest
  <2>6. {r.version : r \in ReviewsOf(h)} = 1..n
    BY <1>1 DEF ReviewsAreAChain
  <2>7. {r.version : r \in ReviewsOf(h)'} = {r.version : r \in ReviewsOf(h)} \cup {n + 1}
    BY <2>1, <2>3, <2>5
  <2> HIDE DEF n
  <2>8. {r.version : r \in ReviewsOf(h)'} = 1..(n + 1)
    BY <2>5, <2>6, <2>7
  <2>9. \A g \in DOMAIN answers :
          {r.version : r \in ReviewsOf(g)'} = 1..Cardinality(ReviewsOf(g)')
    BY <1>1, <2>3, <2>5, <2>8 DEF ReviewsAreAChain
  <2>10. \A r \in reviews' : r.row \in DOMAIN answers /\ r.by = answers[r.row].caller
    BY <1>1, <1>4, <1>6, <2>1 DEF ReviewsAreAChain
  <2>11. receipts' \subseteq reviews'
    BY <1>1, <1>3, <1>6 DEF ReviewsAreAChain
  <2>12. ReviewsAreAChain'
    BY <1>2, <2>9, <2>10, <2>11 DEF ReviewsAreAChain
  <2>13. IsFiniteSet(reviews')
    BY <1>1, <1>6, FS_AddElement
  <2> QED
    BY <1>1, <1>2, <2>12, <2>13 DEF ArchiveHolds
<1> QED
  BY <1>3, <1>5, <1>6

-----------------------------------------------------------------------------
Grown == UNCHANGED answers \/ \E row : answers' = Append(answers, row)

Consistent(a) ==
  a.phase = "groups" =>
    /\ GroupsOf(a.groups) = a.shortlist /\ Cardinality(a.groups) = Cardinality(a.shortlist)
    /\ \A g \in a.groups : Told(a.caller, g)
LEMMA ConsistentAnswer ==
  ASSUME NEW a
  PROVE  /\ a = answered => (DiscoveryIsConsistent <=> Consistent(a))
         /\ a = answered' => (DiscoveryIsConsistent' <=> Consistent(a)')
BY DEF DiscoveryIsConsistent, Consistent, GroupsOf, GroupOf, Told

LEMMA RestStays ==
  ASSUME SemanticInv, Grown
  PROVE  /\ UNCHANGED discovery => DiscoveryHolds'
         /\ UNCHANGED answered => DiscoveryIsConsistent'
<1>1. \A caller, g : Told(caller, g) => Told(caller, g)'
  BY ToldStays DEF SemanticInv, ArchiveHolds, Grown
<1>2. ASSUME UNCHANGED discovery PROVE DiscoveryHolds'
  BY <1>1, <1>2 DEF SemanticInv, DiscoveryHolds, AskingHolds
<1>3. ASSUME UNCHANGED answered PROVE DiscoveryIsConsistent'
  <2>1. PICK a : a = answered /\ a = answered'
    BY <1>3
  <2>2. Consistent(a)
    BY <2>1, ConsistentAnswer DEF SemanticInv
  <2>3. Consistent(a)'
    BY <1>1, <2>2 DEF Consistent
  <2> QED
    BY <2>1, <2>3, ConsistentAnswer
<1> QED
  BY <1>2, <1>3

LEMMA ArchiveStays ==
  ASSUME ArchiveHolds, UNCHANGED archiveVars  PROVE ArchiveHolds' /\ Grown
<1>1. UNCHANGED <<answers, reviews, receipts>>
  BY DEF archiveVars
<1>2. Rows' = Rows /\ HistoryIsGrounded' = HistoryIsGrounded
  BY <1>1 DEF Rows, HistoryIsGrounded
<1>3. ReviewsAreAChain' = ReviewsAreAChain
  BY <1>1 DEF ReviewsAreAChain, ReviewsOf
<1> QED
  BY <1>1, <1>2, <1>3 DEF ArchiveHolds, Grown

LEMMA ServedStays ==
  ASSUME SemanticInv, UNCHANGED worldVars  PROVE ServedTyped'
BY DEF SemanticInv, ServedTyped, worldVars

LEMMA RunKeeps ==
  ASSUME SemanticInv, NEW call, call.pin.service \in Services, run(call)
  PROVE  /\ \A c \in calls' : CallHolds(c)
         /\ ServedTyped' /\ ArchiveHolds' /\ Grown
<1>1. calls' = calls \cup {call} /\ UNCHANGED worldVars /\ UNCHANGED archiveVars /\ CallHolds(call)
  BY DEF run, NeedsProvider, CallHolds
<1> QED
  BY <1>1, ArchiveStays, ServedStays DEF SemanticInv

LEMMA WorldStays ==
  ASSUME SemanticInv, WorldNext  PROVE SemanticInv'
<1>1. UNCHANGED calls /\ UNCHANGED archiveVars /\ UNCHANGED discoveryVars
  BY DEF WorldNext, ServeContract, Change
<1>2. ServedTyped'
  <2>1. ASSUME NEW s \in Services, ServeContract(s) PROVE ServedTyped'
    <3>1. PICK x \in Contracts :
            served' = [served EXCEPT ![s] = [version |-> served[s].version + 1, snapshot |-> x]]
      BY <2>1 DEF ServeContract
    <3>2. served \in [Services -> [version : Nat, snapshot : Contracts]]
      BY DEF SemanticInv, ServedTyped
    <3>3. [version |-> served[s].version + 1, snapshot |-> x] \in [version : Nat, snapshot : Contracts]
      BY <3>2
    <3> QED
      BY <3>1, <3>2, <3>3 DEF ServedTyped
  <2>2. Change => ServedTyped'
    BY DEF SemanticInv, ServedTyped, Change
  <2> QED
    BY <2>1, <2>2 DEF WorldNext
<1> QED
  BY <1>1, <1>2, ArchiveStays, RestStays DEF SemanticInv, discoveryVars

LEMMA AskedFields ==
  ASSUME NEW c, NEW S, NEW L, NEW T, NEW W, discovery' = Asked(c, S, L, T, W),
         AskingHolds(c, S, L, T, W)'
  PROVE  DiscoveryHolds'
<1>1. PICK d : d = discovery'
  OBVIOUS
<1>2. d.caller = c /\ d.shortlist = S /\ d.left = L /\ d.results = T /\ d.waiting = W
  BY <1>1 DEF Asked
<1> QED
  BY <1>1, <1>2 DEF DiscoveryHolds

(* The fields of a discovery under way, and what an update makes of them.  *)
LEMMA AskingFields ==
  ASSUME SemanticInv, discovery.phase = "asking"
  PROVE  \E c, S, L, T, W :
           /\ discovery = Asked(c, S, L, T, W) /\ AskingHolds(c, S, L, T, W)
           /\ discovery.caller = c /\ discovery.shortlist = S /\ discovery.left = L
           /\ discovery.results = T /\ discovery.waiting = W
BY DEF SemanticInv, DiscoveryHolds

WaitFor(x, L, W) == [x EXCEPT !.waiting = W, !.left = L]
SkipTo(x, L, T) == [x EXCEPT !.left = L, !.results = T]
GoOn(x, W, T) == [x EXCEPT !.waiting = W, !.results = T]
LEMMA AskedUpdated ==
  ASSUME NEW c, NEW S, NEW L, NEW T, NEW W, NEW X, NEW Y, NEW x, x = Asked(c, S, L, T, W)
  PROVE  /\ WaitFor(x, X, Y) = Asked(c, S, X, T, Y)
         /\ SkipTo(x, X, Y) = Asked(c, S, X, Y, W)
         /\ GoOn(x, X, Y) = Asked(c, S, L, Y, X)
<1>1. PICK y : y = [x EXCEPT !.waiting = Y, !.left = X]
  OBVIOUS
<1>2. y = Asked(c, S, X, T, Y)
  BY <1>1, Zenon DEF Asked
<1>3. PICK z : z = [x EXCEPT !.left = X, !.results = Y]
  OBVIOUS
<1>4. z = Asked(c, S, X, Y, W)
  BY <1>3, Zenon DEF Asked
<1>5. PICK w : w = [x EXCEPT !.waiting = X, !.results = Y]
  OBVIOUS
<1>6. w = Asked(c, S, L, Y, X)
  BY <1>5, Zenon DEF Asked
<1> QED
  BY <1>1, <1>2, <1>3, <1>4, <1>5, <1>6 DEF WaitFor, SkipTo, GoOn

LEMMA AnswerCallKeeps ==
  ASSUME SemanticInv, NEW call \in calls, NEW o, answerCall(call, o)
  PROVE  SemanticInv'
<1> DEFINE x == call.pin.snapshot
<1>1. /\ validateOutput(o, x, call.ids, call.discovery)
      /\ readAuthorized(call.caller, call.pin, call.ids) /\ Inference[activeConfig] = call.provider
      /\ calls' = calls \ {call} /\ UNCHANGED worldVars /\ UNCHANGED <<reviews, receipts>>
      /\ UNCHANGED answered
  BY DEF answerCall, appendSemanticHistory
<1>2. PICK row : row = projectSemanticHistory(call, o)
  OBVIOUS
<1>3. answers' = Append(answers, row) /\ Grown
  BY <1>2 DEF answerCall, appendSemanticHistory, Grown
<1>4. ServedTyped /\ ServedTyped' /\ CallHolds(call) /\ ArchiveHolds /\ answers \in Seq(Rows)
  BY <1>1, ServedStays DEF SemanticInv, ArchiveHolds
<1>5. Grounded(row)
  BY <1>1, <1>2, <1>4, RowIsGrounded
<1>6. ArchiveHolds'
  BY <1>1, <1>3, <1>4, <1>5, AppendKeeps
<1>7. \A c \in calls' : CallHolds(c)
  BY <1>1 DEF SemanticInv
<1>8. DiscoveryHolds'
  <2>1. CASE ~(discovery.phase = "asking" /\ call \in discovery.waiting)
    BY <1>3, <2>1, RestStays DEF answerCall
  <2>2. CASE discovery.phase = "asking" /\ call \in discovery.waiting
    <3>1. PICK c, S, L, T, W :
            /\ discovery = Asked(c, S, L, T, W) /\ AskingHolds(c, S, L, T, W)
            /\ discovery.results = T /\ discovery.waiting = W
      BY <2>2, AskingFields
    <3>2. PICK g : g = [pin |-> call.pin, ids |-> call.ids, status |-> o.status, cites |-> o.cites]
      OBVIOUS
    <3>3. discovery' = [discovery EXCEPT !.waiting = {}, !.results = T \cup {g}]
      BY <2>2, <3>1, <3>2 DEF answerCall
    <3>4. discovery' = Asked(c, S, L, T \cup {g}, {})
      <4>1. discovery = Asked(c, S, L, T, W)
        BY <3>1
      <4>2. discovery' = GoOn(discovery, {}, T \cup {g})
        BY <3>3 DEF GoOn
      <4> QED
        BY ONLY <4>1, <4>2, AskedUpdated
    <3>5. call \in W /\ call.caller = c /\ GroupOf(call) \notin GroupsOf(T) /\ W = {call}
      BY <2>2, <3>1 DEF AskingHolds
    <3>6. g.pin = call.pin /\ g.ids = call.ids /\ g.status = o.status /\ g.cites = o.cites
      BY <3>2, Zenon
    <3>7. GroupOf(g) = GroupOf(call)
      BY <3>6 DEF GroupOf
    <3>8. /\ GroupsOf(T \cup {g}) = GroupsOf(T) \cup {GroupOf(call)} /\ GroupsOf({}) = {}
          /\ GroupsOf(W) = {GroupOf(call)}
      BY <3>5, <3>7 DEF GroupsOf
    <3>9. GroupsOf(T \cup {g}) \cup GroupsOf({}) = S \ L
      BY <3>1, <3>8 DEF AskingHolds
    <3>10. \A k, m \in T \cup {g} : GroupOf(k) = GroupOf(m) => k = m
      <4>1. \A k \in T : GroupOf(k) # GroupOf(g)
        BY <3>5, <3>7 DEF GroupsOf
      <4> QED
        BY <3>1, <4>1 DEF AskingHolds
    <3>11. Told(c, g)'
      <4>1. /\ row.caller = call.caller /\ row.pin = call.pin /\ row.requested = call.ids
            /\ row.status = o.status /\ row.cites = o.cites
        BY <1>2 DEF projectSemanticHistory
      <4>2. \E h \in DOMAIN answers' : answers'[h] = row
        BY <1>3, <1>4, AppendedRow
      <4> QED
        BY <3>5, <3>6, <4>1, <4>2 DEF Told
    <3>12. \A k \in T \cup {g} : Told(c, k)'
      BY <1>3, <1>4, <3>1, <3>11, ToldStays DEF AskingHolds
    <3>13. AskingHolds(c, S, L, T \cup {g}, {})'
      BY <3>1, <3>9, <3>10, <3>12 DEF AskingHolds
    <3> QED
      BY <3>4, <3>13, AskedFields
  <2> QED
    BY <2>1, <2>2
<1> QED
  BY <1>1, <1>3, <1>4, <1>6, <1>7, <1>8, RestStays DEF SemanticInv

LEMMA DiscardCallKeeps ==
  ASSUME SemanticInv, NEW call, discardCall(call)
  PROVE  SemanticInv'
<1>1. calls' = calls \ {call} /\ UNCHANGED worldVars /\ UNCHANGED archiveVars /\ UNCHANGED answered
  BY DEF discardCall, discard
<1>2. discovery' = discovery \/ discovery' = Idle
  BY DEF discardCall
<1>3. discovery' = Idle => DiscoveryHolds'
  BY DEF Idle, DiscoveryHolds
<1> QED
  BY <1>1, <1>2, <1>3, ArchiveStays, ServedStays, RestStays DEF SemanticInv

LEMMA InferenceKeeps ==
  ASSUME SemanticInv, InferenceNext
  PROVE  SemanticInv'
<1>1. PICK p \in Principals, s \in Services, ids \in Selections :
        \/ \E d \in BOOLEAN : run(Call(p, PinOf(s), ids, d))
        \/ \E h \in DOMAIN answers, decision \in {"acknowledged", "dismissed"},
              expected \in 0..MaxReviews :
             recordSemanticHistoryReview(p, s, ids, h, decision, expected)
  BY DEF InferenceNext
<1>2. UNCHANGED discovery /\ UNCHANGED answered
  BY DEF InferenceNext, discoveryVars
<1>3. ASSUME NEW d \in BOOLEAN, run(Call(p, PinOf(s), ids, d)) PROVE SemanticInv'
  <2>1. Call(p, PinOf(s), ids, d).pin.service \in Services
    BY DEF Call, PinOf
  <2>2. PICK call : call = Call(p, PinOf(s), ids, d)
    OBVIOUS
  <2>3. run(call) /\ call.pin.service \in Services
    BY <1>3, <2>1, <2>2
  <2> QED
    BY <1>2, <2>3, RunKeeps, RestStays DEF SemanticInv
<1>4. ASSUME NEW h \in DOMAIN answers, NEW decision, NEW expected,
             recordSemanticHistoryReview(p, s, ids, h, decision, expected)
      PROVE  SemanticInv'
  <2>1. ArchiveHolds' /\ UNCHANGED <<worldVars, calls, answers>>
    BY <1>4, ReviewKeeps DEF SemanticInv
  <2>2. UNCHANGED worldVars /\ UNCHANGED calls /\ Grown
    BY <2>1 DEF Grown
  <2> QED
    BY <1>2, <2>1, <2>2, ServedStays, RestStays DEF SemanticInv
<1> QED
  BY <1>1, <1>3, <1>4

LEMMA ShortlistFacts ==
  ASSUME NEW p
  PROVE  /\ IsFiniteSet(Shortlist(p))
         /\ \A g \in Shortlist(p) : g = GroupOf(g) /\ g.pin.service \in Services
<1> DEFINE V == {t \in VisibleTo(p) : served[t].snapshot.matching # {}}
           f == [s \in V |-> [pin |-> PinOf(s), ids |-> served[s].snapshot.matching]]
<1>1. V \subseteq Services
  BY DEF VisibleTo
<1>2. f \in Surjection(V, Shortlist(p))
  BY DEF Shortlist, Surjection
<1>3. \A g \in Shortlist(p) : g = GroupOf(g) /\ g.pin.service \in Services
  BY <1>1 DEF Shortlist, GroupOf, PinOf
<1> HIDE DEF V, f
<1>4. IsFiniteSet(V)
  BY <1>1, DiscoveryAssumption, FS_Subset
<1> QED
  BY <1>2, <1>3, <1>4, FS_Surjection

LEMMA SearchFirstKeeps ==
  ASSUME SemanticInv, NEW p, searchFirst(p)
  PROVE  SemanticInv'
<1>1. UNCHANGED worldVars /\ UNCHANGED calls /\ UNCHANGED archiveVars /\ UNCHANGED answered
  BY DEF searchFirst
<1>2. PICK S : S = Shortlist(p)
  OBVIOUS
<1>3. discovery' = Asked(p, S, S, {}, {})
  BY <1>2 DEF searchFirst, Asked
<1>4. AskingHolds(p, S, S, {}, {})'
  BY <1>2, ShortlistFacts DEF AskingHolds, GroupsOf
<1>5. DiscoveryHolds'
  BY <1>3, <1>4, AskedFields
<1> QED
  BY <1>1, <1>5, ArchiveStays, ServedStays, RestStays DEF SemanticInv

LEMMA AskGroupKeeps ==
  ASSUME SemanticInv, Asking, NEW group \in discovery.left, askGroup(group)
  PROVE  SemanticInv'
<1>1. PICK c, S, L, T, W :
        /\ discovery = Asked(c, S, L, T, W) /\ AskingHolds(c, S, L, T, W)
        /\ discovery.caller = c /\ discovery.left = L /\ discovery.waiting = W
  BY AskingFields DEF Asking
<1>2. PICK call : call = GroupCall(group)
  OBVIOUS
<1>3. /\ call.caller = c /\ call.pin = group.pin /\ call.ids = group.ids
  BY <1>1, <1>2 DEF GroupCall, Call
<1>4. run(call) /\ UNCHANGED answered
      /\ discovery' = [discovery EXCEPT !.waiting = {call}, !.left = L \ {group}]
  BY <1>1, <1>2 DEF askGroup
<1>5. group \in S /\ group = GroupOf(group) /\ group.pin.service \in Services /\ W = {}
  BY <1>1 DEF AskingHolds, Asking
<1>6. discovery' = Asked(c, S, L \ {group}, T, {call})
  <2>1. discovery' = WaitFor(discovery, L \ {group}, {call}) /\ discovery = Asked(c, S, L, T, W)
    BY <1>1, <1>4 DEF WaitFor
  <2> QED
    BY ONLY <2>1, AskedUpdated
<1>7. GroupOf(call) = group
  BY <1>3, <1>5 DEF GroupOf
<1>8. GroupsOf({call}) = {group} /\ GroupsOf(W) = {} /\ GroupsOf(T) = S \ L
  BY <1>1, <1>5, <1>7 DEF GroupsOf, AskingHolds
<1>9. /\ ServedTyped' /\ ArchiveHolds' /\ Grown /\ \A x \in calls' : CallHolds(x)
  BY <1>3, <1>4, <1>5, RunKeeps
<1>10. \A g \in T : Told(c, g)'
  BY <1>1, <1>9, ToldStays DEF AskingHolds, SemanticInv, ArchiveHolds, Grown
<1>11. AskingHolds(c, S, L \ {group}, T, {call})'
  <2>1. IsFiniteSet(S) /\ L \ {group} \subseteq S /\ group \in L
    BY <1>1 DEF AskingHolds
  <2>2. GroupsOf(T) \cup GroupsOf({call}) = S \ (L \ {group}) /\ group \notin GroupsOf(T)
    BY <1>5, <1>8, <2>1
  <2> QED
    BY <1>1, <1>3, <1>7, <1>10, <2>1, <2>2 DEF AskingHolds
<1>12. DiscoveryHolds'
  BY <1>6, <1>11, AskedFields
<1> QED
  BY <1>4, <1>9, <1>12, RestStays DEF SemanticInv

LEMMA SkipGroupKeeps ==
  ASSUME SemanticInv, Asking, NEW group \in discovery.left, skipGroup(group)
  PROVE  SemanticInv'
<1>1. PICK c, S, L, T, W :
        /\ discovery = Asked(c, S, L, T, W) /\ AskingHolds(c, S, L, T, W)
        /\ discovery.caller = c /\ discovery.left = L /\ discovery.waiting = W
        /\ discovery.results = T
  BY AskingFields DEF Asking
<1>2. PICK g : g = [pin |-> group.pin, ids |-> group.ids, status |-> "no_context", cites |-> {}]
  OBVIOUS
<1>3. g.pin = group.pin /\ g.ids = group.ids /\ g.status = "no_context"
  BY <1>2, Zenon
<1>4. /\ UNCHANGED worldVars /\ UNCHANGED calls /\ UNCHANGED archiveVars /\ UNCHANGED answered
      /\ discovery' = [discovery EXCEPT !.left = L \ {group}, !.results = T \cup {g}]
  BY <1>1, <1>2 DEF skipGroup
<1>5. group \in S /\ group \in L /\ group = GroupOf(group) /\ W = {}
  BY <1>1 DEF AskingHolds, Asking
<1>6. discovery' = Asked(c, S, L \ {group}, T \cup {g}, W)
  <2>1. /\ discovery' = SkipTo(discovery, L \ {group}, T \cup {g})
        /\ discovery = Asked(c, S, L, T, W)
    BY <1>1, <1>4 DEF SkipTo
  <2> QED
    BY ONLY <2>1, AskedUpdated
<1>7. GroupOf(g) = group
  BY <1>3, <1>5 DEF GroupOf
<1>8. GroupsOf(T \cup {g}) = GroupsOf(T) \cup {group} /\ GroupsOf(W) = {} /\ GroupsOf(T) = S \ L
  BY <1>1, <1>5, <1>7 DEF GroupsOf, AskingHolds
<1>9. ArchiveHolds' /\ ServedTyped' /\ Grown
  BY <1>4, ArchiveStays, ServedStays DEF SemanticInv
<1>10. \A k \in T \cup {g} : Told(c, k)'
  <2>1. \A k \in T : Told(c, k)'
    BY <1>1, <1>9, ToldStays DEF AskingHolds, SemanticInv, ArchiveHolds, Grown
  <2>2. Told(c, g)'
    BY <1>3 DEF Told
  <2> QED
    BY <2>1, <2>2
<1>11. \A k, m \in T \cup {g} : GroupOf(k) = GroupOf(m) => k = m
  <2>1. \A k \in T : GroupOf(k) # GroupOf(g)
    BY <1>5, <1>7, <1>8 DEF GroupsOf
  <2> QED
    BY <1>1, <2>1 DEF AskingHolds
<1>12. AskingHolds(c, S, L \ {group}, T \cup {g}, W)'
  <2>1. GroupsOf(T \cup {g}) \cup GroupsOf(W) = S \ (L \ {group}) /\ L \ {group} \subseteq S
    <3>1. L \subseteq S
      BY <1>1 DEF AskingHolds
    <3>2. (S \ L) \cup {group} \cup {} = S \ (L \ {group})
      BY <1>5, <3>1
    <3> QED
      BY <1>8, <3>1, <3>2
  <2> QED
    BY <1>1, <1>5, <1>10, <1>11, <2>1 DEF AskingHolds
<1>13. DiscoveryHolds'
  BY <1>6, <1>12, AskedFields
<1> QED
  BY <1>4, <1>9, <1>13, RestStays DEF SemanticInv

(* All groups are answered: one result for each of the shortlist.          *)
LEMMA SearchAgainKeeps ==
  ASSUME SemanticInv, searchAgain
  PROVE  SemanticInv'
<1>1. PICK c, S, L, T, W :
        /\ AskingHolds(c, S, L, T, W) /\ discovery.caller = c /\ discovery.left = L
        /\ discovery.waiting = W /\ discovery.results = T /\ discovery.shortlist = S
  BY AskingFields DEF Asking, searchAgain
<1>2. PICK a : a = [phase |-> "groups", caller |-> c, groups |-> T, shortlist |-> S]
  OBVIOUS
<1>3. /\ UNCHANGED worldVars /\ UNCHANGED calls /\ UNCHANGED archiveVars
      /\ answered' = a /\ discovery' = Idle /\ L = {} /\ W = {}
  BY <1>1, <1>2 DEF searchAgain, Asking
<1>4. a.groups = T /\ a.shortlist = S /\ a.caller = c
  BY <1>2, Zenon
<1>5. GroupsOf(T) = S /\ IsFiniteSet(S)
  BY <1>1, <1>3 DEF AskingHolds, GroupsOf
<1>6. Cardinality(T) = Cardinality(S)
  <2> DEFINE f == [g \in T |-> GroupOf(g)]
  <2>1. f \in Injection(T, S) /\ f \in Surjection(T, S)
    <3>1. f \in [T -> S] /\ \A s \in S : \E g \in T : f[g] = s
      BY <1>5 DEF GroupsOf
    <3>2. \A g, k \in T : f[g] = f[k] => g = k
      BY <1>1 DEF AskingHolds
    <3> QED
      BY <3>1, <3>2 DEF Injection, Surjection, IsInjective
  <2> HIDE DEF f
  <2> QED
    BY <1>5, <2>1, FS_Injection
<1>7. Consistent(a)'
  <2>1. \A g \in T : Told(c, g)'
    BY <1>1, <1>3, ArchiveStays, ToldStays DEF AskingHolds, SemanticInv, ArchiveHolds, Grown
  <2> QED
    BY <1>4, <1>5, <1>6, <2>1 DEF Consistent
<1>8. DiscoveryIsConsistent'
  BY <1>3, <1>7, ConsistentAnswer
<1>9. DiscoveryHolds'
  BY <1>3 DEF DiscoveryHolds, Idle
<1> QED
  BY <1>3, <1>8, <1>9, ArchiveStays, ServedStays DEF SemanticInv

LEMMA CorpusKeeps ==
  ASSUME SemanticInv, CorpusNext
  PROVE  SemanticInv'
<1>1. ASSUME abandonDiscovery PROVE SemanticInv'
  <2>1. /\ UNCHANGED worldVars /\ UNCHANGED calls /\ UNCHANGED archiveVars /\ UNCHANGED answered
        /\ discovery' = Idle
    BY <1>1 DEF abandonDiscovery
  <2>2. DiscoveryHolds'
    BY <2>1 DEF DiscoveryHolds, Idle
  <2> QED
    BY <2>1, <2>2, ArchiveStays, ServedStays, RestStays DEF SemanticInv
<1> QED
  BY <1>1, SearchFirstKeeps, AskGroupKeeps, SkipGroupKeeps, SearchAgainKeeps DEF CorpusNext

(* A retrieval changes nothing of this but the last answer, which is then  *)
(* not about groups.                                                       *)
LEMMA RetrievalKeeps ==
  ASSUME SemanticInv, RetrievalNext
  PROVE  SemanticInv'
<1>1. /\ UNCHANGED worldVars /\ UNCHANGED calls /\ UNCHANGED archiveVars /\ UNCHANGED discovery
  BY DEF RetrievalNext, beginRetrieval, scanService, embedMissing, rank, abandonRetrieval, clearCache
<1>2. UNCHANGED answered \/ answered'.phase = "candidates"
  <2>1. rank => answered'.phase = "candidates"
    <3>1. PICK c, b, v :
            rank => answered' = [phase |-> "candidates", caller |-> c, complete |-> b, ranked |-> v]
      BY DEF rank
    <3> QED
      BY <3>1
  <2> QED
    BY <2>1 DEF RetrievalNext, beginRetrieval, scanService, embedMissing, abandonRetrieval, clearCache
<1>3. answered'.phase = "candidates" => DiscoveryIsConsistent'
  BY DEF DiscoveryIsConsistent
<1> QED
  BY <1>1, <1>2, <1>3, ArchiveStays, ServedStays, RestStays DEF SemanticInv

LEMMA DiscoveryStarts == DiscoveryInit => SemanticInv
<1> SUFFICES ASSUME DiscoveryInit PROVE SemanticInv
  OBVIOUS
<1>1. /\ answers = <<>> /\ reviews = {} /\ receipts = {} /\ calls = {}
      /\ discovery.phase = "idle" /\ answered.phase = "idle"
      /\ served \in [Services -> {[version |-> 1, snapshot |-> x] : x \in Contracts}]
  BY DEF DiscoveryInit, InferenceInit, Idle
<1>2. ServedTyped
  BY <1>1 DEF ServedTyped
<1>3. ArchiveHolds
  BY <1>1, FS_EmptySet DEF ArchiveHolds, Rows, HistoryIsGrounded, ReviewsAreAChain
<1> QED
  BY <1>1, <1>2, <1>3 DEF SemanticInv, DiscoveryHolds, DiscoveryIsConsistent

(* Every reachable state of inference and discovery: the history and its   *)
(* reviews are as promised, and a discovery under way has every group of   *)
(* its shortlist once, left, waited for or answered.                       *)
THEOREM SemanticInvariant == DiscoverySpec => []SemanticInv
<1>1. SemanticInv /\ [DiscoveryNext]_semanticVars => SemanticInv'
  <2> SUFFICES ASSUME SemanticInv, [DiscoveryNext]_semanticVars PROVE SemanticInv'
    OBVIOUS
  <2>1. CASE UNCHANGED semanticVars
    <3>1. /\ UNCHANGED worldVars /\ UNCHANGED calls /\ UNCHANGED archiveVars
          /\ UNCHANGED discovery /\ UNCHANGED answered
      BY <2>1 DEF semanticVars, discoveryVars
    <3> QED
      BY <3>1, ArchiveStays, ServedStays, RestStays DEF SemanticInv
  <2>2. CASE AnswerNext
    BY <2>2, AnswerCallKeeps, DiscardCallKeeps DEF AnswerNext
  <2> QED
    BY <2>1, <2>2, WorldStays, InferenceKeeps, CorpusKeeps, RetrievalKeeps DEF DiscoveryNext
<1> QED
  BY <1>1, DiscoveryStarts, PTL DEF DiscoverySpec

(* What the history keeps was asked, and rests on evidence of the endpoint *)
(* in a contract that was served (HistoryIsGrounded), for every contract,  *)
(* configuration and output of a provider.                                 *)
THEOREM HistoryGrounded == DiscoverySpec => []HistoryIsGrounded
<1>1. SemanticInv => HistoryIsGrounded
  BY DEF SemanticInv, ArchiveHolds
<1> QED
  BY <1>1, SemanticInvariant, PTL

(* The reviews of a row are one chain of its owner's decisions, whatever   *)
(* is retried and whoever races (ReviewsAreAChain).                        *)
THEOREM ReviewsChained == DiscoverySpec => []ReviewsAreAChain
<1>1. SemanticInv => ReviewsAreAChain
  BY DEF SemanticInv, ArchiveHolds
<1> QED
  BY <1>1, SemanticInvariant, PTL

(* An answer about all services is about the shortlist of one moment, and  *)
(* all the provider said for it is in the history (DiscoveryIsConsistent). *)
THEOREM DiscoveryConsistent == DiscoverySpec => []DiscoveryIsConsistent
<1>1. SemanticInv => DiscoveryIsConsistent
  BY DEF SemanticInv
<1> QED
  BY <1>1, SemanticInvariant, PTL

-----------------------------------------------------------------------------
(* Retrieval.  The cache holds vectors of the very texts of their keys,    *)
(* none twice and none computed before the last clearCache.                *)
CacheHolds ==
  /\ cache \in Seq(Range(cache)) /\ Len(cache) <= CacheEntries
  /\ \A i \in DOMAIN cache :
       cache[i].vector = Embedding(cache[i].key.text) /\ cache[i].since = generation
  /\ \A i, j \in DOMAIN cache : cache[i].key = cache[j].key => i = j

(* What a scan has read: texts for the caller, and when it is complete, of *)
(* every endpoint of a service that has any.                               *)
TextsHold(caller, texts, complete) ==
  /\ IsFiniteSet(texts) /\ \A k \in texts : k.caller = caller
  /\ complete => \A k \in texts : \A e \in k.pin.snapshot.endpoints :
       \E w \in texts : w.pin = k.pin /\ w.endpoint = e
VectorsHold(texts, vectors, began) ==
  /\ IsFiniteSet(vectors) /\ {v.key : v \in vectors} = texts
  /\ \A v \in vectors : v.vector = Embedding(v.key.text)
  /\ \A v, w \in vectors : v.key = w.key => v = w
  /\ began = generation => \A v \in vectors : v.new => CachedFor(v.key) = {}

Retrieving(ph, caller, sc, first, vectors, began) ==
  [phase |-> ph, caller |-> caller, scan |-> sc, first |-> first,
   vectors |-> vectors, began |-> began]
ScanRecord(left, texts, complete) == [left |-> left, texts |-> texts, complete |-> complete]
ScanHolds(caller, sc) ==
  /\ sc = ScanRecord(sc.left, sc.texts, sc.complete)
  /\ \A pin \in sc.left : pin.service \in Services
  /\ TextsHold(caller, sc.texts, sc.complete)
RankHolds(ph, caller, sc, first, vectors, began) ==
  /\ ph \in {"scanning", "confirming"} /\ ScanHolds(caller, sc)
  /\ ph = "confirming" =>
       TextsHold(caller, first.texts, first.complete) /\ VectorsHold(first.texts, vectors, began)
RetrievalHolds ==
  retrieval = Idle \/
    /\ retrieval = Retrieving(retrieval.phase, retrieval.caller, retrieval.scan, retrieval.first,
                              retrieval.vectors, retrieval.began)
    /\ RankHolds(retrieval.phase, retrieval.caller, retrieval.scan, retrieval.first,
                 retrieval.vectors, retrieval.began)
CandidatesHold ==
  answered.phase = "candidates" => \A v \in answered.ranked :
    /\ v.vector = Embedding(v.key.text) /\ v.key.caller = answered.caller
    /\ answered.complete => \A e \in v.key.pin.snapshot.endpoints :
         \E w \in answered.ranked : w.key.pin = v.key.pin /\ w.key.endpoint = e
RetrievalInv == CacheHolds /\ RetrievalHolds /\ CandidatesHold

-----------------------------------------------------------------------------
LEMMA RetrievalSound == RetrievalInv => RetrievalIsSound
BY DEF RetrievalInv, CacheHolds, CandidatesHold, RetrievalIsSound

(* What is not a retrieval leaves all of this alone.                       *)
LEMMA RetrievalStays ==
  ASSUME RetrievalInv, UNCHANGED <<retrieval, cache, generation>>,
         UNCHANGED answered \/ answered'.phase = "groups"
  PROVE  RetrievalInv'
<1>1. CacheHolds'
  BY DEF RetrievalInv, CacheHolds, Range
<1>2. RetrievalHolds'
  BY DEF RetrievalInv, RetrievalHolds, RankHolds, VectorsHold, CachedFor
<1>3. CandidatesHold'
  BY DEF RetrievalInv, CandidatesHold
<1> QED
  BY <1>1, <1>2, <1>3 DEF RetrievalInv

LEMMA RetrievalFields ==
  ASSUME RetrievalInv, retrieval # Idle
  PROVE  \E ph, c, sc, fi, ve, be :
           /\ retrieval = Retrieving(ph, c, sc, fi, ve, be) /\ RankHolds(ph, c, sc, fi, ve, be)
           /\ retrieval.phase = ph /\ retrieval.caller = c /\ retrieval.scan = sc
           /\ retrieval.first = fi /\ retrieval.vectors = ve /\ retrieval.began = be
BY DEF RetrievalInv, RetrievalHolds

LEMMA RetrievalRestated ==
  ASSUME NEW ph, NEW c, NEW sc, NEW fi, NEW ve, NEW be,
         retrieval' = Retrieving(ph, c, sc, fi, ve, be), RankHolds(ph, c, sc, fi, ve, be)'
  PROVE  RetrievalHolds'
<1>1. PICK r : r = retrieval'
  OBVIOUS
<1>2. /\ r.phase = ph /\ r.caller = c /\ r.scan = sc /\ r.first = fi /\ r.vectors = ve
      /\ r.began = be
  BY <1>1 DEF Retrieving
<1> QED
  BY <1>1, <1>2 DEF RetrievalHolds

Rescan(x, sc) == [x EXCEPT !.scan = sc]
Embedded(x, fi, sc, ve) == [x EXCEPT !.phase = "confirming", !.first = fi, !.scan = sc, !.vectors = ve]
LEMMA RetrievalUpdated ==
  ASSUME NEW ph, NEW c, NEW sc, NEW fi, NEW ve, NEW be, NEW X, NEW Y, NEW Z,
         NEW x, x = Retrieving(ph, c, sc, fi, ve, be)
  PROVE  /\ Rescan(x, X) = Retrieving(ph, c, X, fi, ve, be)
         /\ Embedded(x, X, Y, Z) = Retrieving("confirming", c, Y, X, Z, be)
<1>1. PICK y : y = [x EXCEPT !.scan = X]
  OBVIOUS
<1>2. y = Retrieving(ph, c, X, fi, ve, be)
  BY <1>1, Zenon DEF Retrieving
<1>3. PICK z : z = [x EXCEPT !.phase = "confirming", !.first = X, !.scan = Y, !.vectors = Z]
  OBVIOUS
<1>4. z = Retrieving("confirming", c, Y, X, Z, be)
  BY <1>3, Zenon DEF Retrieving
<1> QED
  BY <1>1, <1>2, <1>3, <1>4 DEF Rescan, Embedded

LEMMA ScanStarts ==
  ASSUME NEW p
  PROVE  ScanHolds(p, Scan(p))
<1>1. PICK sc, L, b : sc = Scan(p) /\ L = Listed(p) /\ b = AllCurrent(p)
  OBVIOUS
<1>2. sc = [left |-> L, texts |-> {}, complete |-> b]
  BY <1>1 DEF Scan
<1>3. sc.left = L /\ sc.texts = {} /\ sc = ScanRecord(sc.left, sc.texts, sc.complete)
  BY <1>2 DEF ScanRecord
<1>4. \A pin \in L : pin.service \in Services
  <2>1. \A s : PinOf(s).service = s
    BY DEF PinOf
  <2>2. L = {PinOf(s) : s \in VisibleTo(p)} /\ VisibleTo(p) \subseteq Services
    BY <1>1 DEF Listed, VisibleTo
  <2> QED
    BY <2>1, <2>2
<1> QED
  BY <1>1, <1>3, <1>4, FS_EmptySet DEF ScanHolds, TextsHold

Projected(pin) == Analyzed(pin.snapshot, pin.snapshot.endpoints, TRUE)
LEMMA TextsFacts ==
  ASSUME ServedTyped, NEW c, NEW pin, pin.service \in Services, CurrentPin(pin)
  PROVE  /\ IsFiniteSet(Texts(c, pin))
         /\ \A k \in Texts(c, pin) : k.caller = c /\ k.pin = pin
         /\ \A e \in Projected(pin) : \E w \in Texts(c, pin) : w.pin = pin /\ w.endpoint = e
<1> DEFINE A == Projected(pin)
           f == [e \in A |-> TextOf(c, pin, e)]
<1>1. IsFiniteSet(pin.snapshot.endpoints) /\ A \subseteq pin.snapshot.endpoints
  BY PinIsServed, DiscoveryAssumption DEF Projected, Analyzed
<1>2. f \in Surjection(A, Texts(c, pin))
  BY DEF Texts, Surjection, Projected
<1>3. \A e : /\ TextOf(c, pin, e).caller = c /\ TextOf(c, pin, e).pin = pin
             /\ TextOf(c, pin, e).endpoint = e
  BY DEF TextOf
<1>4. \A k \in Texts(c, pin) : \E e \in A : k = TextOf(c, pin, e)
  BY DEF Texts, Projected
<1>5. \A e \in A : TextOf(c, pin, e) \in Texts(c, pin)
  BY DEF Texts, Projected
<1> HIDE DEF f, A
<1>6. IsFiniteSet(Texts(c, pin))
  BY <1>1, <1>2, FS_Subset, FS_Surjection
<1> QED
  BY <1>3, <1>4, <1>5, <1>6 DEF A

LEMMA BeginRetrievalKeeps ==
  ASSUME RetrievalInv, NEW p, beginRetrieval(p)
  PROVE  RetrievalInv'
<1>1. UNCHANGED <<worldVars, cache, generation, answered>>
  BY DEF beginRetrieval
<1>2. PICK sc : sc = Scan(p)
  OBVIOUS
<1>3. retrieval' = Retrieving("scanning", p, sc, sc, {}, generation)
  BY <1>2 DEF beginRetrieval, Retrieving
<1>4. RankHolds("scanning", p, sc, sc, {}, generation)'
  BY <1>2, ScanStarts DEF RankHolds
<1>5. RetrievalHolds'
  <2>1. PICK be : be = generation
    OBVIOUS
  <2> QED
    BY <1>1, <1>3, <1>4, <2>1, RetrievalRestated DEF RankHolds
<1>6. CacheHolds' /\ CandidatesHold'
  BY <1>1 DEF RetrievalInv, CacheHolds, CandidatesHold, Range
<1> QED
  BY <1>5, <1>6 DEF RetrievalInv

LEMMA ScanServiceKeeps ==
  ASSUME RetrievalInv, ServedTyped, NEW pin, scanService(pin)
  PROVE  RetrievalInv'
<1>1. /\ UNCHANGED cache /\ UNCHANGED generation /\ UNCHANGED answered
      /\ pin \in retrieval.scan.left /\ CurrentPin(pin) /\ retrieval # Idle
  BY DEF scanService, Scanning, Idle
<1>2. PICK ph, c, sc, fi, ve, be :
        /\ retrieval = Retrieving(ph, c, sc, fi, ve, be) /\ RankHolds(ph, c, sc, fi, ve, be)
        /\ retrieval.caller = c /\ retrieval.scan = sc
  BY <1>1, RetrievalFields
<1>3. PICK b, T, s :
        /\ b = (sc.complete /\ Enabled
                /\ Analyzed(pin.snapshot, pin.snapshot.endpoints, TRUE) = pin.snapshot.endpoints)
        /\ T = (IF Enabled THEN sc.texts \cup Texts(c, pin) ELSE sc.texts)
        /\ s = [left |-> sc.left \ {pin}, texts |-> T, complete |-> b]
  OBVIOUS
<1>4. retrieval' = [retrieval EXCEPT !.scan = s]
  BY <1>2, <1>3 DEF scanService
<1>5. retrieval' = Retrieving(ph, c, s, fi, ve, be)
  <2>1. retrieval' = Rescan(retrieval, s) /\ retrieval = Retrieving(ph, c, sc, fi, ve, be)
    BY <1>2, <1>4 DEF Rescan
  <2> QED
    BY ONLY <2>1, RetrievalUpdated
<1>6. s.left = sc.left \ {pin} /\ s.texts = T /\ s.complete = b /\ s = ScanRecord(s.left, s.texts, s.complete)
  BY <1>3 DEF ScanRecord
<1>7. pin.service \in Services /\ TextsHold(c, sc.texts, sc.complete)
  BY <1>1, <1>2 DEF RankHolds, ScanHolds
<1>8. TextsHold(c, T, b)
  <2> DEFINE new == Texts(c, pin)
             A == Projected(pin)
  <2>1. /\ IsFiniteSet(new) /\ \A k \in new : k.caller = c /\ k.pin = pin
        /\ \A e \in A : \E w \in new : w.pin = pin /\ w.endpoint = e
    <3>1. pin.service \in Services /\ CurrentPin(pin)
      BY <1>1, <1>7
    <3> QED
      BY ONLY <3>1, ServedTyped, TextsFacts
  <2>2. /\ T = IF Enabled THEN sc.texts \cup new ELSE sc.texts
        /\ b => sc.complete /\ Enabled /\ A = pin.snapshot.endpoints
    BY <1>3 DEF Projected
  <2> HIDE DEF new, A
  <2>3. CASE Enabled
    <3>1. T = sc.texts \cup new
      BY <2>3, <2>2
    <3>2. IsFiniteSet(T) /\ \A k \in T : k.caller = c
      BY <1>7, <2>1, <3>1, FS_Union DEF TextsHold
    <3>3. ASSUME b, NEW k \in T, NEW e \in k.pin.snapshot.endpoints
          PROVE  \E w \in T : w.pin = k.pin /\ w.endpoint = e
      <4>1. sc.complete /\ A = pin.snapshot.endpoints
        BY <2>2, <3>3
      <4>2. CASE k \in sc.texts
        BY <1>7, <3>1, <3>3, <4>1, <4>2 DEF TextsHold
      <4>3. CASE k \in new
        BY <2>1, <3>1, <3>3, <4>1, <4>3
      <4> QED
        BY <3>1, <4>2, <4>3
    <3> QED
      BY <3>2, <3>3 DEF TextsHold
  <2>4. CASE ~Enabled
    BY <1>7, <2>4, <2>2 DEF TextsHold
  <2> QED
    BY <2>3, <2>4
<1>9. ScanHolds(c, s)
  BY <1>2, <1>6, <1>8 DEF ScanHolds, RankHolds
<1>10. RankHolds(ph, c, s, fi, ve, be)'
  BY <1>1, <1>2, <1>9 DEF RankHolds, VectorsHold, CachedFor
<1>11. RetrievalHolds'
  BY <1>5, <1>10, RetrievalRestated
<1>12. CacheHolds' /\ CandidatesHold'
  BY <1>1 DEF RetrievalInv, CacheHolds, CandidatesHold, Range
<1> QED
  BY <1>11, <1>12 DEF RetrievalInv

VectorFor(k) ==
  [key |-> k, new |-> CachedFor(k) = {},
   vector |-> IF CachedFor(k) = {} THEN Embedding(k.text)
              ELSE (CHOOSE c \in CachedFor(k) : TRUE).vector]
LEMMA VectorFacts ==
  ASSUME CacheHolds, NEW k
  PROVE  /\ VectorFor(k).key = k /\ VectorFor(k).vector = Embedding(k.text)
         /\ VectorFor(k).new => CachedFor(k) = {}
<1>1. PICK b, v :
        /\ b = (CachedFor(k) = {})
        /\ v = IF CachedFor(k) = {} THEN Embedding(k.text)
               ELSE (CHOOSE c \in CachedFor(k) : TRUE).vector
  OBVIOUS
<1>2. VectorFor(k) = [key |-> k, new |-> b, vector |-> v]
  BY <1>1 DEF VectorFor
<1>3. v = Embedding(k.text)
  <2>1. CASE CachedFor(k) = {}
    BY <1>1, <2>1
  <2>2. CASE CachedFor(k) # {}
    <3>1. PICK c : c = (CHOOSE d \in CachedFor(k) : TRUE)
      OBVIOUS
    <3>2. c \in CachedFor(k) /\ v = c.vector
      BY <1>1, <2>2, <3>1
    <3>3. PICK i \in DOMAIN cache : c = cache[i]
      BY <3>2 DEF CachedFor, Range
    <3>4. c.key = k /\ c.vector = Embedding(c.key.text)
      BY <3>2, <3>3 DEF CachedFor, CacheHolds
    <3> QED
      BY <3>2, <3>4
  <2> QED
    BY <2>1, <2>2
<1>4. PICK r : r = VectorFor(k)
  OBVIOUS
<1>5. r = [key |-> k, new |-> b, vector |-> v]
  BY <1>2, <1>4
<1>6. r.key = k
  BY ONLY <1>5
<1>7. r.vector = v
  BY ONLY <1>5
<1>8. r.new = b
  BY ONLY <1>5, Zenon
<1>9. b => CachedFor(k) = {}
  BY <1>1
<1>10. r.new => CachedFor(k) = {}
  BY ONLY <1>8, <1>9, Zenon
<1> QED
  BY ONLY <1>3, <1>4, <1>6, <1>7, <1>10, Zenon

LEMMA EmbedMissingKeeps ==
  ASSUME RetrievalInv, embedMissing
  PROVE  RetrievalInv'
<1>1. UNCHANGED cache /\ UNCHANGED generation /\ UNCHANGED answered /\ retrieval # Idle
  BY DEF embedMissing, Idle
<1>2. PICK ph, c, sc, fi, ve, be :
        /\ retrieval = Retrieving(ph, c, sc, fi, ve, be) /\ RankHolds(ph, c, sc, fi, ve, be)
        /\ retrieval.caller = c /\ retrieval.scan = sc
  BY <1>1, RetrievalFields
<1>3. PICK s, V : s = Scan(c) /\ V = {VectorFor(k) : k \in sc.texts}
  OBVIOUS
<1>4. retrieval' = [retrieval EXCEPT !.phase = "confirming", !.first = sc, !.scan = s, !.vectors = V]
  BY <1>2, <1>3 DEF embedMissing, VectorFor
<1>5. retrieval' = Retrieving("confirming", c, s, sc, V, be)
  <2>1. /\ retrieval' = Embedded(retrieval, sc, s, V)
        /\ retrieval = Retrieving(ph, c, sc, fi, ve, be)
    BY <1>2, <1>4 DEF Embedded
  <2> QED
    BY ONLY <2>1, RetrievalUpdated
<1>6. TextsHold(c, sc.texts, sc.complete) /\ ScanHolds(c, s)
  BY <1>2, <1>3, ScanStarts DEF RankHolds, ScanHolds
<1>7. VectorsHold(sc.texts, V, be)
  <2>1. IsFiniteSet(V)
    <3> DEFINE f == [k \in sc.texts |-> VectorFor(k)]
    <3>1. f \in Surjection(sc.texts, V)
      BY <1>3 DEF Surjection
    <3> HIDE DEF f
    <3>2. IsFiniteSet(sc.texts)
      BY <1>6 DEF TextsHold
    <3> QED
      BY ONLY <3>1, <3>2, FS_Surjection
  <2>2. \A v \in V : \E k \in sc.texts :
          /\ v = VectorFor(k) /\ v.key = k /\ v.vector = Embedding(k.text)
          /\ v.new => CachedFor(k) = {}
    BY <1>3, VectorFacts DEF RetrievalInv
  <2>3. \A k \in sc.texts : \E v \in V : v.key = k
    BY <1>3, VectorFacts DEF RetrievalInv
  <2>4. {v.key : v \in V} = sc.texts
    BY <2>2, <2>3
  <2>5. \A v \in V : v.vector = Embedding(v.key.text) /\ (v.new => CachedFor(v.key) = {})
    BY <2>2
  <2>6. \A v, w \in V : v.key = w.key => v = w
    BY <2>2
  <2> QED
    BY <2>1, <2>4, <2>5, <2>6 DEF VectorsHold
<1>8. RankHolds("confirming", c, s, sc, V, be)'
  BY <1>1, <1>6, <1>7 DEF RankHolds, VectorsHold, CachedFor
<1>9. RetrievalHolds'
  BY <1>5, <1>8, RetrievalRestated
<1>10. CacheHolds' /\ CandidatesHold'
  BY <1>1 DEF RetrievalInv, CacheHolds, CandidatesHold, Range
<1> QED
  BY <1>9, <1>10 DEF RetrievalInv

LEMMA JoinFacts ==
  ASSUME NEW E, NEW q \in Seq(E), NEW r \in Seq(E)
  PROVE  /\ q \o r \in Seq(E) /\ Len(q \o r) = Len(q) + Len(r)
         /\ Len(q) \in Nat /\ Len(r) \in Nat
         /\ \A i \in 1..Len(q) : (q \o r)[i] = q[i]
         /\ \A i \in (Len(q) + 1)..(Len(q) + Len(r)) : (q \o r)[i] = r[i - Len(q)]
OBVIOUS

(* The newest of entries are some of them, each once, and not too many.    *)
LEMMA NewestFacts ==
  ASSUME NEW E, NEW q \in Seq(E)
  PROVE  /\ KeepNewest(q) \in Seq(E) /\ Len(KeepNewest(q)) <= CacheEntries
         /\ \E d \in Nat : \A i \in DOMAIN KeepNewest(q) :
              i \in Nat /\ i + d \in DOMAIN q /\ KeepNewest(q)[i] = q[i + d]
<1>1. Len(q) \in Nat /\ DOMAIN q = 1..Len(q) /\ CacheEntries \in Nat
  BY DiscoveryAssumption
<1>2. CASE Len(q) <= CacheEntries
  <2>1. KeepNewest(q) = q
    BY <1>2 DEF KeepNewest
  <2>2. \A i \in DOMAIN q : i \in Nat /\ i + 0 \in DOMAIN q /\ q[i] = q[i + 0]
    BY <1>1
  <2> QED
    BY <1>2, <2>1, <2>2
<1>3. CASE ~(Len(q) <= CacheEntries)
  <2> DEFINE d == Len(q) - CacheEntries
             n == KeepNewest(q)
  <2>1. d \in Nat /\ \A i \in 1..CacheEntries : i + d \in 1..Len(q)
    BY <1>1, <1>3
  <2>2. n = [i \in 1..CacheEntries |-> q[i + d]]
    BY <1>3 DEF KeepNewest
  <2> HIDE DEF d, n
  <2>3. \A i \in 1..CacheEntries : q[i + d] \in E
    BY <1>1, <2>1
  <2>4. n \in Seq(E) /\ Len(n) = CacheEntries /\ DOMAIN n = 1..CacheEntries
    BY <1>1, <2>2, <2>3
  <2>5. \A i \in DOMAIN n : i \in Nat /\ i + d \in DOMAIN q /\ n[i] = q[i + d]
    BY <1>1, <2>1, <2>2, <2>4
  <2>6. Len(n) <= CacheEntries
    BY <1>1, <2>4
  <2> QED
    BY <2>1, <2>4, <2>5, <2>6 DEF n
<1> QED
  BY <1>2, <1>3

EntriesHold(q) ==
  /\ \A i \in DOMAIN q : q[i].vector = Embedding(q[i].key.text) /\ q[i].since = generation
  /\ \A i, j \in DOMAIN q : q[i].key = q[j].key => i = j

LEMMA NewestHold ==
  ASSUME NEW E, NEW q \in Seq(E), EntriesHold(q), cache' = KeepNewest(q), UNCHANGED generation
  PROVE  CacheHolds'
<1>1. PICK n : n = KeepNewest(q)
  OBVIOUS
<1>2. PICK d \in Nat : \A i \in DOMAIN n : i \in Nat /\ i + d \in DOMAIN q /\ n[i] = q[i + d]
  BY <1>1, NewestFacts
<1>3. n \in Seq(E) /\ Len(n) <= CacheEntries
  BY <1>1, NewestFacts
<1>4. \A i \in DOMAIN n : n[i].vector = Embedding(n[i].key.text) /\ n[i].since = generation
  BY <1>2 DEF EntriesHold
<1>5. \A i, j \in DOMAIN n : n[i].key = n[j].key => i = j
  <2> TAKE i, j \in DOMAIN n
  <2> HAVE n[i].key = n[j].key
  <2>1. i + d = j + d /\ i \in Nat /\ j \in Nat
    BY <1>2 DEF EntriesHold
  <2> QED
    BY <2>1
<1>6. n \in Seq(Range(n))
  <2>1. \A i \in 1..Len(n) : n[i] \in Range(n)
    BY <1>3 DEF Range
  <2> QED
    BY <1>3, <2>1, SeqNarrowed
<1> QED
  BY <1>1, <1>3, <1>4, <1>5, <1>6 DEF CacheHolds

LEMMA RankStepKeeps ==
  ASSUME RetrievalInv, rank
  PROVE  RetrievalInv'
<1>1. retrieval # Idle /\ retrieval' = Idle /\ UNCHANGED generation
  BY DEF rank, Idle
<1>2. PICK ph, c, sc, fi, ve, be :
        /\ RankHolds(ph, c, sc, fi, ve, be) /\ retrieval.phase = ph
        /\ retrieval.caller = c /\ retrieval.first = fi /\ retrieval.vectors = ve
        /\ retrieval.began = be
  BY <1>1, RetrievalFields
<1>3. /\ TextsHold(c, fi.texts, fi.complete) /\ VectorsHold(fi.texts, ve, be)
  BY <1>2 DEF RankHolds, rank
<1>4. CandidatesHold'
  <2>1. PICK a, b : a = answered' /\ b = fi.complete
    OBVIOUS
  <2>2. a = [phase |-> "candidates", caller |-> c, complete |-> b, ranked |-> ve]
    BY <1>2, <2>1 DEF rank
  <2>3. a.caller = c /\ a.complete = b /\ a.ranked = ve
    BY <2>2, Zenon
  <2>4. \A v \in ve : v.key \in fi.texts /\ v.vector = Embedding(v.key.text)
    BY <1>3 DEF VectorsHold
  <2>5. \A k \in fi.texts : \E v \in ve : v.key = k
    BY <1>3 DEF VectorsHold
  <2>6. \A v \in ve : v.key.caller = c
    BY <1>3, <2>4 DEF TextsHold
  <2>7. ASSUME b, NEW v \in ve, NEW e \in v.key.pin.snapshot.endpoints
        PROVE  \E w \in ve : w.key.pin = v.key.pin /\ w.key.endpoint = e
    <3>1. PICK k \in fi.texts : k.pin = v.key.pin /\ k.endpoint = e
      BY <1>3, <2>1, <2>4, <2>7 DEF TextsHold
    <3> QED
      BY <2>5, <3>1
  <2> QED
    BY <2>1, <2>3, <2>4, <2>6, <2>7 DEF CandidatesHold
<1>5. CacheHolds'
  <2>1. CASE ~Uncleared
    BY <1>1, <2>1 DEF rank, RetrievalInv, CacheHolds, Range
  <2>2. CASE Uncleared
    <3> DEFINE new == {v \in ve : v.new}
    <3>1. PICK order \in Orders(new) : cache' = KeepNewest(cache \o CacheRows(order))
      BY <1>2, <2>2 DEF rank
    <3>2. be = generation
      BY <1>2, <2>2 DEF Uncleared
    <3>3. \A v \in new : v \in ve /\ v.vector = Embedding(v.key.text) /\ CachedFor(v.key) = {}
      BY <1>3, <3>2 DEF VectorsHold
    <3>4. IsFiniteSet(new) /\ Cardinality(new) \in Nat
      BY <1>3, FS_Subset, FS_CardinalityType DEF VectorsHold
    <3> DEFINE m == Len(cache)
               k == Cardinality(new)
    <3>5. \A v, w \in new : v.key = w.key => v = w
      BY <1>3 DEF VectorsHold
    <3> HIDE DEF new
    <3>6. order \in [1..k -> new] /\ \A i, j \in 1..k : order[i] = order[j] => i = j
      BY <3>1 DEF Orders, IsInjective
    <3>7. PICK r : r = CacheRows(order)
      OBVIOUS
    <3>8. /\ DOMAIN r = 1..k
          /\ \A i \in 1..k : /\ r[i].key = order[i].key /\ r[i].vector = order[i].vector
                             /\ r[i].since = generation
      BY <1>2, <3>2, <3>6, <3>7 DEF CacheRows
    <3> DEFINE E == Range(cache) \cup Range(r)
    <3>9. cache \in Seq(E) /\ r \in Seq(E) /\ DOMAIN cache = 1..m /\ m \in Nat /\ Len(r) = k
      <4>1. cache \in Seq(Range(cache))
        BY DEF RetrievalInv, CacheHolds
      <4>2. \A i \in 1..k : r[i] \in Range(r)
        BY <3>8 DEF Range
      <4>3. r = [i \in 1..k |-> r[i]]
        BY <3>7, <3>8 DEF CacheRows
      <4>4. r \in Seq(Range(r)) /\ Len(r) = k
        BY <3>4, <3>8, <4>2, <4>3
      <4> QED
        BY <4>1, <4>4
    <3> HIDE DEF E
    <3>10. PICK q : q = cache \o r
      OBVIOUS
    <3>11. /\ q \in Seq(E) /\ DOMAIN q = 1..(m + k)
           /\ \A i \in 1..m : q[i] = cache[i]
           /\ \A i \in (m + 1)..(m + k) : q[i] = r[i - m] /\ i - m \in 1..k
      <4>1. /\ q \in Seq(E) /\ Len(q) = m + k
            /\ \A i \in 1..m : q[i] = cache[i]
            /\ \A i \in (m + 1)..(m + k) : q[i] = r[i - m]
        <5>1. /\ cache \o r \in Seq(E) /\ Len(cache \o r) = Len(cache) + Len(r)
              /\ \A i \in 1..Len(cache) : (cache \o r)[i] = cache[i]
              /\ \A i \in (Len(cache) + 1)..(Len(cache) + Len(r)) :
                   (cache \o r)[i] = r[i - Len(cache)]
          BY ONLY <3>9, JoinFacts
        <5> QED
          BY <3>9, <3>10, <5>1
      <4> QED
        BY <3>4, <3>9, <4>1
    <3>12. /\ \A i \in 1..m : /\ cache[i].vector = Embedding(cache[i].key.text)
                              /\ cache[i].since = generation
           /\ \A i, j \in 1..m : cache[i].key = cache[j].key => i = j
      BY <3>9 DEF RetrievalInv, CacheHolds
    <3>13. \A i \in 1..k : r[i].vector = Embedding(r[i].key.text) /\ r[i].since = generation
      BY <3>3, <3>6, <3>8
    <3>14. \A i, j \in 1..k : r[i].key = r[j].key => i = j
      BY <3>5, <3>6, <3>8
    <3>15. \A i \in 1..m, j \in 1..k : cache[i].key # r[j].key
      <4> TAKE i \in 1..m, j \in 1..k
      <4>1. order[j] \in new /\ r[j].key = order[j].key
        BY <3>6, <3>8
      <4>2. CachedFor(r[j].key) = {}
        BY <3>3, <4>1
      <4>3. cache[i] \in Range(cache)
        BY <3>9 DEF Range
      <4> QED
        BY <4>2, <4>3 DEF CachedFor
    <3>16. \A i \in DOMAIN q : i \in 1..m \/ i \in (m + 1)..(m + k)
      BY <3>4, <3>9, <3>11
    <3> HIDE DEF m, k
    <3>17. \A i \in DOMAIN q : q[i].vector = Embedding(q[i].key.text) /\ q[i].since = generation
      BY <3>11, <3>12, <3>13, <3>16
    <3>18. \A i, j \in DOMAIN q : q[i].key = q[j].key => i = j
      <4> TAKE i, j \in DOMAIN q
      <4> HAVE q[i].key = q[j].key
      <4>1. CASE i \in 1..m /\ j \in 1..m
        BY <3>11, <3>12, <4>1
      <4>2. CASE i \in (m + 1)..(m + k) /\ j \in (m + 1)..(m + k)
        <5>1. i - m = j - m
          BY <3>11, <3>14, <4>2
        <5> QED
          BY <3>9, <4>2, <5>1
      <4>3. CASE i \in 1..m /\ j \in (m + 1)..(m + k)
        BY <3>11, <3>15, <4>3
      <4>4. CASE i \in (m + 1)..(m + k) /\ j \in 1..m
        BY <3>11, <3>15, <4>4
      <4> QED
        BY <3>16, <4>1, <4>2, <4>3, <4>4
    <3>19. EntriesHold(q)
      BY <3>17, <3>18 DEF EntriesHold
    <3> QED
      BY <1>1, <3>1, <3>7, <3>10, <3>11, <3>19, NewestHold
  <2> QED
    BY <2>1, <2>2
<1>6. RetrievalHolds'
  BY <1>1 DEF RetrievalHolds
<1> QED
  BY <1>4, <1>5, <1>6 DEF RetrievalInv

LEMMA AbandonRetrievalKeeps ==
  ASSUME RetrievalInv, abandonRetrieval
  PROVE  RetrievalInv'
<1>1. retrieval' = Idle /\ UNCHANGED cache /\ UNCHANGED generation /\ UNCHANGED answered
  BY DEF abandonRetrieval
<1> QED
  BY <1>1 DEF RetrievalInv, RetrievalHolds, CacheHolds, CandidatesHold, Range

LEMMA ClearCacheKeeps ==
  ASSUME RetrievalInv, clearCache
  PROVE  RetrievalInv'
<1>1. cache' = <<>> /\ UNCHANGED retrieval /\ UNCHANGED answered
  BY DEF clearCache
<1>2. CacheHolds' /\ \A k : CachedFor(k)' = {}
  BY <1>1, DiscoveryAssumption DEF CacheHolds, CachedFor, Range
<1>3. RetrievalHolds'
  BY <1>1, <1>2 DEF RetrievalInv, RetrievalHolds, RankHolds, VectorsHold
<1> QED
  BY <1>1, <1>2, <1>3 DEF RetrievalInv, CandidatesHold

LEMMA RetrievalStarts == DiscoveryInit => RetrievalInv
BY DiscoveryAssumption
   DEF DiscoveryInit, RetrievalInv, CacheHolds, RetrievalHolds, CandidatesHold, Range, Idle

(* Every reachable state of a retrieval: what it has scanned is the        *)
(* caller's, its vectors are of those texts, and the cache's of their keys.*)
THEOREM RetrievalInvariant == DiscoverySpec => []RetrievalInv
<1>1. SemanticInv /\ RetrievalInv /\ [DiscoveryNext]_semanticVars => RetrievalInv'
  <2> SUFFICES ASSUME SemanticInv, RetrievalInv, [DiscoveryNext]_semanticVars
               PROVE  RetrievalInv'
    OBVIOUS
  <2>1. CASE UNCHANGED semanticVars \/ WorldNext \/ InferenceNext
    <3>1. UNCHANGED <<retrieval, cache, generation>> /\ UNCHANGED answered
      BY <2>1 DEF semanticVars, discoveryVars, WorldNext, InferenceNext
    <3> QED
      BY <3>1, RetrievalStays
  <2>2. CASE AnswerNext
    <3>1. UNCHANGED <<retrieval, cache, generation>> /\ UNCHANGED answered
      BY <2>2 DEF AnswerNext, answerCall, discardCall
    <3> QED
      BY <3>1, RetrievalStays
  <2>3. CASE CorpusNext
    <3>1. searchAgain => answered'.phase = "groups"
      <4>1. PICK c, g, s : searchAgain => answered' = [phase |-> "groups", caller |-> c, groups |-> g,
                                                       shortlist |-> s]
        BY DEF searchAgain
      <4> QED
        BY <4>1
    <3>2. /\ UNCHANGED <<retrieval, cache, generation>>
          /\ UNCHANGED answered \/ answered'.phase = "groups"
      BY <2>3, <3>1 DEF CorpusNext, searchFirst, askGroup, skipGroup, searchAgain, abandonDiscovery
    <3> QED
      BY <3>2, RetrievalStays
  <2>4. CASE RetrievalNext
    <3>1. ServedTyped
      BY DEF SemanticInv
    <3> QED
      BY <2>4, <3>1, BeginRetrievalKeeps, ScanServiceKeeps, EmbedMissingKeeps, RankStepKeeps,
         AbandonRetrievalKeeps, ClearCacheKeeps DEF RetrievalNext
  <2> QED
    BY <2>1, <2>2, <2>3, <2>4 DEF DiscoveryNext
<1> QED
  BY <1>1, RetrievalStarts, SemanticInvariant, PTL DEF DiscoverySpec

(* A ranking uses the vector of the very text it ranks, nothing computed   *)
(* before a clearCache is in the cache after it, and a complete ranking    *)
(* has every endpoint of its services (RetrievalIsSound), for any capacity *)
(* of the cache and any contracts.                                         *)
THEOREM RetrievalHonest == DiscoverySpec => []RetrievalIsSound
BY RetrievalInvariant, RetrievalSound, PTL

(* The recorded answers, their reviews, a discovery's groups and a         *)
(* retrieval's ranking are sound, whatever changes around them.            *)
THEOREM AnswersGrounded == DiscoverySpec => []AnswersAreGrounded
BY HistoryGrounded, ReviewsChained, DiscoveryConsistent, RetrievalHonest, PTL
   DEF AnswersAreGrounded
=============================================================================
