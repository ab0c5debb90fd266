--------------------------- MODULE FieldPresence ----------------------------
(***************************************************************************)
(* Observed field presence of one service in one environment: metadata     *)
(* imported from a log source, the owner's policies, the derived rows that *)
(* say which fields were present, their expiry and deletion, and the reads *)
(* of both.  Every operation is one transaction under the lock of the      *)
(* environment; only importObservation reads its source between two.       *)
(* A call without the grants changes nothing and is no step.  One policy   *)
(* identifier; what the payload held is left out, a row is its key.        *)
(***************************************************************************)
EXTENDS Naturals, Sequences, FiniteSets

CONSTANTS
  Activations,     \* the fingerprint of each configuration, as activated
  MaxVersion,      \* bound: versions of the serving checkpoint
  MaxTime,         \* bound: the clock of the database
  MaxRevision,     \* bound: revisions of the policy
  Policies,        \* what an owner may approve: [lifetime, budget]
  MaxImports,      \* bound: batches of metadata
  Batches,         \* what a batch may hold: [confirmed, unresolved]
  WindowEnds,      \* when the window of a batch may end
  MaxImporting,    \* bound: calls of importObservation under way
  Limits           \* limits of a cleanup and of a read

ASSUME PresenceAssumption ==
  /\ Activations # <<>>
  /\ \A p \in Policies : p.lifetime \in Nat \ {0} /\ p.budget \in Nat \ {0}
  /\ Limits \subseteq Nat \ {0} /\ WindowEnds \subseteq Nat

VARIABLES
  activation,      \* orchestration_active_configurations.checkpoint_version
  serving,         \* the environment's checkpoint and the snapshot it selects
  now,             \* clock_timestamp()
  policies,        \* observation_field_presence_policy_revisions, by revision
  enabled,         \* the policy head: it points at the last revision
  imports,         \* observation_imports with their observation_records
  importing,       \* calls between their two transactions
  results,         \* observation_field_presence_results
  tombstones       \* observation_field_presence_tombstones

PresenceInit ==
  /\ activation = 1 /\ now = 0
  /\ serving = [version |-> 1, config |-> Activations[1], reconcile |-> FALSE]
  /\ policies = <<>> /\ enabled = FALSE
  /\ imports = <<>> /\ importing = {} /\ results = {} /\ tombstones = {}

ActiveConfig == Activations[activation]
Pin == [version |-> serving.version, config |-> serving.config]

(* What every transaction on a pinned environment checks under the lock.   *)
authorizePinned(pin) == pin = Pin /\ pin.config = ActiveConfig /\ ~serving.reconcile

-----------------------------------------------------------------------------
(* The environment of the store.                                           *)
Activate ==
  /\ activation < Len(Activations) /\ activation' = activation + 1
  /\ UNCHANGED <<serving, now, policies, enabled, imports, importing, results, tombstones>>

(* Another observation becomes current, perhaps of an older configuration, *)
(* perhaps in need of reconciliation.                                      *)
Serve ==
  /\ serving.version < MaxVersion
  /\ \E i \in 1..activation, reconcile \in BOOLEAN :
       serving' = [version |-> serving.version + 1, config |-> Activations[i],
                   reconcile |-> reconcile]
  /\ UNCHANGED <<activation, now, policies, enabled, imports, importing, results, tombstones>>

Tick ==
  /\ now < MaxTime /\ now' = now + 1
  /\ UNCHANGED <<activation, serving, policies, enabled, imports, importing, results, tombstones>>

-----------------------------------------------------------------------------
(* The owner: approve names the revision it replaces and the activation it *)
(* was written for; an approved revision never changes.                    *)
approve ==
  /\ authorizePinned(Pin) /\ Len(policies) < MaxRevision
  /\ \E p \in Policies :
       policies' = Append(policies,
         [activation |-> activation, lifetime |-> p.lifetime, budget |-> p.budget])
  /\ enabled' = TRUE
  /\ UNCHANGED <<activation, serving, now, imports, importing, results, tombstones>>

disable ==
  /\ enabled /\ enabled' = FALSE
  /\ UNCHANGED <<activation, serving, now, policies, imports, importing, results, tombstones>>

(* The importer of metadata: the window may end after the batch arrives.   *)
importBatch ==
  /\ authorizePinned(Pin) /\ Len(imports) < MaxImports
  /\ \E b \in Batches, end \in WindowEnds :
       imports' = Append(imports, [pin |-> Pin, at |-> now, end |-> end,
                                   confirmed |-> b.confirmed, unresolved |-> b.unresolved])
  /\ UNCHANGED <<activation, serving, now, policies, enabled, importing, results, tombstones>>

-----------------------------------------------------------------------------
(* The importer of presence.                                               *)
PolicyInForce(revision) ==
  enabled /\ revision = Len(policies) /\ policies[revision].activation = activation

RecordedTwice(import, record) ==
  \E i \in DOMAIN imports \ {import} :
    record \in imports[i].confirmed \cup imports[i].unresolved

(* The pin of the request is not compared with the import's.               *)
BugAnyImport(q) ==
  /\ q.record \in imports[q.import].confirmed
  /\ ~RecordedTwice(q.import, q.record)
  /\ imports[q.import].end <= imports[q.import].at
  /\ imports[q.import].end + policies[q.revision].lifetime > now

loadState(q) ==
  /\ q.record \in imports[q.import].confirmed /\ imports[q.import].pin = q.pin
  /\ ~RecordedTwice(q.import, q.record)
  /\ imports[q.import].end <= imports[q.import].at
  /\ imports[q.import].end + policies[q.revision].lifetime > now

(* discoverConfigEpoch and the first transaction: nothing is written.      *)
beginImport(q) ==
  /\ Cardinality(importing) < MaxImporting /\ q \notin importing
  /\ authorizePinned(q.pin) /\ PolicyInForce(q.revision) /\ loadState(q)
  /\ importing' = importing \cup {q}
  /\ UNCHANGED <<activation, serving, now, policies, enabled, imports, results, tombstones>>

Key(x) == <<x.revision, x.import, x.record>>
Live == {r \in results : r.expires > now}

(* The trigger on the insertion: no deleted generation comes back, and the *)
(* rows nobody can read any more count against the budget until they expire.*)
insertGuard(q) ==
  /\ Key(q) \notin tombstones
  /\ \A r \in results : Key(r) # Key(q)
  /\ Cardinality(Live) < policies[q.revision].budget

Row(q) ==
  [revision |-> q.revision, import |-> q.import, record |-> q.record,
   expires |-> imports[q.import].end + policies[q.revision].lifetime,
   created |-> Cardinality(results) + Cardinality(tombstones),
   seen |-> [pin |-> q.pin, activation |-> activation]]       \* history

(* The second transaction checks all of it again.                          *)
storeResult(q) ==
  /\ authorizePinned(q.pin) /\ PolicyInForce(q.revision) /\ loadState(q) /\ insertGuard(q)
  /\ results' = results \cup {Row(q)} /\ importing' = importing \ {q}
  /\ UNCHANGED <<activation, serving, now, policies, enabled, imports, tombstones>>

(* Refused, already there, timed out or crashed.                           *)
abandonImport(q) ==
  /\ importing' = importing \ {q}
  /\ UNCHANGED <<activation, serving, now, policies, enabled, imports, results, tombstones>>

-----------------------------------------------------------------------------
(* Maintenance: rows that expired or that no read shows any more, oldest   *)
(* expiry first, at most limit of them.                                    *)
Removable ==
  {r \in results : r.expires <= now \/ ~enabled \/ r.revision # Len(policies)}
Precedes(r, s) ==
  r.expires < s.expires \/ (r.expires = s.expires /\ r.revision <= s.revision)

cleanup ==
  /\ \E limit \in Limits, gone \in SUBSET Removable :
       /\ gone # {} /\ Cardinality(gone) <= limit
       /\ Cardinality(gone) = limit \/ gone = Removable
       /\ \A r \in gone, s \in Removable \ gone : Precedes(r, s)
       /\ results' = results \ gone /\ tombstones' = tombstones \cup {Key(r) : r \in gone}
  /\ UNCHANGED <<activation, serving, now, policies, enabled, imports, importing>>

PresenceNext ==
  \/ Activate \/ Serve \/ Tick
  \/ approve \/ disable \/ importBatch \/ cleanup
  \/ \E i \in DOMAIN imports : \E r \in imports[i].confirmed :
       beginImport([revision |-> Len(policies), import |-> i, record |-> r, pin |-> Pin])
  \/ \E q \in importing : storeResult(q) \/ abandonImport(q)

presenceVars == <<activation, serving, now, policies, enabled, imports, importing,
                  results, tombstones>>
PresenceSpec == PresenceInit /\ [][PresenceNext]_presenceVars

-----------------------------------------------------------------------------
(* The reads.  A page holds the newest rows, one more than the limit to    *)
(* tell whether there are others.                                          *)
Readable(pin, revision) == authorizePinned(pin) /\ PolicyInForce(revision)
Found(pin, revision) ==
  {r \in Live : r.revision = revision /\ imports[r.import].pin = pin
                /\ r.record \in imports[r.import].confirmed}
Newest(rows, n) == {r \in rows : Cardinality({s \in rows : s.created > r.created}) < n}
PageAmbiguous(rows) == \E r \in rows : RecordedTwice(r.import, r.record)

presenceRead(pin, revision, limit) ==
  IF ~Readable(pin, revision) \/ PageAmbiguous(Newest(Found(pin, revision), limit + 1))
  THEN [status |-> "refused", rows |-> {}, truncated |-> FALSE]
  ELSE [status |-> "resolved", rows |-> Newest(Found(pin, revision), limit),
        truncated |-> Cardinality(Found(pin, revision)) > limit]

(* The records readMetadataObservations shows, of either status.           *)
metadataRead(pin) ==
  IF ~authorizePinned(pin) THEN {}
  ELSE UNION {{<<i, r>> : r \in imports[i].confirmed \cup imports[i].unresolved} :
                i \in {j \in DOMAIN imports : imports[j].pin = pin}}

-----------------------------------------------------------------------------
(* A generation that was deleted is never written again, and none is       *)
(* written twice (0003_field_presence_retention.sql).                      *)
DeletedStaysDeleted ==
  /\ \A r \in results : Key(r) \notin tombstones
  /\ \A r, s \in results : Key(r) = Key(s) => r = s

(* When a row was written the unexpired rows, of every revision, were      *)
(* within the budget of its policy, whatever was deleted since.            *)
BudgetHolds ==
  \A r \in Live : Cardinality({s \in Live : s.created <= r.created}) <= policies[r.revision].budget

(* A row stands for a record confirmed for the selection it was asked for, *)
(* written while the policy's own activation was in force: not another one *)
(* of the same fingerprint.                                                *)
RowsAreGrounded ==
  \A r \in results :
    /\ r.seen.pin = imports[r.import].pin /\ r.record \in imports[r.import].confirmed
    /\ r.seen.pin.config = Activations[r.seen.activation]
    /\ r.seen.activation = policies[r.revision].activation

(* What a read shows was attested for the selection and the activation in  *)
(* force, is unexpired and unambiguous, is shown by the metadata read too, *)
(* and is all there is unless it says truncated.                           *)
ReadsAreTrue ==
  \A revision \in DOMAIN policies, limit \in Limits :
    LET read == presenceRead(Pin, revision, limit)
    IN  read.status = "resolved" =>
          /\ \A r \in read.rows :
               /\ r.seen = [pin |-> Pin, activation |-> activation] /\ r.expires > now
               /\ <<r.import, r.record>> \in metadataRead(Pin)
               /\ ~RecordedTwice(r.import, r.record)
          /\ ~read.truncated =>
               \A r \in Live : r.revision = revision /\ r.seen.pin = Pin => r \in read.rows

(* Presence is kept and shown only as the policy in force allows           *)
(* (migrations/0003_field_presence_retention.sql).                         *)
PresenceIsSound == DeletedStaysDeleted /\ BudgetHolds /\ RowsAreGrounded /\ ReadsAreTrue
=============================================================================
