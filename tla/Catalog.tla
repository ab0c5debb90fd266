------------------------------- MODULE Catalog -------------------------------
(***************************************************************************)
(* The contract catalog (packages/catalog): immutable snapshots and the    *)
(* pointer of one branch, written by transactions of several writers, and  *)
(* read under the access policy in force.  A transaction takes its locks   *)
(* and reads in one step and commits, or is rolled back, in a later one.   *)
(*                                                                         *)
(* A completion is what a branch analysis job does with one transaction:   *)
(* it stores its snapshot and promotes it with the pointer it has read.    *)
(* An order is a sequence number, or 0 for one that cannot be compared.    *)
(***************************************************************************)
EXTENDS Naturals, Sequences

CONSTANTS
  Writers, Readers, Scopes,
  Ingestions,       \* analysis results under a configuration, as rows to store
  Promotions,       \* what writers ask to promote: snapshot, provider, order, expected
  MaxPromoted,      \* bound on the pointer's version
  MaxPolicyChanges  \* bound on changes of the access policy

SnapshotIds == {i.id : i \in Ingestions}
Unconditional == 99   \* no expectation; 0 expects no pointer
NoPointer == [version |-> 0, id |-> "none", provider |-> "none", order |-> 0]
NoRow  == [id |-> "none"]
Nobody == "nobody"
Ready  == [kind |-> "none", reply |-> "none"]

ASSUME RowsHaveScopes == \A i \in Ingestions : i.scopes # {} /\ i.scopes \subseteq Scopes
ASSUME RowsAreRows == \A i \in Ingestions : i # NoRow
ASSUME PromotionsAreOfSnapshots ==
  \A p \in Promotions : p.id \in SnapshotIds /\ p.order \in Nat /\ p.expected \in Nat
ASSUME NobodyWrites == Nobody \notin Writers
ASSUME VersionsAreNot == MaxPromoted \in Nat /\ Unconditional > MaxPromoted

VARIABLES
  scopeState,   \* access_scopes
  grants,       \* principal_scope_grants
  policyChanges,
  snapshots,    \* catalog_snapshots
  head,         \* the row of catalog_branch_pointers
  branchLock,   \* who holds the advisory lock of the branch
  writing,      \* each writer's transaction and its last reply
  promoted,     \* every promotion committed, with the row it made visible
  shown        \* what each reader was last answered

catalogVars == <<scopeState, grants, policyChanges, snapshots, head, branchLock, writing,
                 promoted, shown>>

-----------------------------------------------------------------------------
(* lockRequiredScopes holds the rows of every scope of the snapshot.       *)
Holds(w) == IF writing[w].kind \in {"ingest", "complete"} THEN writing[w].row.scopes ELSE {}
Locked == UNION {Holds(w) : w \in Writers}
ScopesActive(scopes) == \A s \in scopes : scopeState[s] = "active"

(* A row with the same identity, content, status and scopes.               *)
SameRow(stored, row) == stored = row
Stored(row) == IF snapshots[row.id] = NoRow THEN row ELSE snapshots[row.id]
(* ON CONFLICT DO NOTHING, and what is there is compared.                  *)
MayIngest(row) == SameRow(Stored(row), row)
Ingested(row) == [snapshots EXCEPT ![row.id] = Stored(row)]

(* assertPromotionOrder, against the pointer read under the lock.          *)
Replay(current, p) ==
  /\ current.version > 0 /\ current.id = p.id
  /\ current.provider = p.provider /\ current.order = p.order
Comparable(current, p) ==
  current.provider = p.provider /\ current.order > 0 /\ p.order > 0
MayPromote(current, p) ==
  /\ p.expected # Unconditional => p.expected = current.version
  /\ IF current.version > 0 /\ Comparable(current, p) THEN p.order > current.order
     ELSE p.expected # Unconditional \/ (current.version = 0 /\ p.order > 0)

PointerTo(p) == [version |-> head.version + 1, id |-> p.id, provider |-> p.provider, order |-> p.order]
Promoted(p, rows) == Append(promoted, [request |-> p, row |-> rows[p.id]])

-----------------------------------------------------------------------------
Reply(w, reply) == writing' = [writing EXCEPT ![w] = [kind |-> "none", reply |-> reply, row |-> @.row]]
Release(w) == branchLock' = IF branchLock = w THEN Nobody ELSE branchLock

(* ingestAnalyzerResult, by itself.                                        *)
BeginIngest(w, row) ==
  /\ writing[w].kind = "none" /\ row.scopes \cap Locked = {}
  /\ ScopesActive(row.scopes)
  /\ writing' = [writing EXCEPT ![w] = [kind |-> "ingest", row |-> row, saw |-> head,
                                        request |-> Ready, reply |-> "none"]]
  /\ UNCHANGED <<scopeState, grants, policyChanges, snapshots, head, branchLock, promoted, shown>>
CommitIngest(w) ==
  LET row == writing[w].row IN
  /\ writing[w].kind = "ingest"
  /\ IF MayIngest(row) THEN snapshots' = Ingested(row) /\ Reply(w, "stored")
     ELSE UNCHANGED snapshots /\ Reply(w, "conflict")
  /\ UNCHANGED <<scopeState, grants, policyChanges, head, branchLock, promoted, shown>>

(* promoteBranch takes the branch's lock before it reads the pointer.      *)
BugNoLock(w, p) ==
  /\ writing[w].kind = "none"
  /\ writing' = [writing EXCEPT ![w] = [kind |-> "promote", row |-> NoRow, saw |-> head,
                                        request |-> p, reply |-> "none"]]
  /\ UNCHANGED <<scopeState, grants, policyChanges, snapshots, head, branchLock, promoted, shown>>
BeginPromote(w, p) ==
  /\ writing[w].kind = "none" /\ branchLock = Nobody
  /\ branchLock' = w
  /\ writing' = [writing EXCEPT ![w] = [kind |-> "promote", row |-> NoRow, saw |-> head,
                                        request |-> p, reply |-> "none"]]
  /\ UNCHANGED <<scopeState, grants, policyChanges, snapshots, head, promoted, shown>>
CommitPromote(w) ==
  LET p == writing[w].request  saw == writing[w].saw IN
  /\ writing[w].kind = "promote"
  /\ \/ /\ \/ snapshots[p.id] = NoRow
           \/ ~Replay(saw, p) /\ ~MayPromote(saw, p)
        /\ Reply(w, "refused") /\ UNCHANGED <<head, promoted>>
     \/ /\ snapshots[p.id] # NoRow /\ Replay(saw, p)
        /\ Reply(w, "existing") /\ UNCHANGED <<head, promoted>>
     \/ /\ snapshots[p.id] # NoRow /\ ~Replay(saw, p) /\ MayPromote(saw, p)
        /\ head.version < MaxPromoted
        /\ head' = PointerTo(p) /\ promoted' = Promoted(p, snapshots)
        /\ Reply(w, "promoted")
  /\ Release(w)
  /\ UNCHANGED <<scopeState, grants, policyChanges, snapshots, shown>>

(* A job's completion: both, in one transaction, or neither.               *)
BeginCompletion(w, row, provider, order) ==
  /\ writing[w].kind = "none" /\ branchLock = Nobody /\ row.scopes \cap Locked = {}
  /\ ScopesActive(row.scopes)
  /\ branchLock' = w
  /\ writing' = [writing EXCEPT ![w] =
       [kind |-> "complete", row |-> row, saw |-> head, reply |-> "none",
        request |-> [id |-> row.id, provider |-> provider, order |-> order,
                     expected |-> head.version]]]
  /\ UNCHANGED <<scopeState, grants, policyChanges, snapshots, head, promoted, shown>>
CommitCompletion(w) ==
  LET row == writing[w].row  p == writing[w].request  saw == writing[w].saw IN
  /\ writing[w].kind = "complete"
  /\ \/ /\ ~MayIngest(row) \/ (~Replay(saw, p) /\ ~MayPromote(saw, p))
        /\ Reply(w, "refused") /\ UNCHANGED <<snapshots, head, promoted>>
     \/ /\ MayIngest(row) /\ Replay(saw, p)
        /\ snapshots' = Ingested(row) /\ Reply(w, "existing") /\ UNCHANGED <<head, promoted>>
     \/ /\ MayIngest(row) /\ ~Replay(saw, p) /\ MayPromote(saw, p)
        /\ head.version < MaxPromoted
        /\ snapshots' = Ingested(row) /\ head' = PointerTo(p)
        /\ promoted' = Promoted(p, Ingested(row)) /\ Reply(w, "promoted")
  /\ Release(w)
  /\ UNCHANGED <<scopeState, grants, policyChanges, shown>>

(* A writer that dies, or an error, rolls its transaction back.            *)
Rollback(w) ==
  /\ writing[w].kind # "none"
  /\ writing' = [writing EXCEPT ![w] = Ready] /\ Release(w)
  /\ UNCHANGED <<scopeState, grants, policyChanges, snapshots, head, promoted, shown>>

-----------------------------------------------------------------------------
(* putScope waits for the transactions that hold the scope's row, and so   *)
(* does a first grant of the scope, by its foreign key.                    *)
PutScope(s, active) ==
  /\ policyChanges < MaxPolicyChanges /\ s \notin Locked
  /\ scopeState' = [scopeState EXCEPT ![s] = IF active THEN "active" ELSE "inactive"]
  /\ policyChanges' = policyChanges + 1
  /\ UNCHANGED <<grants, snapshots, head, branchLock, writing, promoted, shown>>
PutGrant(p, s, active) ==
  /\ policyChanges < MaxPolicyChanges /\ scopeState[s] # "unknown"
  /\ grants[<<p, s>>] = "none" => s \notin Locked
  /\ grants' = [grants EXCEPT ![<<p, s>>] = IF active THEN "active" ELSE "inactive"]
  /\ policyChanges' = policyChanges + 1
  /\ UNCHANGED <<scopeState, snapshots, head, branchLock, writing, promoted, shown>>

(* getSnapshot and resolveBranch, each in one statement.                   *)
MayRead(p, row) ==
  row # NoRow /\ \A s \in row.scopes : scopeState[s] = "active" /\ grants[<<p, s>>] = "active"
ResolveBranch(p) ==
  /\ shown' = [shown EXCEPT ![p] =
       IF head.version > 0 /\ MayRead(p, snapshots[head.id])
       THEN [version |-> head.version, row |-> snapshots[head.id]]
       ELSE [version |-> 0, row |-> NoRow]]
  /\ UNCHANGED <<scopeState, grants, policyChanges, snapshots, head, branchLock, writing, promoted>>

CatalogInit ==
  /\ scopeState \in {[s \in Scopes |-> "active"]} \cup
                    {[[s \in Scopes |-> "active"] EXCEPT ![t] = "unknown"] : t \in Scopes}
  /\ grants \in {[g \in Readers \X Scopes |-> IF scopeState[g[2]] = "active" THEN state ELSE "none"] :
                   state \in {"none", "active"}}
  /\ policyChanges = 0
  /\ snapshots = [i \in SnapshotIds |-> NoRow] /\ head = NoPointer
  /\ branchLock = Nobody /\ writing = [w \in Writers |-> Ready]
  /\ promoted = <<>> /\ shown = [p \in Readers |-> [version |-> 0, row |-> NoRow]]
CatalogNext ==
  \/ \E w \in Writers :
       \/ \E row \in Ingestions : BeginIngest(w, row)
       \/ \E p \in Promotions : BeginPromote(w, p)
       \/ \E row \in Ingestions, p \in Promotions :
            p.id = row.id /\ BeginCompletion(w, row, p.provider, p.order)
       \/ CommitIngest(w) \/ CommitPromote(w) \/ CommitCompletion(w) \/ Rollback(w)
  \/ \E s \in Scopes, active \in BOOLEAN :
       \/ PutScope(s, active)
       \/ \E p \in Readers : PutGrant(p, s, active)
  \/ \E p \in Readers : ResolveBranch(p)
CatalogSpec == CatalogInit /\ [][CatalogNext]_catalogVars

-----------------------------------------------------------------------------
(* The pointer is the last of its promotions and its version their number; *)
(* one made with an expected version replaced exactly that pointer, so no  *)
(* two that expected the same both happened, and one comparable with its   *)
(* predecessor is newer.  What a promotion made visible is what is stored  *)
(* ever after, whoever stores the same snapshot again and under whatever   *)
(* configuration; a writer told that its row is stored finds that row; and *)
(* a reader was answered the row its pointer's version was promoted with,  *)
(* which nobody but the holder of all its scopes was.                      *)
CatalogIsHonest ==
  /\ head.version = Len(promoted)
  /\ head.version > 0 =>
       /\ head.id = promoted[head.version].request.id
       /\ head.order = promoted[head.version].request.order
  /\ \A k \in DOMAIN promoted :
       /\ promoted[k].row = snapshots[promoted[k].request.id] /\ promoted[k].row # NoRow
       /\ promoted[k].request.expected \in {k - 1, Unconditional}
       /\ k > 1 /\ Comparable(promoted[k - 1].request, promoted[k].request) =>
            promoted[k].request.order > promoted[k - 1].request.order
  /\ \A w \in Writers : writing[w].reply = "stored" => snapshots[writing[w].row.id] = writing[w].row
  /\ \A p \in Readers : shown[p].version > 0 => shown[p].row = promoted[shown[p].version].row
=============================================================================
