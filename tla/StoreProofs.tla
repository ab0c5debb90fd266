----------------------------- MODULE StoreProofs -----------------------------
(***************************************************************************)
(* Proofs about the two stores that are only added to, and about the locks *)
(* their writers take.  The contract catalog, for any number of writers,   *)
(* readers, scopes, rows and promotions: its pointer moves in order and    *)
(* what it ever pointed at stays as it was.  The ledger of events, for any *)
(* configurations, events, producers and administrators, however often and *)
(* late events come: what it recorded is kept; and for any notices,        *)
(* consumers and limits, deliveries of its outbox are true and what is     *)
(* settled stays settled.  The advisory locks, for any clients, rows and   *)
(* calls: no transactions wait for each other, and one that works holds    *)
(* the locks of all it may touch.                                          *)
(***************************************************************************)
EXTENDS Catalog, EventLedger, AdvisoryLocks, WellFoundedInduction, TLAPS

-----------------------------------------------------------------------------
(* The catalog.                                                            *)
(* What a transaction asks to promote: given, or made for a job.           *)
Requests ==
  Promotions \cup [id : SnapshotIds, provider : {p.provider : p \in Promotions},
                   order : Nat, expected : Nat]
Records == [request : Requests, row : Ingestions]

TablesTyped ==
  /\ snapshots \in [SnapshotIds -> Ingestions \cup {NoRow}]
  /\ promoted \in Seq(Records)
  /\ DOMAIN writing = Writers /\ DOMAIN shown = Readers

(* Who has read the pointer under the branch's lock has read what it is.   *)
WriterHolds(w) ==
  /\ writing[w].kind \in {"ingest", "complete"} => writing[w].row \in Ingestions
  /\ writing[w].kind \in {"promote", "complete"} =>
       /\ branchLock = w /\ writing[w].saw = head /\ writing[w].request \in Requests
  /\ writing[w].kind = "complete" => writing[w].request.id = writing[w].row.id
  /\ writing[w].reply = "stored" =>
       writing[w].row \in Ingestions /\ snapshots[writing[w].row.id] = writing[w].row
WritersHold == \A w \in Writers : WriterHolds(w)

PointerIsLast ==
  /\ head.version = Len(promoted)
  /\ head.version > 0 =>
       /\ head.id = promoted[head.version].request.id
       /\ head.provider = promoted[head.version].request.provider
       /\ head.order = promoted[head.version].request.order

PromotionIsKept(k) ==
  /\ promoted[k].row = snapshots[promoted[k].request.id] /\ promoted[k].row # NoRow
  /\ promoted[k].request.expected \in {k - 1, Unconditional}
  /\ k > 1 /\ Comparable(promoted[k - 1].request, promoted[k].request) =>
       promoted[k].request.order > promoted[k - 1].request.order
PromotionsAreKept == \A k \in 1..Len(promoted) : PromotionIsKept(k)

ReaderWasTold(p) ==
  /\ shown[p].version \in 0..Len(promoted)
  /\ shown[p].version > 0 => shown[p].row = promoted[shown[p].version].row
ReadersWereTold == \A p \in Readers : ReaderWasTold(p)

CatalogInv ==
  TablesTyped /\ WritersHold /\ PointerIsLast /\ PromotionsAreKept /\ ReadersWereTold

-----------------------------------------------------------------------------
(* Every request is of a snapshot, and its numbers are numbers.            *)
LEMMA RequestsTyped ==
  ASSUME NEW p \in Requests
  PROVE  p.id \in SnapshotIds /\ p.order \in Nat /\ p.expected \in Nat
BY PromotionsAreOfSnapshots DEF Requests

(* ON CONFLICT DO NOTHING: storing a row leaves every row that is there.   *)
LEMMA StoringKeepsRows ==
  ASSUME TablesTyped, NEW row \in Ingestions
  PROVE  /\ Ingested(row) \in [SnapshotIds -> Ingestions \cup {NoRow}]
         /\ \A i \in SnapshotIds : snapshots[i] # NoRow => Ingested(row)[i] = snapshots[i]
         /\ Ingested(row)[row.id] \in Ingestions
         /\ MayIngest(row) => Ingested(row)[row.id] = row
<1>1. row.id \in SnapshotIds
  BY DEF SnapshotIds
<1>2. Stored(row) \in Ingestions
  BY <1>1 DEF Stored, TablesTyped
<1>3. \A i \in SnapshotIds :
        Ingested(row)[i] = IF i = row.id THEN Stored(row) ELSE snapshots[i]
  BY <1>1 DEF Ingested, TablesTyped
<1>4. Ingested(row) \in [SnapshotIds -> Ingestions \cup {NoRow}]
  BY <1>1, <1>2 DEF Ingested, TablesTyped
<1> QED
  BY <1>1, <1>2, <1>3, <1>4 DEF Stored, MayIngest, SameRow

(* A step that leaves the pointer and keeps every stored row keeps what is *)
(* known of promotions and readers.                                        *)
LEMMA RowsKept ==
  ASSUME CatalogInv, UNCHANGED <<head, promoted, shown>>,
         snapshots' \in [SnapshotIds -> Ingestions \cup {NoRow}],
         \A i \in SnapshotIds : snapshots[i] # NoRow => snapshots'[i] = snapshots[i]
  PROVE  PointerIsLast' /\ PromotionsAreKept' /\ ReadersWereTold'
<1>1. PointerIsLast' /\ ReadersWereTold'
  BY DEF CatalogInv, PointerIsLast, ReadersWereTold, ReaderWasTold
<1>2. ASSUME NEW k \in 1..Len(promoted)  PROVE PromotionIsKept(k)'
  <2>1. PromotionIsKept(k)
    BY <1>2 DEF CatalogInv, PromotionsAreKept
  <2>2. promoted[k] \in Records
    BY <1>2 DEF CatalogInv, TablesTyped
  <2>3. promoted[k].request.id \in SnapshotIds
    BY <2>2, RequestsTyped DEF Records
  <2> QED
    BY <2>1, <2>3 DEF PromotionIsKept, Comparable
<1> QED
  BY <1>1, <1>2 DEF PromotionsAreKept

(* A promotion judged by the pointer it replaces extends the history.      *)
LEMMA PromotionExtends ==
  ASSUME CatalogInv, NEW p \in Requests, NEW r \in Ingestions, MayPromote(head, p),
         head' = PointerTo(p), promoted' = Append(promoted, [request |-> p, row |-> r]),
         snapshots' \in [SnapshotIds -> Ingestions \cup {NoRow}],
         \A i \in SnapshotIds : snapshots[i] # NoRow => snapshots'[i] = snapshots[i],
         snapshots'[p.id] = r, UNCHANGED shown
  PROVE  /\ promoted' \in Seq(Records)
         /\ PointerIsLast' /\ PromotionsAreKept' /\ ReadersWereTold'
<1>0. promoted \in Seq(Records)
  BY DEF CatalogInv, TablesTyped
<1>00. PICK n \in Nat : n = Len(promoted)
  BY <1>0
<1>1. promoted \in Seq(Records) /\ n \in Nat /\ n = Len(promoted)
  BY <1>0, <1>00
<1>2. [request |-> p, row |-> r] \in Records
  BY DEF Records
<1>3. promoted' \in Seq(Records) /\ Len(promoted') = n + 1
  BY <1>1, <1>2
<1>4. promoted'[n + 1] = [request |-> p, row |-> r] /\ \A k \in 1..n : promoted'[k] = promoted[k]
  BY <1>1, <1>2
<1>5. head.version = n /\ PointerIsLast
  BY <1>1 DEF CatalogInv, PointerIsLast
<1>6. PointerIsLast'
  BY <1>1, <1>3, <1>4, <1>5 DEF PointerIsLast, PointerTo
<1>7. ASSUME NEW k \in 1..n  PROVE PromotionIsKept(k)'
  <2>1. PromotionIsKept(k) /\ promoted[k] \in Records
    BY <1>1, <1>7 DEF CatalogInv, PromotionsAreKept
  <2>2. promoted[k].request.id \in SnapshotIds
    BY <2>1, RequestsTyped DEF Records
  <2>3. promoted'[k] = promoted[k] /\ (k > 1 => promoted'[k - 1] = promoted[k - 1])
    BY <1>1, <1>4, <1>7
  <2> QED
    BY <2>1, <2>2, <2>3 DEF PromotionIsKept, Comparable
<1>8. PromotionIsKept(n + 1)'
  <2>1. r # NoRow
    BY RowsAreRows
  <2>2. p.expected \in {n, Unconditional}
    BY <1>5 DEF MayPromote
  <2>3. n > 0 /\ Comparable(promoted[n].request, p) => p.order > promoted[n].request.order
    BY <1>1, <1>5 DEF MayPromote, Comparable, PointerIsLast
  <2>4. n > 0 => promoted'[n] = promoted[n]
    BY <1>1, <1>4
  <2>5. promoted'[n + 1].row = snapshots'[promoted'[n + 1].request.id] /\ promoted'[n + 1].row # NoRow
    BY <1>1, <1>4, <2>1
  <2>6. promoted'[n + 1].request.expected \in {(n + 1) - 1, Unconditional}
    BY <1>1, <1>4, <2>2
  <2>7. (n + 1) > 1 /\ Comparable(promoted'[(n + 1) - 1].request, promoted'[n + 1].request)
          => promoted'[n + 1].request.order > promoted'[(n + 1) - 1].request.order
    <3>1. (n + 1) - 1 = n /\ (n + 1 > 1 => n > 0)
      BY <1>1
    <3>2. promoted'[n + 1].request = p
      BY <1>1, <1>4
    <3> QED
      BY <2>3, <2>4, <3>1, <3>2
  <2> QED
    BY <2>5, <2>6, <2>7 DEF PromotionIsKept, Comparable
<1>9. ReadersWereTold'
  BY <1>1, <1>3, <1>4 DEF CatalogInv, ReadersWereTold, ReaderWasTold
<1> QED
  BY <1>1, <1>3, <1>6, <1>7, <1>8, <1>9 DEF PromotionsAreKept

-----------------------------------------------------------------------------
(* What one writer's step leaves the others with.                          *)
LEMMA OthersHold ==
  ASSUME CatalogInv, NEW w \in Writers, DOMAIN writing' = Writers,
         \A v \in Writers \ {w} : writing'[v] = writing[v],
         \A v \in Writers \ {w} : branchLock = v => branchLock' = v /\ head' = head,
         \A i \in SnapshotIds : snapshots[i] # NoRow => snapshots'[i] = snapshots[i],
         WriterHolds(w)'
  PROVE  WritersHold'
<1> SUFFICES ASSUME NEW v \in Writers, v # w  PROVE WriterHolds(v)'
  BY DEF WritersHold
<1>1. WriterHolds(v) /\ writing'[v] = writing[v]
  BY DEF CatalogInv, WritersHold
<1>2. ASSUME writing[v].reply = "stored"  PROVE snapshots'[writing[v].row.id] = writing[v].row
  <2>1. writing[v].row \in Ingestions /\ snapshots[writing[v].row.id] = writing[v].row
    BY <1>1, <1>2 DEF WriterHolds
  <2>2. writing[v].row.id \in SnapshotIds /\ writing[v].row # NoRow
    BY <2>1, RowsAreRows DEF SnapshotIds
  <2> QED
    BY <2>1, <2>2
<1>3. writing[v].kind \in {"promote", "complete"} => branchLock' = v /\ head' = head
  BY <1>1 DEF WriterHolds
<1> QED
  BY <1>1, <1>2, <1>3 DEF WriterHolds

(* Rows, pointer and history as they were.                                 *)
Untouched == UNCHANGED <<snapshots, head, promoted, shown>>

LEMMA UntouchedKept ==
  ASSUME CatalogInv, Untouched, DOMAIN writing' = Writers, WritersHold'
  PROVE  CatalogInv'
BY RowsKept DEF CatalogInv, TablesTyped, Untouched

(* A transaction begins: with the branch's lock it reads the pointer.      *)
LEMMA BeginKept ==
  ASSUME CatalogInv, NEW w \in Writers, Untouched, NEW e,
         writing' = [writing EXCEPT ![w] = e], e.reply = "none",
         e.kind \in {"ingest", "complete"} => e.row \in Ingestions,
         e.kind \in {"promote", "complete"} =>
           branchLock = Nobody /\ branchLock' = w /\ e.saw = head /\ e.request \in Requests,
         e.kind = "complete" => e.request.id = e.row.id,
         e.kind = "ingest" => UNCHANGED branchLock,
         e.kind \in {"ingest", "promote", "complete"}
  PROVE  CatalogInv'
<1>1. DOMAIN writing' = Writers /\ writing'[w] = e /\ \A v \in Writers \ {w} : writing'[v] = writing[v]
  BY DEF CatalogInv, TablesTyped
<1>2. WriterHolds(w)'
  BY <1>1 DEF WriterHolds, Untouched
<1>3. \A v \in Writers \ {w} : branchLock = v => branchLock' = v /\ head' = head
  BY NobodyWrites DEF Untouched
<1>4. WritersHold'
  BY <1>1, <1>2, <1>3, OthersHold DEF Untouched
<1> QED
  BY <1>1, <1>4, UntouchedKept

(* A transaction ends with its reply, and its lock is given back.          *)
LEMMA EndKept ==
  ASSUME CatalogInv, NEW w \in Writers, NEW e, writing' = [writing EXCEPT ![w] = e],
         e.kind = "none",
         e.reply = "stored" => e.row \in Ingestions /\ snapshots'[e.row.id] = e.row,
         branchLock' = IF branchLock = w THEN Nobody ELSE branchLock,
         \A v \in Writers \ {w} : branchLock = v => head' = head,
         \A i \in SnapshotIds : snapshots[i] # NoRow => snapshots'[i] = snapshots[i]
  PROVE  DOMAIN writing' = Writers /\ WritersHold'
<1>1. DOMAIN writing' = Writers /\ writing'[w] = e /\ \A v \in Writers \ {w} : writing'[v] = writing[v]
  BY DEF CatalogInv, TablesTyped
<1>2. WriterHolds(w)'
  BY <1>1 DEF WriterHolds
<1> QED
  BY <1>1, <1>2, OthersHold

-----------------------------------------------------------------------------
LEMMA CatalogStarts == CatalogInit => CatalogInv
<1> SUFFICES ASSUME CatalogInit  PROVE CatalogInv
  OBVIOUS
<1>1. TablesTyped
  BY DEF CatalogInit, TablesTyped
<1>2. WritersHold
  BY DEF CatalogInit, WritersHold, WriterHolds, Ready
<1>3. PointerIsLast /\ PromotionsAreKept /\ ReadersWereTold
  BY DEF CatalogInit, PointerIsLast, PromotionsAreKept, ReadersWereTold, ReaderWasTold, NoPointer
<1> QED
  BY <1>1, <1>2, <1>3 DEF CatalogInv

(* One lemma per operation of the catalog.                                 *)
LEMMA BeginIngestKeeps ==
  ASSUME CatalogInv, NEW w \in Writers, NEW row \in Ingestions, BeginIngest(w, row)
  PROVE  CatalogInv'
<1> DEFINE e == [kind |-> "ingest", row |-> row, saw |-> head, request |-> Ready, reply |-> "none"]
<1>1. writing' = [writing EXCEPT ![w] = e] /\ Untouched /\ UNCHANGED branchLock
  BY DEF BeginIngest, Untouched
<1> QED
  BY <1>1, BeginKept

LEMMA BeginPromoteKeeps ==
  ASSUME CatalogInv, NEW w \in Writers, NEW p \in Promotions, BeginPromote(w, p)
  PROVE  CatalogInv'
<1> DEFINE e == [kind |-> "promote", row |-> NoRow, saw |-> head, request |-> p, reply |-> "none"]
<1>1. /\ writing' = [writing EXCEPT ![w] = e] /\ Untouched
      /\ branchLock = Nobody /\ branchLock' = w
  BY DEF BeginPromote, Untouched
<1>2. p \in Requests
  BY DEF Requests
<1> QED
  BY <1>1, <1>2, BeginKept

LEMMA BeginCompletionKeeps ==
  ASSUME CatalogInv, NEW w \in Writers, NEW row \in Ingestions, NEW p \in Promotions,
         p.id = row.id, BeginCompletion(w, row, p.provider, p.order)
  PROVE  CatalogInv'
<1> DEFINE q == [id |-> row.id, provider |-> p.provider, order |-> p.order, expected |-> head.version]
           e == [kind |-> "complete", row |-> row, saw |-> head, reply |-> "none", request |-> q]
<1>1. /\ writing' = [writing EXCEPT ![w] = e] /\ Untouched
      /\ branchLock = Nobody /\ branchLock' = w
  BY DEF BeginCompletion, Untouched
<1>2. head.version \in Nat
  BY DEF CatalogInv, PointerIsLast, TablesTyped
<1>3. q \in Requests
  BY <1>2, PromotionsAreOfSnapshots DEF Requests
<1> QED
  BY <1>1, <1>3, BeginKept

LEMMA CommitIngestKeeps ==
  ASSUME CatalogInv, NEW w \in Writers, CommitIngest(w)
  PROVE  CatalogInv'
<1> DEFINE row == writing[w].row
<1>1. WriterHolds(w) /\ row \in Ingestions
  BY DEF CatalogInv, WritersHold, WriterHolds, CommitIngest
<1>2. UNCHANGED <<head, branchLock, promoted, shown>> /\ TablesTyped
  BY DEF CommitIngest, CatalogInv
<1>3. CASE MayIngest(row)
  <2> DEFINE e == [kind |-> "none", reply |-> "stored", row |-> row]
  <2>1. snapshots' = Ingested(row) /\ writing' = [writing EXCEPT ![w] = e]
    BY <1>2, <1>3 DEF CommitIngest, Reply, TablesTyped
  <2>2. /\ snapshots' \in [SnapshotIds -> Ingestions \cup {NoRow}]
        /\ \A i \in SnapshotIds : snapshots[i] # NoRow => snapshots'[i] = snapshots[i]
        /\ snapshots'[row.id] = row
    BY <1>1, <1>2, <1>3, <2>1, StoringKeepsRows
  <2>3. DOMAIN writing' = Writers /\ writing'[w] = e /\ \A v \in Writers \ {w} : writing'[v] = writing[v]
    BY <1>2, <2>1 DEF TablesTyped
  <2>4. WriterHolds(w)'
    BY <1>1, <2>2, <2>3 DEF WriterHolds
  <2>5. WritersHold'
    BY <1>2, <2>2, <2>3, <2>4, OthersHold
  <2>6. PointerIsLast' /\ PromotionsAreKept' /\ ReadersWereTold'
    BY <1>2, <2>2, RowsKept
  <2> QED
    BY <1>2, <2>2, <2>3, <2>5, <2>6 DEF CatalogInv, TablesTyped
<1>4. CASE ~MayIngest(row)
  <2> DEFINE e == [kind |-> "none", reply |-> "conflict", row |-> row]
  <2>1. UNCHANGED snapshots /\ writing' = [writing EXCEPT ![w] = e]
    BY <1>2, <1>4 DEF CommitIngest, Reply, TablesTyped
  <2>2. Untouched
    BY <1>2, <2>1 DEF Untouched
  <2>3. DOMAIN writing' = Writers /\ writing'[w] = e /\ \A v \in Writers \ {w} : writing'[v] = writing[v]
    BY <1>2, <2>1 DEF TablesTyped
  <2>4. WriterHolds(w)'
    BY <2>3 DEF WriterHolds
  <2>5. WritersHold'
    BY <1>2, <2>1, <2>3, <2>4, OthersHold
  <2> QED
    BY <2>2, <2>3, <2>5, UntouchedKept
<1> QED
  BY <1>3, <1>4

(* Refused or already there: the transaction ends and nothing is promoted. *)
LEMMA EndWithoutPromotion ==
  ASSUME CatalogInv, NEW w \in Writers, NEW reply, reply # "stored", Reply(w, reply), Release(w),
         UNCHANGED <<head, promoted, shown>>,
         snapshots' \in [SnapshotIds -> Ingestions \cup {NoRow}],
         \A i \in SnapshotIds : snapshots[i] # NoRow => snapshots'[i] = snapshots[i]
  PROVE  CatalogInv'
<1> DEFINE e == [kind |-> "none", reply |-> reply, row |-> writing[w].row]
<1>1. writing' = [writing EXCEPT ![w] = e]
  BY DEF Reply, CatalogInv, TablesTyped
<1>2. branchLock' = IF branchLock = w THEN Nobody ELSE branchLock
  BY DEF Release
<1>3. DOMAIN writing' = Writers /\ WritersHold'
  BY <1>1, <1>2, EndKept
<1>4. PointerIsLast' /\ PromotionsAreKept' /\ ReadersWereTold'
  BY RowsKept
<1> QED
  BY <1>3, <1>4 DEF CatalogInv, TablesTyped

(* A promotion by the holder of the lock, who has read the pointer.        *)
LEMMA EndWithPromotion ==
  ASSUME CatalogInv, NEW w \in Writers, WriterHolds(w),
         writing[w].kind \in {"promote", "complete"},
         Reply(w, "promoted"), Release(w), UNCHANGED shown,
         MayPromote(head, writing[w].request), head' = PointerTo(writing[w].request),
         promoted' = Promoted(writing[w].request, snapshots'),
         snapshots' \in [SnapshotIds -> Ingestions \cup {NoRow}],
         \A i \in SnapshotIds : snapshots[i] # NoRow => snapshots'[i] = snapshots[i],
         snapshots'[writing[w].request.id] \in Ingestions
  PROVE  CatalogInv'
<1> DEFINE e == [kind |-> "none", reply |-> "promoted", row |-> writing[w].row]
           p == writing[w].request
           r == snapshots'[p.id]
<1>1. writing' = [writing EXCEPT ![w] = e]
  BY DEF Reply, CatalogInv, TablesTyped
<1>2. branchLock' = IF branchLock = w THEN Nobody ELSE branchLock
  BY DEF Release
<1>3. \A v \in Writers \ {w} : branchLock # v
  BY DEF WriterHolds
<1>4. DOMAIN writing' = Writers /\ WritersHold'
  BY <1>1, <1>2, <1>3, EndKept
<1>5. p \in Requests
  BY DEF WriterHolds
<1>6. promoted' = Append(promoted, [request |-> p, row |-> r])
  BY DEF Promoted
<1>7. promoted' \in Seq(Records) /\ PointerIsLast' /\ PromotionsAreKept' /\ ReadersWereTold'
  BY <1>5, <1>6, PromotionExtends
<1> QED
  BY <1>4, <1>7 DEF CatalogInv, TablesTyped

LEMMA CommitPromoteKeeps ==
  ASSUME CatalogInv, NEW w \in Writers, CommitPromote(w)
  PROVE  CatalogInv'
<1> DEFINE p == writing[w].request
<1>1. writing[w].kind = "promote" /\ Release(w) /\ UNCHANGED <<snapshots, shown>> /\ TablesTyped
  BY DEF CommitPromote, CatalogInv
<1>2. WriterHolds(w) /\ writing[w].saw = head /\ p \in Requests
  BY <1>1 DEF CatalogInv, WritersHold, WriterHolds
<1>3. snapshots' \in [SnapshotIds -> Ingestions \cup {NoRow}] /\ \A i \in SnapshotIds : snapshots'[i] = snapshots[i]
  BY <1>1 DEF TablesTyped
<1>4. CASE Reply(w, "refused") /\ UNCHANGED <<head, promoted>>
  BY <1>1, <1>3, <1>4, EndWithoutPromotion
<1>5. CASE Reply(w, "existing") /\ UNCHANGED <<head, promoted>>
  BY <1>1, <1>3, <1>5, EndWithoutPromotion
<1>6. CASE /\ snapshots[p.id] # NoRow /\ MayPromote(head, p)
           /\ head' = PointerTo(p) /\ promoted' = Promoted(p, snapshots) /\ Reply(w, "promoted")
  <2>1. snapshots'[p.id] \in Ingestions
    BY <1>2, <1>3, <1>6, RequestsTyped
  <2>2. promoted' = Promoted(p, snapshots')
    BY <1>1, <1>6
  <2> QED
    BY <1>1, <1>2, <1>3, <1>6, <2>1, <2>2, EndWithPromotion
<1> QED
  BY <1>2, <1>4, <1>5, <1>6 DEF CommitPromote

LEMMA CommitCompletionKeeps ==
  ASSUME CatalogInv, NEW w \in Writers, CommitCompletion(w)
  PROVE  CatalogInv'
<1> DEFINE p == writing[w].request
           row == writing[w].row
<1>1. writing[w].kind = "complete" /\ Release(w) /\ UNCHANGED shown /\ TablesTyped
  BY DEF CommitCompletion, CatalogInv
<1>2. /\ WriterHolds(w) /\ writing[w].saw = head /\ p \in Requests
      /\ row \in Ingestions /\ p.id = row.id
  BY <1>1 DEF CatalogInv, WritersHold, WriterHolds
<1>3. /\ Ingested(row) \in [SnapshotIds -> Ingestions \cup {NoRow}]
      /\ \A i \in SnapshotIds : snapshots[i] # NoRow => Ingested(row)[i] = snapshots[i]
      /\ Ingested(row)[p.id] \in Ingestions
  BY <1>1, <1>2, StoringKeepsRows
<1>4. CASE Reply(w, "refused") /\ UNCHANGED <<snapshots, head, promoted>>
  <2>1. snapshots' \in [SnapshotIds -> Ingestions \cup {NoRow}] /\ \A i \in SnapshotIds : snapshots'[i] = snapshots[i]
    BY <1>1, <1>4 DEF TablesTyped
  <2> QED
    BY <1>1, <1>4, <2>1, EndWithoutPromotion
<1>5. CASE /\ snapshots' = Ingested(row) /\ Reply(w, "existing") /\ UNCHANGED <<head, promoted>>
  BY <1>1, <1>3, <1>5, EndWithoutPromotion
<1>6. CASE /\ MayPromote(head, p) /\ snapshots' = Ingested(row) /\ head' = PointerTo(p)
           /\ promoted' = Promoted(p, Ingested(row)) /\ Reply(w, "promoted")
  <2>1. promoted' = Promoted(p, snapshots')
    BY <1>6
  <2> QED
    BY <1>1, <1>2, <1>3, <1>6, <2>1, EndWithPromotion
<1> QED
  BY <1>2, <1>4, <1>5, <1>6 DEF CommitCompletion

LEMMA RollbackKeeps ==
  ASSUME CatalogInv, NEW w \in Writers, Rollback(w)
  PROVE  CatalogInv'
<1>1. writing' = [writing EXCEPT ![w] = Ready] /\ Untouched
  BY DEF Rollback, Untouched
<1>2. branchLock' = IF branchLock = w THEN Nobody ELSE branchLock
  BY DEF Rollback, Release
<1>3. Ready.kind = "none" /\ Ready.reply # "stored"
  BY DEF Ready
<1>4. DOMAIN writing' = Writers /\ WritersHold'
  BY <1>1, <1>2, <1>3, EndKept DEF Untouched
<1> QED
  BY <1>1, <1>4, UntouchedKept

(* A change of policy, and any step that leaves all of this alone.         *)
LEMMA PolicyKeeps ==
  ASSUME CatalogInv, UNCHANGED <<snapshots, head, branchLock, writing, promoted, shown>>
  PROVE  CatalogInv'
<1>1. WritersHold' /\ DOMAIN writing' = Writers
  BY DEF CatalogInv, WritersHold, WriterHolds, TablesTyped
<1> QED
  BY <1>1, UntouchedKept DEF Untouched

LEMMA ResolveBranchKeeps ==
  ASSUME CatalogInv, NEW p \in Readers, ResolveBranch(p)
  PROVE  CatalogInv'
<1>1. UNCHANGED <<snapshots, head, branchLock, writing, promoted>> /\ DOMAIN shown' = Readers
  BY DEF ResolveBranch, CatalogInv, TablesTyped
<1>2. TablesTyped' /\ WritersHold' /\ PointerIsLast' /\ PromotionsAreKept'
  BY <1>1 DEF CatalogInv, TablesTyped, WritersHold, WriterHolds, PointerIsLast,
              PromotionsAreKept, PromotionIsKept, Comparable
<1>3. ASSUME NEW q \in Readers  PROVE ReaderWasTold(q)'
  <2>1. CASE q # p
    BY <1>1, <2>1 DEF ResolveBranch, CatalogInv, TablesTyped, ReadersWereTold, ReaderWasTold
  <2>2. CASE q = p /\ head.version > 0 /\ MayRead(p, snapshots[head.id])
    <3>1. shown'[p] = [version |-> head.version, row |-> snapshots[head.id]]
      BY <2>2 DEF ResolveBranch, CatalogInv, TablesTyped
    <3>2. head.version = Len(promoted) /\ Len(promoted) \in Nat
      BY DEF CatalogInv, TablesTyped, PointerIsLast
    <3>3. PromotionIsKept(head.version) /\ head.id = promoted[head.version].request.id
      BY <2>2, <3>2 DEF CatalogInv, PromotionsAreKept, PointerIsLast
    <3> QED
      BY <1>1, <2>2, <3>1, <3>2, <3>3 DEF ReaderWasTold, PromotionIsKept
  <2>3. CASE q = p /\ ~(head.version > 0 /\ MayRead(p, snapshots[head.id]))
    <3>1. shown'[p] = [version |-> 0, row |-> NoRow]
      BY <2>3 DEF ResolveBranch, CatalogInv, TablesTyped
    <3>2. Len(promoted') \in Nat
      BY <1>1 DEF CatalogInv, TablesTyped
    <3> QED
      BY <2>3, <3>1, <3>2 DEF ReaderWasTold
  <2> QED
    BY <2>1, <2>2, <2>3
<1> QED
  BY <1>2, <1>3 DEF CatalogInv, ReadersWereTold

-----------------------------------------------------------------------------
(* The inductive invariant: whoever holds the branch's lock has read the   *)
(* pointer there is, so what it judged a promotion by is what it replaces. *)
THEOREM CatalogInvariant == CatalogSpec => []CatalogInv
<1>1. CatalogInv /\ [CatalogNext]_catalogVars => CatalogInv'
  <2> SUFFICES ASSUME CatalogInv, [CatalogNext]_catalogVars  PROVE CatalogInv'
    OBVIOUS
  <2>1. ASSUME NEW w \in Writers, NEW row \in Ingestions, BeginIngest(w, row)  PROVE CatalogInv'
    BY <2>1, BeginIngestKeeps
  <2>2. ASSUME NEW w \in Writers, NEW p \in Promotions, BeginPromote(w, p)  PROVE CatalogInv'
    BY <2>2, BeginPromoteKeeps
  <2>3. ASSUME NEW w \in Writers, NEW row \in Ingestions, NEW p \in Promotions, p.id = row.id,
               BeginCompletion(w, row, p.provider, p.order)  PROVE CatalogInv'
    BY <2>3, BeginCompletionKeeps
  <2>4. ASSUME NEW w \in Writers,
               CommitIngest(w) \/ CommitPromote(w) \/ CommitCompletion(w) \/ Rollback(w)
        PROVE  CatalogInv'
    BY <2>4, CommitIngestKeeps, CommitPromoteKeeps, CommitCompletionKeeps, RollbackKeeps
  <2>5. ASSUME NEW s \in Scopes, NEW active \in BOOLEAN,
               PutScope(s, active) \/ \E p \in Readers : PutGrant(p, s, active)  PROVE CatalogInv'
    <3>1. UNCHANGED <<snapshots, head, branchLock, writing, promoted, shown>>
      BY <2>5 DEF PutScope, PutGrant
    <3> QED
      BY <3>1, PolicyKeeps
  <2>6. ASSUME NEW p \in Readers, ResolveBranch(p)  PROVE CatalogInv'
    BY <2>6, ResolveBranchKeeps
  <2>7. CASE UNCHANGED catalogVars
    BY <2>7, PolicyKeeps DEF catalogVars
  <2> QED
    BY <2>1, <2>2, <2>3, <2>4, <2>5, <2>6, <2>7 DEF CatalogNext
<1> QED
  BY <1>1, CatalogStarts, PTL DEF CatalogSpec

(* Concurrent ingestion, promotion and completion (packages/catalog) keep  *)
(* the pointer in order, what it pointed at as it was, and readers told of *)
(* nothing else.                                                           *)
THEOREM Honest == CatalogSpec => []CatalogIsHonest
<1>1. CatalogInv => CatalogIsHonest
  <2> SUFFICES ASSUME CatalogInv  PROVE CatalogIsHonest
    OBVIOUS
  <2>1. DOMAIN promoted = 1..Len(promoted)
    BY DEF CatalogInv, TablesTyped
  <2>2. \A k \in DOMAIN promoted : PromotionIsKept(k)
    BY <2>1 DEF CatalogInv, PromotionsAreKept
  <2>3. \A w \in Writers : WriterHolds(w)
    BY DEF CatalogInv, WritersHold
  <2>4. PointerIsLast /\ ReadersWereTold
    BY DEF CatalogInv
  <2> QED
    BY <2>2, <2>3, <2>4 DEF CatalogIsHonest, PointerIsLast, PromotionIsKept, WriterHolds,
                            ReadersWereTold, ReaderWasTold
<1> QED
  BY <1>1, CatalogInvariant, PTL

-----------------------------------------------------------------------------
(* The outbox.                                                             *)

States == {"pending", "leased", "retry_wait", "delivered", "exhausted"}
Rows == [state : States, attempts : 0..MaxDeliveries, holder : Consumers \cup {Unheld},
         live : BOOLEAN]

(* A row waits only while it may still be handed out, and is given up only *)
(* when it may not: what Retried leaves behind, and what Handed relies on. *)
IsSound(row) ==
  /\ row \in Rows
  /\ row.state \in {"pending", "retry_wait"} => row.attempts < MaxDeliveries
  /\ row.state = "exhausted" => row.attempts = MaxDeliveries
  /\ row.state # "leased" => ~row.live
RowsAreSound == \A m \in DOMAIN outbox : IsSound(outbox[m])
LeasesAreOfNotices ==
  /\ DOMAIN leases = Consumers
  /\ \A c \in Consumers : \A l \in leases[c] : l.notice \in DOMAIN outbox
AcknowledgedAreDelivered ==
  /\ DOMAIN acknowledged = {m \in DOMAIN outbox : outbox[m].state = "delivered"}
  /\ \A m \in DOMAIN acknowledged : acknowledged[m] = outbox[m].attempts
OutboxInv == RowsAreSound /\ LeasesAreOfNotices /\ AcknowledgedAreDelivered

(* A step keeps what is settled.                                           *)
SettledKept == \A m \in DOMAIN outbox : Settled(m) => m \in DOMAIN outbox' /\ outbox'[m] = outbox[m]

-----------------------------------------------------------------------------
LEMMA RetriedIsSound ==
  ASSUME NEW row, IsSound(row), row.state = "leased"
  PROVE  IsSound(Retried(row)) /\ Retried(row).state \in {"retry_wait", "exhausted"}
BY OutboxAssumption DEF IsSound, Retried, Notice, Rows, States

LEMMA HandedIsSound ==
  ASSUME NEW row, NEW c \in Consumers, IsSound(row), row.state \in {"pending", "retry_wait"}
  PROVE  IsSound(Handed(row, c)) /\ Handed(row, c).state = "leased"
BY OutboxAssumption DEF IsSound, Handed, Notice, Rows, States

(* A step that ends or renews leases, or adds notices, and acknowledges    *)
(* none, changes only rows that were not settled, to rows that are not     *)
(* delivered.                                                              *)
LEMMA NothingAcknowledged ==
  ASSUME OutboxInv, UNCHANGED acknowledged, DOMAIN outbox \subseteq DOMAIN outbox',
         \A m \in DOMAIN outbox' : \/ m \in DOMAIN outbox /\ outbox'[m] = outbox[m]
                                   \/ /\ m \notin DOMAIN outbox \/ ~Settled(m)
                                      /\ IsSound(outbox'[m]) /\ outbox'[m].state # "delivered",
         LeasesAreOfNotices'
  PROVE  OutboxInv' /\ SettledKept
<1>1. RowsAreSound'
  BY DEF OutboxInv, RowsAreSound
<1>2. {m \in DOMAIN outbox : outbox[m].state = "delivered"}
        = {m \in DOMAIN outbox' : outbox'[m].state = "delivered"}
  BY DEF Settled
<1>3. AcknowledgedAreDelivered'
  BY <1>2 DEF OutboxInv, AcknowledgedAreDelivered, Settled
<1>4. SettledKept
  BY DEF SettledKept
<1> QED
  BY <1>1, <1>3, <1>4 DEF OutboxInv

LEMMA QueuedKeeps ==
  ASSUME OutboxInv, NEW notices, outbox' = Queued(notices), UNCHANGED <<leases, acknowledged>>
  PROVE  OutboxInv' /\ SettledKept
<1>1. /\ DOMAIN outbox' = DOMAIN outbox \cup notices
      /\ \A n \in DOMAIN outbox' : outbox'[n] = IF n \in DOMAIN outbox THEN outbox[n]
                                                ELSE Notice("pending", 0, Unheld, FALSE)
  BY DEF Queued
<1>2. IsSound(Notice("pending", 0, Unheld, FALSE))
  BY OutboxAssumption DEF IsSound, Notice, Rows, States
<1>3. Notice("pending", 0, Unheld, FALSE).state = "pending"
  BY DEF Notice
<1>4. LeasesAreOfNotices'
  BY <1>1 DEF OutboxInv, LeasesAreOfNotices
<1>5. \A n \in DOMAIN outbox' : \/ n \in DOMAIN outbox /\ outbox'[n] = outbox[n]
                                \/ /\ n \notin DOMAIN outbox \/ ~Settled(n)
                                   /\ IsSound(outbox'[n]) /\ outbox'[n].state # "delivered"
  BY <1>1, <1>2, <1>3
<1> QED
  BY <1>1, <1>4, <1>5, NothingAcknowledged

LEMMA claimOutboxKeeps ==
  ASSUME OutboxInv, NEW c \in Consumers, NEW recovered \in SUBSET Expired,
         NEW claimed \in SUBSET Available, claimOutbox(c, recovered, claimed)
  PROVE  OutboxInv' /\ SettledKept
<1>1. /\ DOMAIN outbox' = DOMAIN outbox /\ UNCHANGED acknowledged
      /\ \A m \in DOMAIN outbox :
           outbox'[m] = CASE m \in recovered -> Retried(outbox[m])
                          [] m \in claimed   -> Handed(outbox[m], c)
                          [] OTHER           -> outbox[m]
  BY DEF claimOutbox
<1>2. ASSUME NEW m \in recovered  PROVE ~Settled(m) /\ IsSound(outbox'[m]) /\ outbox'[m].state # "delivered"
  <2>1. m \in DOMAIN outbox /\ outbox[m].state = "leased" /\ IsSound(outbox[m])
    BY DEF Expired, OutboxInv, RowsAreSound
  <2>2. m \notin claimed
    BY <2>1 DEF Available
  <2>3. outbox'[m] = Retried(outbox[m])
    BY <1>1, <2>1, <2>2
  <2>4. IsSound(Retried(outbox[m])) /\ Retried(outbox[m]).state \in {"retry_wait", "exhausted"}
    BY <2>1, RetriedIsSound
  <2> QED
    BY <2>1, <2>3, <2>4 DEF Settled
<1>3. ASSUME NEW m \in claimed, m \notin recovered
      PROVE  ~Settled(m) /\ IsSound(outbox'[m]) /\ outbox'[m].state # "delivered"
  <2>1. m \in DOMAIN outbox /\ outbox[m].state \in {"pending", "retry_wait"} /\ IsSound(outbox[m])
    BY DEF Available, OutboxInv, RowsAreSound
  <2>2. outbox'[m] = Handed(outbox[m], c)
    BY <1>1, <1>3, <2>1
  <2>3. IsSound(Handed(outbox[m], c)) /\ Handed(outbox[m], c).state = "leased"
    BY <2>1, HandedIsSound
  <2> QED
    BY <2>1, <2>2, <2>3 DEF Settled
<1>4. LeasesAreOfNotices'
  <2> DEFINE handed == {[notice |-> m, attempt |-> outbox[m].attempts + 1] : m \in claimed}
  <2>1. leases' = [leases EXCEPT ![c] = @ \cup handed]
    BY DEF claimOutbox
  <2>2. \A l \in handed : l.notice \in DOMAIN outbox
    BY DEF Available
  <2> HIDE DEF handed
  <2> QED
    BY <1>1, <2>1, <2>2 DEF OutboxInv, LeasesAreOfNotices
<1>5. \A m \in DOMAIN outbox' : \/ m \in DOMAIN outbox /\ outbox'[m] = outbox[m]
                                \/ /\ m \notin DOMAIN outbox \/ ~Settled(m)
                                   /\ IsSound(outbox'[m]) /\ outbox'[m].state # "delivered"
  BY <1>1, <1>2, <1>3
<1> QED
  BY <1>1, <1>4, <1>5, NothingAcknowledged

-----------------------------------------------------------------------------
(* Consumers only give leases back.                                        *)
LEMMA LeasesGivenBack ==
  ASSUME LeasesAreOfNotices, DOMAIN outbox \subseteq DOMAIN outbox', NEW c \in Consumers, NEW kept,
         kept \subseteq leases[c], leases' = [leases EXCEPT ![c] = kept]
  PROVE  LeasesAreOfNotices'
BY DEF LeasesAreOfNotices

LEMMA failOutboxKeeps ==
  ASSUME OutboxInv, NEW c \in Consumers, NEW l \in leases[c], failOutbox(c, l)
  PROVE  OutboxInv' /\ SettledKept
<1>1. l.notice \in DOMAIN outbox /\ outbox[l.notice].state = "leased" /\ IsSound(outbox[l.notice])
  BY DEF failOutbox, validateLiveOutboxLease, OutboxInv, LeasesAreOfNotices, RowsAreSound
<1>2. /\ DOMAIN outbox' = DOMAIN outbox /\ UNCHANGED acknowledged
      /\ \A m \in DOMAIN outbox :
           outbox'[m] = IF m = l.notice THEN Retried(outbox[l.notice]) ELSE outbox[m]
  BY DEF failOutbox
<1>3. LeasesAreOfNotices'
  <2>1. leases' = [leases EXCEPT ![c] = leases[c] \ {l}]
    BY DEF failOutbox, GiveBack
  <2>2. LeasesAreOfNotices /\ DOMAIN outbox \subseteq DOMAIN outbox'
    BY <1>2 DEF OutboxInv
  <2>3. leases[c] \ {l} \subseteq leases[c]
    OBVIOUS
  <2> QED
    BY <2>1, <2>2, <2>3, LeasesGivenBack
<1>4. \A m \in DOMAIN outbox' : \/ m \in DOMAIN outbox /\ outbox'[m] = outbox[m]
                                \/ /\ m \notin DOMAIN outbox \/ ~Settled(m)
                                   /\ IsSound(outbox'[m]) /\ outbox'[m].state # "delivered"
  BY <1>1, <1>2, RetriedIsSound DEF Settled
<1> QED
  BY <1>2, <1>3, <1>4, NothingAcknowledged

LEMMA acknowledgeOutboxKeeps ==
  ASSUME OutboxInv, NEW c \in Consumers, NEW l \in leases[c], acknowledgeOutbox(c, l)
  PROVE  OutboxInv' /\ SettledKept
<1> DEFINE n == l.notice
<1>1. n \in DOMAIN outbox /\ outbox[n].state = "leased" /\ outbox[n].attempts = l.attempt
  BY DEF acknowledgeOutbox, validateLiveOutboxLease, OutboxInv, LeasesAreOfNotices
<1>2. IsSound(outbox[n])
  BY <1>1 DEF OutboxInv, RowsAreSound
<1>3. /\ DOMAIN outbox' = DOMAIN outbox
      /\ \A m \in DOMAIN outbox :
           outbox'[m] = IF m = n THEN Notice("delivered", outbox[n].attempts, Unheld, FALSE)
                        ELSE outbox[m]
  BY DEF acknowledgeOutbox
<1>4. /\ DOMAIN acknowledged' = DOMAIN acknowledged \cup {n}
      /\ \A m \in DOMAIN acknowledged' :
           acknowledged'[m] = IF m = n THEN l.attempt ELSE acknowledged[m]
  BY DEF acknowledgeOutbox
<1> DEFINE row == Notice("delivered", outbox[n].attempts, Unheld, FALSE)
<1>5. IsSound(row) /\ row.state = "delivered" /\ row.attempts = outbox[n].attempts
  BY <1>2 DEF IsSound, Notice, Rows, States
<1> HIDE DEF n, row
<1>6. \A m \in DOMAIN outbox : outbox'[m] = IF m = n THEN row ELSE outbox[m]
  BY <1>3 DEF row
<1>7. RowsAreSound'
  BY <1>3, <1>5, <1>6 DEF OutboxInv, RowsAreSound
<1>8. AcknowledgedAreDelivered'
  <2>1. DOMAIN acknowledged' = {m \in DOMAIN outbox' : outbox'[m].state = "delivered"}
    BY <1>1, <1>3, <1>4, <1>5, <1>6 DEF OutboxInv, AcknowledgedAreDelivered
  <2>2. \A m \in DOMAIN acknowledged' : acknowledged'[m] = outbox'[m].attempts
    BY <1>1, <1>4, <1>5, <1>6 DEF OutboxInv, AcknowledgedAreDelivered
  <2> QED
    BY <2>1, <2>2 DEF AcknowledgedAreDelivered
<1>9. LeasesAreOfNotices'
  <2>1. leases' = [leases EXCEPT ![c] = leases[c] \ {l}]
    BY DEF acknowledgeOutbox, GiveBack
  <2>2. LeasesAreOfNotices /\ DOMAIN outbox \subseteq DOMAIN outbox'
    BY <1>3 DEF OutboxInv
  <2>3. leases[c] \ {l} \subseteq leases[c]
    OBVIOUS
  <2> QED
    BY <2>1, <2>2, <2>3, LeasesGivenBack
<1>10. SettledKept
  BY <1>1, <1>3, <1>6 DEF SettledKept, Settled
<1> QED
  BY <1>7, <1>8, <1>9, <1>10 DEF OutboxInv

LEMMA ConsumersKeep ==
  ASSUME OutboxInv, NEW c \in Consumers, Die(c) \/ \E l \in leases[c] : answerLate(c, l)
  PROVE  OutboxInv' /\ SettledKept
<1>1. UNCHANGED <<outbox, acknowledged>>
  BY DEF Die, answerLate
<1>2. PICK kept : kept \subseteq leases[c] /\ leases' = [leases EXCEPT ![c] = kept]
  <2>1. CASE Die(c)
    BY <2>1 DEF Die
  <2>2. ASSUME NEW l \in leases[c], answerLate(c, l)
        PROVE  leases[c] \ {l} \subseteq leases[c] /\ leases' = [leases EXCEPT ![c] = leases[c] \ {l}]
    BY <2>2 DEF answerLate, GiveBack, OutboxInv, LeasesAreOfNotices
  <2> QED
    BY <2>1, <2>2
<1>3. LeasesAreOfNotices'
  BY <1>1, <1>2, LeasesGivenBack DEF OutboxInv
<1> QED
  BY <1>1, <1>3, NothingAcknowledged

LEMMA ExpireLeaseKeeps ==
  ASSUME OutboxInv, NEW m \in DOMAIN outbox, ExpireLease(m)
  PROVE  OutboxInv' /\ SettledKept
<1>1. IsSound(outbox[m]) /\ outbox[m].state = "leased"
  BY DEF OutboxInv, RowsAreSound, ExpireLease, IsSound
<1>2. /\ DOMAIN outbox' = DOMAIN outbox /\ UNCHANGED <<leases, acknowledged>>
      /\ outbox'[m] = [outbox[m] EXCEPT !.live = FALSE]
      /\ \A n \in DOMAIN outbox : n # m => outbox'[n] = outbox[n]
  BY DEF ExpireLease
<1>3. IsSound(outbox'[m]) /\ outbox'[m].state = "leased"
  BY <1>1, <1>2 DEF IsSound, Rows
<1>4. LeasesAreOfNotices'
  BY <1>2 DEF OutboxInv, LeasesAreOfNotices
<1>5. \A n \in DOMAIN outbox' : \/ n \in DOMAIN outbox /\ outbox'[n] = outbox[n]
                                \/ /\ n \notin DOMAIN outbox \/ ~Settled(n)
                                   /\ IsSound(outbox'[n]) /\ outbox'[n].state # "delivered"
  BY <1>1, <1>2, <1>3 DEF Settled
<1> QED
  BY <1>2, <1>4, <1>5, NothingAcknowledged

LEMMA OutboxStepKeeps ==
  ASSUME OutboxInv, [OutboxNext]_outboxVars
  PROVE  OutboxInv' /\ SettledKept
<1>1. ASSUME NEW m \in JobNotices, insertStateOutbox(m)  PROVE OutboxInv' /\ SettledKept
  BY <1>1, QueuedKeeps DEF insertStateOutbox
<1>2. ASSUME NEW c \in Consumers, ClaimSome(c)  PROVE OutboxInv' /\ SettledKept
  BY <1>2, claimOutboxKeeps DEF ClaimSome
<1>3. ASSUME NEW c \in Consumers, NEW l \in leases[c], acknowledgeOutbox(c, l) \/ failOutbox(c, l)
      PROVE  OutboxInv' /\ SettledKept
  BY <1>3, acknowledgeOutboxKeeps, failOutboxKeeps
<1>4. ASSUME NEW c \in Consumers, Die(c) \/ \E l \in leases[c] : answerLate(c, l)
      PROVE  OutboxInv' /\ SettledKept
  BY <1>4, ConsumersKeep
<1>5. ASSUME NEW m \in DOMAIN outbox, ExpireLease(m)  PROVE OutboxInv' /\ SettledKept
  BY <1>5, ExpireLeaseKeeps
<1>6. CASE UNCHANGED outboxVars
  BY <1>6, NothingAcknowledged DEF outboxVars, OutboxInv, LeasesAreOfNotices
<1> QED
  BY <1>1, <1>2, <1>3, <1>4, <1>5, <1>6 DEF OutboxNext, Deliver

(* Consumers neither add notices nor take any away.                        *)
LEMMA DeliverAddsNothing ==
  ASSUME OutboxInv, Deliver
  PROVE  DOMAIN outbox' = DOMAIN outbox
<1>1. CASE \E c \in Consumers : ClaimSome(c) \/ Die(c)
  BY <1>1 DEF ClaimSome, claimOutbox, Die
<1>2. ASSUME NEW c \in Consumers, NEW l \in leases[c],
             acknowledgeOutbox(c, l) \/ failOutbox(c, l) \/ answerLate(c, l)
      PROVE  DOMAIN outbox' = DOMAIN outbox
  BY <1>2 DEF acknowledgeOutbox, failOutbox, answerLate
<1>3. CASE \E m \in DOMAIN outbox : ExpireLease(m)
  BY <1>3 DEF ExpireLease
<1> QED
  BY <1>1, <1>2, <1>3 DEF Deliver

LEMMA OutboxStarts == OutboxInit => OutboxInv
BY DEF OutboxInit, OutboxInv, RowsAreSound, LeasesAreOfNotices, AcknowledgedAreDelivered

-----------------------------------------------------------------------------
LEMMA SoundOutboxIsTrue == OutboxInv => DeliveriesAreTrue
<1> SUFFICES ASSUME OutboxInv  PROVE DeliveriesAreTrue
  OBVIOUS
<1>1. \A m \in DOMAIN outbox : IsSound(outbox[m])
  BY DEF OutboxInv, RowsAreSound
<1>2. \A m \in DOMAIN outbox : outbox[m].attempts <= MaxDeliveries
  BY <1>1, OutboxAssumption DEF IsSound, Rows
<1> QED
  BY <1>1, <1>2 DEF OutboxInv, AcknowledgedAreDelivered, DeliveriesAreTrue, Settled,
                    validateLiveOutboxLease, IsSound

(* A notice is delivered only by the consumer it was last handed to and    *)
(* given up only after its last delivery (worker.ts, reduceOutboxState).   *)
THEOREM DeliveriesHold == OutboxSpec => []DeliveriesAreTrue
<1>1. OutboxInv /\ [OutboxNext]_outboxVars => OutboxInv'
  BY OutboxStepKeeps
<1> QED
  BY <1>1, OutboxStarts, SoundOutboxIsTrue, PTL DEF OutboxSpec

(* What is settled stays as it is, though it be queued again, recovered,   *)
(* claimed or answered late (worker.ts, claimOutbox; ON CONFLICT DO        *)
(* NOTHING in insertStateOutbox).                                          *)
THEOREM SettledForGood == OutboxSpec => [][SettledKept]_outboxVars
<1>1. OutboxInv /\ [OutboxNext]_outboxVars => OutboxInv' /\ SettledKept
  BY OutboxStepKeeps
<1> QED
  BY <1>1, OutboxStarts, PTL DEF OutboxSpec

-----------------------------------------------------------------------------
(* The ledger.                                                             *)

Services  == UNION {r.services : r \in Registrations}
Providers == {e.provider : e \in Events \cup AdminEvidence} \cup {"none"}
Activations == [by : {"initial", "cas", "event"}, fingerprint : Fingerprints,
                services : SUBSET Services, provider : Providers, order : Nat,
                event : EventIds \cup {"none"}, expected : Nat]

LedgerTyped ==
  /\ registered \in [Fingerprints -> [services : SUBSET Services]]
  /\ activations \in Seq(Activations)
  /\ DOMAIN events = EventIds
  /\ \A i \in EventIds : events[i].targets # {} =>
       events[i].content \in Events /\ events[i].content.id = i
LastIsInForce ==
  IF activations = <<>> THEN inForce = NoActivation
  ELSE inForce = activations[Len(activations)]

(* What one activation owes to the events and documents it came from, and  *)
(* to those before it.  A fingerprint is registered once activated, so the *)
(* services on both sides stay what they were; an event that activated is  *)
(* stored, so it does not activate again.                                  *)
CameFrom(k) ==
  /\ IsRegistered(activations[k].fingerprint)
  /\ ByEvent(k) => /\ activations[k].event \in EventIds /\ activations[k].provider # "none"
                   /\ events[activations[k].event].targets # {}
Follows(i, j) ==
  /\ activations[i].event # activations[j].event
  /\ (\A k \in i..j : ByEvent(k)) =>
       /\ activations[i].provider = activations[j].provider
       /\ activations[i].order < activations[j].order
Touched(k) ==
  /\ Announced(activations[k].fingerprint, activations[k].services) \subseteq DOMAIN outbox
  /\ activations[k].services =
       ServicesOf(activations[k - 1].fingerprint) \cup ServicesOf(activations[k].fingerprint)
  /\ activations[k].by = "cas" => activations[k].expected = k - 1
HistoryKept ==
  /\ \A k \in 1..Len(activations) : CameFrom(k)
  /\ \A i, j \in 1..Len(activations) : i < j /\ ByEvent(i) /\ ByEvent(j) => Follows(i, j)
  /\ \A k \in 2..Len(activations) : Touched(k)

IsScheduled(i) == \E t \in events[i].targets : t.disposition = "scheduled"
HasActivated(i) == \E k \in 1..Len(activations) : ByEvent(k) /\ activations[k].event = i
ScheduledHaveActivated ==
  \A i \in EventIds : events[i].targets # {} /\ events[i].content.type = "configuration.changed" =>
    (IsScheduled(i) <=> HasActivated(i))
IsTold(m) == \E i \in EventIds : \E t \in events[i].targets : m = Disposed(events[i].content, t)
NoticesTell == \A m : m \in DOMAIN outbox /\ m.kind = "event.disposition" <=> IsTold(m)

LedgerInv == LedgerTyped /\ LastIsInForce /\ HistoryKept /\ ScheduledHaveActivated /\ NoticesTell

-----------------------------------------------------------------------------
LEMMA QueuedDomain ==
  ASSUME NEW notices, outbox' = Queued(notices)
  PROVE  DOMAIN outbox' = DOMAIN outbox \cup notices
BY DEF Queued

LEMMA TypedEvents ==
  ASSUME NEW e \in Events
  PROVE  /\ e.id \in EventIds /\ e.provider \in Providers /\ e.provider # "none"
         /\ e.order \in Nat /\ e.services # {}
BY EventsAreWhole, OrdersAreNumbers DEF EventIds, Providers

LEMMA ServicesTyped ==
  ASSUME LedgerTyped, NEW f \in Fingerprints  PROVE ServicesOf(f) \in SUBSET Services
BY DEF LedgerTyped, ServicesOf

LEMMA LastIsLast ==
  ASSUME LedgerInv
  PROVE  /\ activations \in Seq(Activations) /\ Len(activations) \in Nat
         /\ inForce = NoActivation <=> Len(activations) = 0
         /\ Len(activations) > 0 => /\ inForce = activations[Len(activations)]
                                    /\ inForce \in Activations
<1>1. activations \in Seq(Activations) /\ Len(activations) \in Nat
  BY DEF LedgerInv, LedgerTyped
<1>2. Len(activations) = 0 <=> activations = <<>>
  BY <1>1
<1>3. Len(activations) > 0 => activations[Len(activations)] \in Activations
  BY <1>1
<1>4. NoActivation \notin Activations
  BY DEF NoActivation, Activations
<1> QED
  BY <1>1, <1>2, <1>3, <1>4 DEF LedgerInv, LastIsInForce

(* Activations, events and notices that a step leaves alone.               *)
LEMMA HistoryUntouched ==
  ASSUME LedgerInv, UNCHANGED <<activations, inForce>>, DOMAIN outbox \subseteq DOMAIN outbox',
         \A f \in Fingerprints : IsRegistered(f) => IsRegistered(f)' /\ ServicesOf(f)' = ServicesOf(f),
         \A i \in EventIds : events[i].targets # {} => events'[i].targets # {}
  PROVE  LastIsInForce' /\ HistoryKept'
<1>1. activations \in Seq(Activations)
  BY DEF LedgerInv, LedgerTyped
<1>2. LastIsInForce'
  BY DEF LedgerInv, LastIsInForce
<1>3. ASSUME NEW k \in 1..Len(activations)  PROVE CameFrom(k)'
  <2>1. CameFrom(k)
    BY <1>3 DEF LedgerInv, HistoryKept
  <2>2. IsRegistered(activations[k].fingerprint) /\ activations[k].fingerprint \in Fingerprints
    BY <2>1 DEF CameFrom, IsRegistered
  <2>3. IsRegistered(activations[k].fingerprint)'
    BY <2>2
  <2> QED
    BY <2>1, <2>3 DEF CameFrom, ByEvent
<1>4. ASSUME NEW i \in 1..Len(activations), NEW j \in 1..Len(activations), i < j,
             ByEvent(i)', ByEvent(j)'
      PROVE  Follows(i, j)'
  <2>1. Follows(i, j)
    BY <1>4 DEF LedgerInv, HistoryKept, ByEvent
  <2> QED
    BY <2>1 DEF Follows, ByEvent
<1>0. \A f \in Fingerprints : IsRegistered(f) => registered'[f].services = registered[f].services
  BY DEF ServicesOf
<1>5. ASSUME NEW k \in 2..Len(activations)  PROVE Touched(k)'
  <2>1. Touched(k) /\ CameFrom(k) /\ CameFrom(k - 1)
    BY <1>1, <1>5 DEF LedgerInv, HistoryKept
  <2>2. IsRegistered(activations[k].fingerprint) /\ IsRegistered(activations[k - 1].fingerprint)
    BY <2>1 DEF CameFrom
  <2>3. /\ ServicesOf(activations[k].fingerprint)' = ServicesOf(activations[k].fingerprint)
        /\ ServicesOf(activations[k - 1].fingerprint)' = ServicesOf(activations[k - 1].fingerprint)
    BY <1>0, <2>2 DEF IsRegistered, ServicesOf
  <2> QED
    BY <2>1, <2>3 DEF Touched, Announced, Activated
<1> QED
  BY <1>2, <1>3, <1>4, <1>5 DEF HistoryKept

LEMMA NothingNew ==
  ASSUME LedgerInv, UNCHANGED <<activations, events>>
  PROVE  ScheduledHaveActivated'
BY DEF LedgerInv, ScheduledHaveActivated, IsScheduled, HasActivated, ByEvent

LEMMA NothingTold ==
  ASSUME LedgerInv, UNCHANGED events, NEW others, DOMAIN outbox' = DOMAIN outbox \cup others,
         \A m \in others : m.kind # "event.disposition"
  PROVE  NoticesTell'
BY DEF LedgerInv, NoticesTell, IsTold

-----------------------------------------------------------------------------
(* An activation that follows from the one in force extends the history.   *)
LEMMA HistoryExtends ==
  ASSUME LedgerInv, NEW a \in Activations, inForce' = a, activations' = Append(activations, a),
         IsRegistered(a.fingerprint), UNCHANGED registered, DOMAIN outbox \subseteq DOMAIN outbox',
         \A i \in EventIds : events[i].targets # {} => events'[i].targets # {},
         a.by = "event" =>
           /\ a.event \in EventIds /\ a.provider # "none"
           /\ events[a.event].targets = {} /\ events'[a.event].targets # {}
           /\ inForce.provider = "none" \/ (inForce.provider = a.provider /\ inForce.order < a.order),
         Len(activations) > 0 =>
           /\ Announced(a.fingerprint, a.services) \subseteq DOMAIN outbox'
           /\ a.services = ServicesOf(inForce.fingerprint) \cup ServicesOf(a.fingerprint)
           /\ a.by = "cas" => a.expected = Len(activations)
  PROVE  activations' \in Seq(Activations) /\ LastIsInForce' /\ HistoryKept'
<1>0. activations \in Seq(Activations)
  BY LastIsLast
<1>00. PICK n \in Nat : n = Len(activations)
  BY <1>0
<1>1. activations \in Seq(Activations) /\ n \in Nat /\ n = Len(activations)
  BY <1>0, <1>00
<1>2. activations' \in Seq(Activations) /\ Len(activations') = n + 1
  BY <1>1
<1>3. activations'[n + 1] = a /\ \A k \in 1..n : activations'[k] = activations[k]
  BY <1>1
<1>4. LastIsInForce'
  BY <1>1, <1>2, <1>3 DEF LastIsInForce
<1>5. n > 0 => inForce = activations[n]
  BY <1>1, LastIsLast
<1>6. \A k \in 1..n : CameFrom(k)
  BY <1>1 DEF LedgerInv, HistoryKept
<1>7. \A k \in 1..n : ByEvent(k)' <=> ByEvent(k)
  BY <1>3 DEF ByEvent
<1>8. ASSUME NEW k \in 1..(n + 1)  PROVE CameFrom(k)'
  <2>1. CASE k \in 1..n
    <3>1. CameFrom(k) /\ activations'[k] = activations[k] /\ (ByEvent(k)' <=> ByEvent(k))
      BY <1>3, <1>6, <1>7, <2>1
    <3> QED
      BY <3>1 DEF CameFrom, IsRegistered, ServicesOf
  <2>2. CASE k = n + 1
    <3>1. activations'[k] = a /\ (ByEvent(k)' <=> a.by = "event")
      BY <1>3, <2>2 DEF ByEvent
    <3> QED
      BY <3>1 DEF CameFrom, IsRegistered, ServicesOf
  <2> QED
    BY <1>1, <2>1, <2>2
<1>9. ASSUME NEW i \in 1..(n + 1), NEW j \in 1..(n + 1), i < j, ByEvent(i)', ByEvent(j)'
      PROVE  Follows(i, j)'
  <2>1. i \in 1..n /\ activations'[i] = activations[i] /\ ByEvent(i)
    BY <1>1, <1>3, <1>7, <1>9
  <2>2. CASE j \in 1..n
    <3>1. Follows(i, j)
      BY <1>1, <1>7, <1>9, <2>1, <2>2 DEF LedgerInv, HistoryKept
    <3>2. activations'[j] = activations[j] /\ \A k \in i..j : ByEvent(k)' <=> ByEvent(k)
      BY <1>1, <1>3, <1>7, <2>1, <2>2
    <3> QED
      BY <2>1, <3>1, <3>2 DEF Follows
  <2>3. CASE j = n + 1
    <3>1. activations'[j] = a /\ a.by = "event"
      BY <1>3, <1>9, <2>3 DEF ByEvent
    <3>2. CameFrom(i) /\ events[a.event].targets = {}
      BY <1>6, <2>1, <3>1
    <3>3. activations[i].event # a.event
      BY <2>1, <3>2 DEF CameFrom
    <3>4. ASSUME \A k \in i..j : ByEvent(k)'
          PROVE  activations[i].provider = a.provider /\ activations[i].order < a.order
      <4>1. n \in 1..n /\ n \in i..j /\ ByEvent(n)
        BY <1>1, <1>7, <2>1, <2>3, <3>4
      <4>2. activations[n].provider = a.provider /\ activations[n].order < a.order
        <5>1. CameFrom(n) /\ inForce = activations[n]
          BY <1>1, <1>5, <1>6, <4>1
        <5> QED
          BY <3>1, <4>1, <5>1 DEF CameFrom
      <4>3. CASE i < n
        <5>1. \A k \in i..n : ByEvent(k)
          BY <1>1, <1>7, <2>1, <2>3, <3>4
        <5>2. Follows(i, n)
          BY <1>1, <2>1, <4>1, <4>3 DEF LedgerInv, HistoryKept
        <5>3. activations[i].provider = activations[n].provider
              /\ activations[i].order < activations[n].order
          BY <5>1, <5>2 DEF Follows
        <5>4. activations[i].order \in Nat /\ activations[n].order \in Nat /\ a.order \in Nat
          <6>1. activations[i] \in Activations /\ activations[n] \in Activations
            BY <1>1, <2>1, <4>1
          <6> QED
            BY <6>1 DEF Activations
        <5> QED
          BY <4>2, <5>3, <5>4
      <4>4. CASE i = n
        BY <4>2, <4>4
      <4> QED
        BY <1>1, <2>1, <4>3, <4>4
    <3> QED
      BY <2>1, <3>1, <3>3, <3>4 DEF Follows
  <2> QED
    BY <1>1, <2>2, <2>3
<1>10. ASSUME NEW k \in 2..(n + 1)  PROVE Touched(k)'
  <2>1. CASE k \in 2..n
    <3>1. Touched(k) /\ k \in 1..n /\ k - 1 \in 1..n
      BY <1>1, <2>1 DEF LedgerInv, HistoryKept
    <3>2. activations'[k] = activations[k] /\ activations'[k - 1] = activations[k - 1]
      BY <1>3, <3>1
    <3> QED
      BY <3>1, <3>2 DEF Touched, Announced, Activated, ServicesOf
  <2>2. CASE k = n + 1
    <3>1. n > 0 /\ k - 1 = n /\ n \in 1..n
      BY <1>1, <1>10, <2>2
    <3>2. activations'[k] = a /\ activations'[k - 1] = inForce
      BY <1>1, <1>3, <1>5, <2>2, <3>1
    <3>3. /\ Announced(a.fingerprint, a.services) \subseteq DOMAIN outbox'
          /\ a.services = ServicesOf(inForce.fingerprint) \cup ServicesOf(a.fingerprint)
          /\ a.by = "cas" => a.expected = k - 1
      BY <1>1, <3>1
    <3> QED
      BY <3>2, <3>3 DEF Touched, Announced, Activated, ServicesOf
  <2> QED
    BY <1>1, <2>1, <2>2
<1> QED
  BY <1>2, <1>4, <1>8, <1>9, <1>10 DEF HistoryKept

-----------------------------------------------------------------------------
LEMMA registerConfigurationKeeps ==
  ASSUME LedgerInv, NEW r \in Registrations, registerConfiguration(r)
  PROVE  LedgerInv'
<1>1. UNCHANGED <<inForce, activations, events, outbox>>
  BY DEF registerConfiguration, outboxVars
<1>2. registered \in [Fingerprints -> [services : SUBSET Services]] /\ r.fingerprint \in Fingerprints
      /\ r.services \subseteq Services
  BY DEF LedgerInv, LedgerTyped, Fingerprints, Services
<1>3. /\ registered' \in [Fingerprints -> [services : SUBSET Services]]
      /\ \A f \in Fingerprints : registered[f].services # {} =>
           registered'[f].services = registered[f].services
  BY <1>2 DEF registerConfiguration
<1>4. \A f \in Fingerprints : IsRegistered(f) =>
        IsRegistered(f)' /\ ServicesOf(f)' = ServicesOf(f)
  BY <1>3 DEF IsRegistered, ServicesOf
<1>5. LedgerTyped'
  BY <1>1, <1>3 DEF LedgerInv, LedgerTyped
<1>6. LastIsInForce' /\ HistoryKept'
  BY <1>1, <1>4, HistoryUntouched
<1>7. ScheduledHaveActivated'
  BY <1>1, NothingNew
<1>8. NoticesTell'
  BY <1>1 DEF LedgerInv, NoticesTell, IsTold
<1> QED
  BY <1>5, <1>6, <1>7, <1>8 DEF LedgerInv

(* Reading the summary, or an event that was seen before, keeps all there. *)
LEMMA QuietStepsKeep ==
  ASSUME LedgerInv, UNCHANGED <<registered, inForce, activations, events>>,
         DOMAIN outbox' = DOMAIN outbox
  PROVE  LedgerInv'
<1>1. LedgerTyped'
  BY DEF LedgerInv, LedgerTyped
<1>2. LastIsInForce' /\ HistoryKept'
  BY HistoryUntouched DEF IsRegistered, ServicesOf
<1>3. ScheduledHaveActivated'
  BY NothingNew
<1>4. NoticesTell'
  BY DEF LedgerInv, NoticesTell, IsTold
<1> QED
  BY <1>1, <1>2, <1>3, <1>4 DEF LedgerInv

(* An activation that is not an event's leaves who has activated.          *)
LEMMA OthersDoNotActivateEvents ==
  ASSUME LedgerInv, UNCHANGED events, NEW a \in Activations, a.by # "event",
         activations' = Append(activations, a)
  PROVE  ScheduledHaveActivated'
<1>0. activations \in Seq(Activations)
  BY LastIsLast
<1>00. PICK n \in Nat : n = Len(activations)
  BY <1>0
<1>1. Len(activations') = n + 1 /\ activations'[n + 1] = a
      /\ \A k \in 1..n : activations'[k] = activations[k]
  BY <1>0, <1>00
<1>2. ASSUME NEW i \in EventIds  PROVE HasActivated(i)' <=> HasActivated(i)
  <2>1. ASSUME NEW k \in 1..(n + 1), ByEvent(k)', activations'[k].event = i  PROVE HasActivated(i)
    <3>1. k # n + 1
      BY <1>1, <2>1 DEF ByEvent
    <3>2. k \in 1..n
      BY <3>1
    <3> QED
      BY <1>00, <1>1, <2>1, <3>2 DEF HasActivated, ByEvent
  <2>2. ASSUME NEW k \in 1..n, ByEvent(k), activations[k].event = i  PROVE HasActivated(i)'
    BY <1>1, <2>2 DEF HasActivated, ByEvent
  <2>3. HasActivated(i) => HasActivated(i)'
    BY <1>00, <2>2 DEF HasActivated
  <2>4. HasActivated(i)' => HasActivated(i)
    BY <1>1, <2>1 DEF HasActivated
  <2> QED
    BY <2>3, <2>4
<1> QED
  BY <1>2 DEF LedgerInv, ScheduledHaveActivated, IsScheduled

LEMMA activateInitialConfigurationKeeps ==
  ASSUME LedgerInv, NEW f \in Fingerprints, activateInitialConfiguration(f)
  PROVE  LedgerInv'
<1> DEFINE a == [by |-> "initial", fingerprint |-> f, services |-> ServicesOf(f),
                 provider |-> "none", order |-> 0, event |-> "none", expected |-> 0]
<1>0. /\ inForce = NoActivation /\ IsRegistered(f) /\ UNCHANGED <<registered, events, outbox>>
      /\ inForce' = a /\ activations' = Append(activations, a)
  BY DEF activateInitialConfiguration, PutInForce, NoActivation, outboxVars
<1>1. a \in Activations
  <2>1. ServicesOf(f) \in SUBSET Services
    BY ServicesTyped DEF LedgerInv
  <2>2. "none" \in Providers /\ "none" \in EventIds \cup {"none"}
    BY DEF Providers
  <2> QED
    BY <2>1, <2>2 DEF Activations
<1>2. a.by = "initial" /\ a.fingerprint = f
  OBVIOUS
<1> HIDE DEF a
<1>3. Len(activations) = 0
  BY <1>0, LastIsLast
<1>4. activations' \in Seq(Activations) /\ LastIsInForce' /\ HistoryKept'
  BY <1>0, <1>1, <1>2, <1>3, HistoryExtends
<1>5. LedgerTyped'
  BY <1>0, <1>4 DEF LedgerInv, LedgerTyped
<1>6. ScheduledHaveActivated'
  BY <1>0, <1>1, <1>2, OthersDoNotActivateEvents
<1>7. NoticesTell'
  BY <1>0 DEF LedgerInv, NoticesTell, IsTold
<1> QED
  BY <1>4, <1>5, <1>6, <1>7 DEF LedgerInv

LEMMA AnnouncedAreNoDispositions ==
  ASSUME NEW f, NEW services  PROVE \A m \in Announced(f, services) : m.kind # "event.disposition"
BY DEF Announced, Activated

LEMMA activateConfigurationByCasKeeps ==
  ASSUME LedgerInv, NEW w \in Administrators, NEW f \in Fingerprints, NEW evidence \in AdminEvidence,
         activateConfigurationByCas(w, f, evidence)
  PROVE  LedgerInv'
<1> DEFINE touched == Impact(inForce.fingerprint, f)
<1> DEFINE a == [by |-> "cas", fingerprint |-> f, services |-> touched,
                 provider |-> evidence.provider, order |-> evidence.order, event |-> "none",
                 expected |-> saw[w]]
<1>0. /\ VersionIsCurrent(saw[w]) /\ IsRegistered(f) /\ f # inForce.fingerprint
      /\ UNCHANGED <<registered, events>> /\ outbox' = Queued(Announced(f, touched))
      /\ inForce' = a /\ activations' = Append(activations, a)
  BY DEF activateConfigurationByCas, PutInForce
<1>1. Len(activations) > 0 /\ saw[w] = Len(activations) /\ saw[w] \in Nat
  BY <1>0, LastIsLast DEF VersionIsCurrent
<1>2. inForce \in Activations /\ inForce.fingerprint \in Fingerprints
  BY <1>1, LastIsLast DEF Activations
<1>3. touched = ServicesOf(inForce.fingerprint) \cup ServicesOf(f)
  BY <1>0 DEF Impact
<1>4. touched \in SUBSET Services
  BY <1>2, <1>3, ServicesTyped DEF LedgerInv
<1>5. evidence.provider \in Providers /\ evidence.order \in Nat
  BY OrdersAreNumbers DEF Providers
<1> HIDE DEF touched
<1>6. a \in Activations
  BY <1>1, <1>4, <1>5 DEF Activations
<1>7. a.by = "cas" /\ a.fingerprint = f /\ a.services = touched /\ a.expected = saw[w]
  OBVIOUS
<1> HIDE DEF a
<1>8. DOMAIN outbox' = DOMAIN outbox \cup Announced(f, touched)
  BY <1>0, QueuedDomain
<1>9. activations' \in Seq(Activations) /\ LastIsInForce' /\ HistoryKept'
  <2>1. a.by # "event" /\ IsRegistered(a.fingerprint) /\ DOMAIN outbox \subseteq DOMAIN outbox'
    BY <1>0, <1>7, <1>8
  <2>2. /\ Announced(a.fingerprint, a.services) \subseteq DOMAIN outbox'
        /\ a.services = ServicesOf(inForce.fingerprint) \cup ServicesOf(a.fingerprint)
        /\ a.expected = Len(activations)
    BY <1>1, <1>3, <1>7, <1>8
  <2> QED
    BY <1>0, <1>6, <2>1, <2>2, HistoryExtends
<1>10. LedgerTyped'
  BY <1>0, <1>9 DEF LedgerInv, LedgerTyped
<1>11. ScheduledHaveActivated'
  BY <1>0, <1>6, <1>7, OthersDoNotActivateEvents
<1>12. NoticesTell'
  BY <1>0, <1>8, AnnouncedAreNoDispositions, NothingTold
<1> QED
  BY <1>9, <1>10, <1>11, <1>12 DEF LedgerInv

-----------------------------------------------------------------------------
(* Storing an event that was not seen before, with what became of it.      *)
LEMMA EventStored ==
  ASSUME LedgerInv, NEW e \in Events, NotSeen(e), NEW targets, targets # {}, NEW others,
         events' = [events EXCEPT ![e.id] = [content |-> e, under |-> inForce.fingerprint,
                                             targets |-> targets]],
         DOMAIN outbox' = DOMAIN outbox \cup ({Disposed(e, t) : t \in targets} \cup others),
         \A m \in others : m.kind # "event.disposition"
  PROVE  /\ DOMAIN events' = EventIds
         /\ events'[e.id].content = e /\ events'[e.id].targets = targets
         /\ \A i \in EventIds : i # e.id => events'[i] = events[i]
         /\ \A i \in EventIds : events[i].targets # {} => events'[i].targets # {}
         /\ \A i \in EventIds : events'[i].targets # {} =>
              events'[i].content \in Events /\ events'[i].content.id = i
         /\ NoticesTell'
<1>1. e.id \in EventIds /\ DOMAIN events = EventIds
  BY TypedEvents DEF LedgerInv, LedgerTyped
<1>2. DOMAIN events' = EventIds /\ events'[e.id].content = e /\ events'[e.id].targets = targets
  BY <1>1
<1>3. \A i \in EventIds : i # e.id => events'[i] = events[i]
  BY <1>1
<1>4. events[e.id].targets = {}
  BY DEF NotSeen
<1>5. \A i \in EventIds : events'[i].targets # {} =>
        events'[i].content \in Events /\ events'[i].content.id = i
  BY <1>1, <1>2, <1>3 DEF LedgerInv, LedgerTyped
<1>6. ASSUME NEW m  PROVE IsTold(m)' <=> IsTold(m) \/ m \in {Disposed(e, t) : t \in targets}
  <2>1. ASSUME IsTold(m)'  PROVE IsTold(m) \/ m \in {Disposed(e, t) : t \in targets}
    <3>1. PICK i \in EventIds : \E t \in events'[i].targets : m = Disposed(events'[i].content, t)
      BY <2>1 DEF IsTold, Disposed
    <3>2. CASE i = e.id
      BY <1>2, <3>1, <3>2
    <3>3. CASE i # e.id
      BY <1>3, <3>1, <3>3 DEF IsTold
    <3> QED
      BY <3>2, <3>3
  <2>2. ASSUME IsTold(m)  PROVE IsTold(m)'
    <3>1. PICK i \in EventIds : \E t \in events[i].targets : m = Disposed(events[i].content, t)
      BY <2>2 DEF IsTold
    <3>2. i # e.id
      BY <1>4, <3>1
    <3>3. events'[i] = events[i]
      BY <1>3, <3>2
    <3> QED
      BY <3>1, <3>3 DEF IsTold, Disposed
  <2>3. ASSUME NEW t \in targets, m = Disposed(e, t)  PROVE IsTold(m)'
    BY <1>1, <1>2, <2>3 DEF IsTold, Disposed
  <2> QED
    BY <2>1, <2>2, <2>3
<1>7. \A t \in targets : Disposed(e, t).kind = "event.disposition"
  BY DEF Disposed
<1>8. NoticesTell'
  <2> SUFFICES ASSUME NEW m
               PROVE  m \in DOMAIN outbox' /\ m.kind = "event.disposition" <=> IsTold(m)'
    BY DEF NoticesTell
  <2>1. m \in DOMAIN outbox /\ m.kind = "event.disposition" <=> IsTold(m)
    BY DEF LedgerInv, NoticesTell
  <2>2. m \in DOMAIN outbox' <=>
          m \in DOMAIN outbox \/ m \in {Disposed(e, t) : t \in targets} \/ m \in others
    OBVIOUS
  <2>3. m \in {Disposed(e, t) : t \in targets} => m.kind = "event.disposition"
    BY <1>7
  <2>4. m \in others => m.kind # "event.disposition"
    OBVIOUS
  <2>5. IsTold(m)' <=> IsTold(m) \/ m \in {Disposed(e, t) : t \in targets}
    BY <1>6
  <2> QED
    BY <2>1, <2>2, <2>3, <2>4, <2>5
<1> QED
  BY <1>2, <1>3, <1>4, <1>5, <1>8

LEMMA ingestWorkKeeps ==
  ASSUME LedgerInv, NEW e \in Events, ingestWork(e)
  PROVE  LedgerInv'
<1>1. /\ e.type # "configuration.changed" /\ NotSeen(e)
      /\ UNCHANGED <<registered, inForce, activations>>
  BY DEF ingestWork
<1>2. PICK of \in [e.services -> Dispositions] :
        LET targets == {[service |-> s, disposition |-> of[s]] : s \in e.services} IN
        Record(e, targets) /\ outbox' = Queued({Disposed(e, t) : t \in targets})
  BY DEF ingestWork
<1> DEFINE targets == {[service |-> s, disposition |-> of[s]] : s \in e.services}
<1>3. targets # {}
  BY TypedEvents
<1>4. events' = [events EXCEPT ![e.id] = [content |-> e, under |-> inForce.fingerprint,
                                          targets |-> targets]]
  BY <1>2 DEF Record
<1>5. outbox' = Queued({Disposed(e, t) : t \in targets})
  BY <1>2
<1> DEFINE others == {}
<1>6. \A m \in others : m.kind # "event.disposition"
  OBVIOUS
<1>7. {Disposed(e, t) : t \in targets} \cup others = {Disposed(e, t) : t \in targets}
  OBVIOUS
<1> HIDE DEF targets, others
<1>8. DOMAIN outbox' = DOMAIN outbox \cup ({Disposed(e, t) : t \in targets} \cup others)
  BY <1>5, <1>7, QueuedDomain
<1>9. /\ DOMAIN events' = EventIds
      /\ events'[e.id].content = e /\ events'[e.id].targets = targets
      /\ \A i \in EventIds : i # e.id => events'[i] = events[i]
      /\ \A i \in EventIds : events[i].targets # {} => events'[i].targets # {}
      /\ \A i \in EventIds : events'[i].targets # {} =>
           events'[i].content \in Events /\ events'[i].content.id = i
      /\ NoticesTell'
  BY <1>1, <1>3, <1>4, <1>6, <1>8, EventStored
<1>10. LedgerTyped'
  BY <1>1, <1>9 DEF LedgerInv, LedgerTyped
<1>11. LastIsInForce' /\ HistoryKept'
  BY <1>1, <1>8, <1>9, HistoryUntouched DEF IsRegistered, ServicesOf
<1>12. ScheduledHaveActivated'
  <2> SUFFICES ASSUME NEW i \in EventIds, events'[i].targets # {},
                      events'[i].content.type = "configuration.changed"
               PROVE  IsScheduled(i)' <=> HasActivated(i)'
    BY DEF ScheduledHaveActivated
  <2>1. i # e.id /\ events'[i] = events[i]
    BY <1>1, <1>9
  <2>2. IsScheduled(i) <=> HasActivated(i)
    BY <2>1 DEF LedgerInv, ScheduledHaveActivated
  <2> QED
    BY <1>1, <2>1, <2>2 DEF IsScheduled, HasActivated, ByEvent
<1> QED
  BY <1>9, <1>10, <1>11, <1>12 DEF LedgerInv

-----------------------------------------------------------------------------
(* What is scheduled is ordered after what is in force, or was put there   *)
(* by nobody's event.                                                      *)
LEMMA ScheduledIsNewer ==
  ASSUME NEW current, NEW e \in Events, classify(current, e) # "conflict",
         DispositionOf(classify(current, e)) = "scheduled"
  PROVE  \/ current.provider = "none"
         \/ current.provider = e.provider /\ (current.order \in Nat => current.order < e.order)
<1>1. CASE current.provider \notin {"none", e.provider}
  <2>1. classify(current, e) = "incomparable"
    BY <1>1 DEF classify
  <2> QED
    BY <2>1 DEF DispositionOf
<1>2. CASE current.provider = e.provider /\ current.provider # "none"
           /\ (current.order = 0 \/ e.order = 0)
  <2>1. classify(current, e) = IF current.event = e.id THEN "exact_replay" ELSE "incomparable"
    BY <1>2 DEF classify
  <2>2. classify(current, e) = "exact_replay" \/ classify(current, e) = "incomparable"
    BY <2>1
  <2> QED
    BY <2>2 DEF DispositionOf
<1>3. CASE current.provider = e.provider /\ current.provider # "none"
           /\ ~(current.order = 0 \/ e.order = 0)
  <2>1. classify(current, e) = IF e.order < current.order THEN "stale"
                               ELSE IF e.order > current.order THEN "newer"
                               ELSE IF current.event = e.id THEN "exact_replay" ELSE "conflict"
    BY <1>3 DEF classify
  <2>2. classify(current, e) # "stale" /\ classify(current, e) # "exact_replay"
    BY DEF DispositionOf
  <2>3. ~(e.order < current.order) /\ e.order > current.order
    BY <2>1, <2>2
  <2> QED
    BY <1>3, <2>3, TypedEvents
<1> QED
  BY <1>1, <1>2, <1>3

LEMMA ingestConfigurationKeeps ==
  ASSUME LedgerInv, NEW e \in Events, ingestConfiguration(e)
  PROVE  LedgerInv'
<1> DEFINE class == classify(inForce, e)
           disposition == DispositionOf(class)
           targets == {[service |-> s, disposition |-> disposition] : s \in e.services}
           others == IF disposition = "scheduled" THEN Announced(e.fingerprint, e.services) ELSE {}
           a == [by |-> "event", fingerprint |-> e.fingerprint, services |-> e.services,
                 provider |-> e.provider, order |-> e.order, event |-> e.id, expected |-> 0]
<1>1. /\ e.type = "configuration.changed" /\ NotSeen(e) /\ authorizeNormalizedEvent(e)
      /\ UNCHANGED registered /\ class # "conflict"
      /\ events' = [events EXCEPT ![e.id] = [content |-> e, under |-> inForce.fingerprint,
                                             targets |-> targets]]
      /\ outbox' = Queued({Disposed(e, t) : t \in targets} \cup others)
      /\ disposition = "scheduled" => inForce' = a /\ activations' = Append(activations, a)
      /\ disposition # "scheduled" => UNCHANGED <<inForce, activations>>
  BY DEF ingestConfiguration, Record, PutInForce
<1>2. targets # {} /\ \A t \in targets : t.disposition = disposition
  <2>1. PICK s \in e.services : TRUE
    BY TypedEvents
  <2>2. [service |-> s, disposition |-> disposition] \in targets
    OBVIOUS
  <2>3. \A t \in targets : t.disposition = disposition
    OBVIOUS
  <2> QED
    BY <2>2, <2>3
<1>3. \A m \in others : m.kind # "event.disposition"
  BY AnnouncedAreNoDispositions
<1>4. disposition = "scheduled" =>
        \/ inForce.provider = "none"
        \/ inForce.provider = e.provider /\ (inForce.order \in Nat => inForce.order < e.order)
  BY <1>1, ScheduledIsNewer
<1>5. disposition = "scheduled" => Announced(e.fingerprint, e.services) \subseteq others
  OBVIOUS
<1>6. /\ a.by = "event" /\ a.fingerprint = e.fingerprint /\ a.services = e.services
      /\ a.provider = e.provider /\ a.order = e.order /\ a.event = e.id
  OBVIOUS
<1> HIDE DEF class, disposition, targets, others
<1>7. DOMAIN outbox' = DOMAIN outbox \cup ({Disposed(e, t) : t \in targets} \cup others)
  BY <1>1, QueuedDomain
<1>8. /\ DOMAIN events' = EventIds
      /\ events'[e.id].content = e /\ events'[e.id].targets = targets
      /\ \A i \in EventIds : i # e.id => events'[i] = events[i]
      /\ \A i \in EventIds : events[i].targets # {} => events'[i].targets # {}
      /\ \A i \in EventIds : events'[i].targets # {} =>
           events'[i].content \in Events /\ events'[i].content.id = i
      /\ NoticesTell'
  BY <1>1, <1>2, <1>3, <1>7, EventStored
<1>9. e.id \in EventIds /\ IsScheduled(e.id)' <=> disposition = "scheduled"
  BY <1>2, <1>8, TypedEvents DEF IsScheduled
<1>10. events[e.id].targets = {}
  BY <1>1 DEF NotSeen
<1>11. \A k \in 1..Len(activations) : ByEvent(k) => activations[k].event # e.id
  BY <1>10 DEF LedgerInv, HistoryKept, CameFrom
<1>12. CASE disposition # "scheduled"
  <2>1. UNCHANGED <<registered, inForce, activations>>
    BY <1>1, <1>12
  <2>2. LedgerTyped'
    BY <1>8, <2>1 DEF LedgerInv, LedgerTyped
  <2>3. LastIsInForce' /\ HistoryKept'
    BY <1>7, <1>8, <2>1, HistoryUntouched DEF IsRegistered, ServicesOf
  <2>4. ScheduledHaveActivated'
    <3> SUFFICES ASSUME NEW i \in EventIds, events'[i].targets # {},
                        events'[i].content.type = "configuration.changed"
                 PROVE  IsScheduled(i)' <=> HasActivated(i)'
      BY DEF ScheduledHaveActivated
    <3>1. HasActivated(i)' <=> HasActivated(i)
      BY <2>1 DEF HasActivated, ByEvent
    <3>2. CASE i = e.id
      BY <1>9, <1>11, <1>12, <3>1, <3>2 DEF HasActivated
    <3>3. CASE i # e.id
      <4>1. events'[i] = events[i]
        BY <1>8, <3>3
      <4> QED
        BY <3>1, <4>1 DEF LedgerInv, ScheduledHaveActivated, IsScheduled
    <3> QED
      BY <3>2, <3>3
  <2> QED
    BY <1>8, <2>2, <2>3, <2>4 DEF LedgerInv
<1>13. CASE disposition = "scheduled"
  <2>1. /\ IsRegistered(e.fingerprint) /\ inForce # NoActivation
        /\ e.services = Impact(inForce.fingerprint, e.fingerprint)
    BY <1>1 DEF authorizeNormalizedEvent
  <2>2. Len(activations) > 0 /\ inForce \in Activations
    BY <2>1, LastIsLast
  <2>3. e.services = ServicesOf(inForce.fingerprint) \cup ServicesOf(e.fingerprint)
    BY <2>1, TypedEvents DEF Impact
  <2>4. a \in Activations
    <3>1. inForce.fingerprint \in Fingerprints /\ e.fingerprint \in Fingerprints
      BY <2>1, <2>2 DEF IsRegistered, Activations
    <3>2. e.services \in SUBSET Services
      BY <2>3, <3>1, ServicesTyped DEF LedgerInv
    <3> QED
      BY <3>1, <3>2, TypedEvents DEF Activations
  <2> HIDE DEF a
  <2>5. inForce' = a /\ activations' = Append(activations, a)
    BY <1>1, <1>13
  <2>6. activations' \in Seq(Activations) /\ LastIsInForce' /\ HistoryKept'
    <3>1. /\ IsRegistered(a.fingerprint) /\ a.by # "cas"
          /\ Announced(a.fingerprint, a.services) \subseteq DOMAIN outbox'
          /\ a.services = ServicesOf(inForce.fingerprint) \cup ServicesOf(a.fingerprint)
      BY <1>5, <1>6, <1>7, <1>13, <2>1, <2>3
    <3>2. inForce.order \in Nat
      BY <2>2 DEF Activations
    <3>3. /\ a.event \in EventIds /\ a.provider # "none"
          /\ events[a.event].targets = {} /\ events'[a.event].targets # {}
          /\ inForce.provider = "none" \/ (inForce.provider = a.provider /\ inForce.order < a.order)
      BY <1>2, <1>4, <1>6, <1>8, <1>10, <1>13, <3>2, TypedEvents
    <3>4. DOMAIN outbox \subseteq DOMAIN outbox' /\ UNCHANGED registered
      BY <1>1, <1>7
    <3> QED
      BY <1>8, <2>4, <2>5, <3>1, <3>3, <3>4, HistoryExtends
  <2>7. LedgerTyped'
    BY <1>1, <1>8, <2>6 DEF LedgerInv, LedgerTyped
  <2>8. ScheduledHaveActivated'
    <3>0. PICK n \in Nat : n = Len(activations)
      BY LastIsLast
    <3>1. Len(activations') = n + 1 /\ activations'[n + 1] = a
          /\ \A k \in 1..n : activations'[k] = activations[k]
      BY <2>5, <3>0, LastIsLast
    <3> SUFFICES ASSUME NEW i \in EventIds, events'[i].targets # {},
                        events'[i].content.type = "configuration.changed"
                 PROVE  IsScheduled(i)' <=> HasActivated(i)'
      BY DEF ScheduledHaveActivated
    <3>2. CASE i = e.id
      <4>1. ByEvent(n + 1)' /\ activations'[n + 1].event = i /\ n + 1 \in 1..Len(activations')
        BY <1>6, <3>1, <3>2 DEF ByEvent
      <4>2. HasActivated(i)'
        BY <4>1 DEF HasActivated
      <4> QED
        BY <1>9, <1>13, <3>2, <4>2
    <3>3. CASE i # e.id
      <4>1. events'[i] = events[i]
        BY <1>8, <3>3
      <4>2. ASSUME NEW k \in 1..(n + 1), ByEvent(k)', activations'[k].event = i
            PROVE  HasActivated(i)
        <5>1. k # n + 1
          BY <1>6, <3>1, <3>3, <4>2
        <5>2. k \in 1..n
          BY <5>1
        <5> QED
          BY <3>0, <3>1, <4>2, <5>2 DEF HasActivated, ByEvent
      <4>3. ASSUME NEW k \in 1..n, ByEvent(k), activations[k].event = i  PROVE HasActivated(i)'
        BY <3>1, <4>3 DEF HasActivated, ByEvent
      <4>4. HasActivated(i)' => HasActivated(i)
        BY <3>1, <4>2 DEF HasActivated
      <4>5. HasActivated(i) => HasActivated(i)'
        BY <3>0, <4>3 DEF HasActivated
      <4>6. IsScheduled(i)' <=> IsScheduled(i)
        BY <4>1 DEF IsScheduled
      <4>7. IsScheduled(i) <=> HasActivated(i)
        BY <4>1 DEF LedgerInv, ScheduledHaveActivated
      <4> QED
        BY <4>4, <4>5, <4>6, <4>7
    <3> QED
      BY <3>2, <3>3
  <2> QED
    BY <1>8, <2>6, <2>7, <2>8 DEF LedgerInv
<1> QED
  BY <1>12, <1>13

LEMMA LedgerStarts == LedgerInit => LedgerInv
<1> SUFFICES ASSUME LedgerInit  PROVE LedgerInv
  OBVIOUS
<1>1. activations = <<>> /\ Len(activations) = 0 /\ inForce = NoActivation /\ DOMAIN outbox = {}
  BY DEF LedgerInit, OutboxInit
<1>2. DOMAIN events = EventIds /\ \A i \in EventIds : events[i].targets = {}
  BY DEF LedgerInit
<1>3. LedgerTyped
  BY <1>1, <1>2 DEF LedgerInit, LedgerTyped
<1>4. LastIsInForce /\ HistoryKept
  BY <1>1 DEF LastIsInForce, HistoryKept
<1>5. ScheduledHaveActivated /\ NoticesTell
  BY <1>1, <1>2 DEF ScheduledHaveActivated, NoticesTell, IsTold
<1> QED
  BY <1>3, <1>4, <1>5 DEF LedgerInv

-----------------------------------------------------------------------------
LEMMA LedgerStepKeeps == LedgerInv /\ [LedgerNext]_ledgerVars => LedgerInv'
<1> SUFFICES ASSUME LedgerInv, [LedgerNext]_ledgerVars  PROVE LedgerInv'
  OBVIOUS
<1>1. ASSUME NEW r \in Registrations, registerConfiguration(r)  PROVE LedgerInv'
  BY <1>1, registerConfigurationKeeps
<1>2. ASSUME NEW r \in Registrations, activateInitialConfiguration(r.fingerprint)  PROVE LedgerInv'
  <2>1. r.fingerprint \in Fingerprints
    BY DEF Fingerprints
  <2> QED
    BY <1>2, <2>1, activateInitialConfigurationKeeps
<1>3. ASSUME NEW w \in Administrators, getActiveConfigurationSummary(w)  PROVE LedgerInv'
  BY <1>3, QuietStepsKeep DEF getActiveConfigurationSummary, outboxVars
<1>4. ASSUME NEW w \in Administrators, NEW f \in Fingerprints, NEW evidence \in AdminEvidence,
             activateConfigurationByCas(w, f, evidence)
      PROVE  LedgerInv'
  BY <1>4, activateConfigurationByCasKeeps
<1>5. ASSUME NEW e \in Events, redeliver(e)  PROVE LedgerInv'
  BY <1>5, QuietStepsKeep DEF redeliver, outboxVars
<1>6. ASSUME NEW e \in Events, ingestConfiguration(e)  PROVE LedgerInv'
  BY <1>6, ingestConfigurationKeeps
<1>7. ASSUME NEW e \in Events, ingestWork(e)  PROVE LedgerInv'
  BY <1>7, ingestWorkKeeps
<1>8. CASE UNCHANGED ledgerVars
  BY <1>8, QuietStepsKeep DEF ledgerVars, outboxVars
<1> QED
  BY <1>1, <1>2, <1>3, <1>4, <1>5, <1>6, <1>7, <1>8 DEF LedgerNext

(* The invariant of the ledger: the history is ordered and every service   *)
(* it touched was told, because registered documents keep, events are      *)
(* stored with their activations and notices are never dropped.            *)
THEOREM LedgerInvariant == LedgerSpec => []LedgerInv
BY LedgerStepKeeps, LedgerStarts, PTL DEF LedgerSpec

LEMMA KeptLedger == LedgerInv => LedgerIsKept
<1> SUFFICES ASSUME LedgerInv  PROVE LedgerIsKept
  OBVIOUS
<1>1. activations \in Seq(Activations) /\ DOMAIN activations = 1..Len(activations)
  BY LastIsLast
<1>2. activations # <<>> => inForce = activations[Len(activations)]
  BY DEF LedgerInv, LastIsInForce
<1>3. \A i, j \in DOMAIN activations : i < j /\ ByEvent(i) /\ ByEvent(j) => Follows(i, j)
  BY <1>1 DEF LedgerInv, HistoryKept
<1>4. ASSUME NEW i \in EventIds, events[i].targets # {},
             events[i].content.type = "configuration.changed"
      PROVE  (\E t \in events[i].targets : t.disposition = "scheduled") <=>
               \E k \in DOMAIN activations :
                 ByEvent(k) /\ activations[k].event = events[i].content.id
  <2>1. events[i].content.id = i
    BY <1>4 DEF LedgerInv, LedgerTyped
  <2> QED
    BY <1>1, <1>4, <2>1 DEF LedgerInv, ScheduledHaveActivated, IsScheduled, HasActivated
<1>5. {m \in DOMAIN outbox : m.kind = "event.disposition"} =
        UNION {{Disposed(events[i].content, t) : t \in events[i].targets} : i \in EventIds}
  <2>1. \A m : m \in DOMAIN outbox /\ m.kind = "event.disposition" <=>
               \E i \in EventIds : \E t \in events[i].targets : m = Disposed(events[i].content, t)
    BY DEF LedgerInv, NoticesTell, IsTold
  <2> QED
    BY <2>1
<1>6. \A k \in DOMAIN activations \ {1} : Touched(k)
  <2>1. \A k \in DOMAIN activations \ {1} : k \in 2..Len(activations)
    BY <1>1
  <2> QED
    BY <2>1 DEF LedgerInv, HistoryKept
<1> QED
  BY <1>2, <1>3, <1>4, <1>5, <1>6 DEF LedgerIsKept, Follows, Touched

(* Events late, repeated and mixed with another provider's, and            *)
(* administrators at work among them (repository.ts, ingestEvent and       *)
(* activateConfigurationByCas), leave the ledger kept.                     *)
THEOREM LedgerKept == LedgerSpec => []LedgerIsKept
BY KeptLedger, LedgerInvariant, PTL

-----------------------------------------------------------------------------
(* The ledger with consumers at work on its notices.                       *)

LEMMA LedgerQueues ==
  ASSUME [LedgerNext]_ledgerVars
  PROVE  UNCHANGED <<leases, acknowledged>> /\ (outbox' = outbox \/ \E n : outbox' = Queued(n))
BY DEF LedgerNext, ledgerVars, outboxVars, registerConfiguration, activateInitialConfiguration,
       getActiveConfigurationSummary, activateConfigurationByCas, redeliver, ingestConfiguration,
       ingestWork

(* Transactions of the ledger and consumers of its outbox interleave: what *)
(* was told stays told while it is delivered, and what is queued again     *)
(* (ON CONFLICT DO NOTHING) does not revive what is settled.               *)
THEOREM DeliveredLedgerKept ==
  DeliveredLedgerSpec =>
    /\ [](LedgerIsKept /\ DeliveriesAreTrue)
    /\ [][SettledKept]_ledgerVars
<1>1. LedgerInit => LedgerInv /\ OutboxInv
  BY LedgerStarts, OutboxStarts DEF LedgerInit
<1>2. LedgerInv /\ OutboxInv /\ [DeliveredLedgerNext]_ledgerVars =>
        LedgerInv' /\ OutboxInv' /\ [SettledKept]_ledgerVars
  <2> SUFFICES ASSUME LedgerInv, OutboxInv, [DeliveredLedgerNext]_ledgerVars
               PROVE  LedgerInv' /\ OutboxInv' /\ SettledKept
    OBVIOUS
  <2>1. CASE [LedgerNext]_ledgerVars
    <3>1. UNCHANGED <<leases, acknowledged>> /\ (outbox' = outbox \/ \E n : outbox' = Queued(n))
      BY <2>1, LedgerQueues
    <3>2. LedgerInv'
      BY <2>1, LedgerStepKeeps
    <3>3. CASE outbox' = outbox
      <4>1. [OutboxNext]_outboxVars
        BY <3>1, <3>3 DEF outboxVars
      <4> QED
        BY <3>2, <4>1, OutboxStepKeeps
    <3>4. ASSUME NEW n, outbox' = Queued(n)  PROVE OutboxInv' /\ SettledKept
      <4>1. UNCHANGED <<leases, acknowledged>>
        BY <3>1
      <4> QED
        BY <3>4, <4>1, QueuedKeeps
    <3> QED
      BY <3>1, <3>2, <3>3, <3>4
  <2>2. CASE Deliver /\ UNCHANGED <<registered, inForce, events, deliveries, saw, activations>>
    <3>1. OutboxInv' /\ SettledKept
      BY <2>2, OutboxStepKeeps DEF OutboxNext
    <3>2. LedgerInv'
      BY <2>2, DeliverAddsNothing, QuietStepsKeep
    <3> QED
      BY <3>1, <3>2
  <2> QED
    BY <2>1, <2>2 DEF DeliveredLedgerNext
<1> QED
  BY <1>1, <1>2, KeptLedger, SoundOutboxIsTrue, PTL DEF DeliveredLedgerSpec

-----------------------------------------------------------------------------
(* The advisory locks.                                                     *)
Phases == {"idle", "begin", "discovering", "acquiring", "checking", "working"}

LockTypes ==
  /\ phase \in [Clients -> Phases]
  /\ call \in [Clients -> Operations \cup {NoCall}]
  /\ carried \in [Clients -> SUBSET Locks]
  /\ roots \in [Clients -> SUBSET JobRows]
  /\ seen \in [Clients -> SUBSET JobRows]
  /\ frontier \in [Clients -> SUBSET JobRows]
  /\ wanted \in [Clients -> SUBSET Locks]
  /\ acquired \in [Clients -> SUBSET Locks]
  /\ DOMAIN tries = Clients
  /\ dependencies \subseteq JobRows \X JobRows

OneTenant == \A e \in dependencies : e[1].tenant = e[2].tenant
OneHolder == \A t, u \in Clients : t # u => acquired[t] \cap acquired[u] = {}

(* Locks are taken upwards: none is wanted that comes before one held.     *)
Upward(t) == \A l \in acquired[t], m \in wanted[t] : Before(l, m)

(* Nothing is held before the first walk is over, and only then is         *)
(* anything waited for.                                                    *)
WalksFirst(t) ==
  /\ phase[t] \in {"idle", "begin", "discovering"} => acquired[t] = {}
  /\ phase[t] # "acquiring" => wanted[t] = {}

(* What a call starts out with is asked for, and so are the locks of the   *)
(* jobs it saw; under the locks it holds those of all their tenants.       *)
Underway(t) == phase[t] \in {"acquiring", "checking", "working"}
StartsOut(t) ==
  /\ phase[t] # "idle" => call[t] \in Operations /\ call[t].initial \subseteq carried[t]
  /\ Underway(t) => carried[t] \subseteq acquired[t] \cup wanted[t]
  /\ roots[t] \subseteq seen[t] /\ frontier[t] \subseteq seen[t]
  /\ phase[t] = "acquiring" =>
       transitionAdvisoryLocks(seen[t]) \subseteq acquired[t] \cup wanted[t]
UnderLocks(t) == phase[t] \in {"checking", "working"}
TenantsHeld(t) ==
  UnderLocks(t) => \A row \in seen[t] : configurationLock(row.tenant) \in acquired[t]

(* The second walk stays complete: what it went past has no dependent it   *)
(* has not seen, for nobody else can add one.                              *)
Past(t, row) == \A dep \in JobRows : <<row, dep>> \in dependencies => dep \in seen[t]
WalkHolds(t) == UnderLocks(t) => \A row \in seen[t] \ frontier[t] : Past(t, row)
WorkHolds(t) ==
  phase[t] = "working" => frontier[t] = {} /\ transitionAdvisoryLocks(seen[t]) \subseteq acquired[t]

ClientHolds(t) == /\ Upward(t) /\ WalksFirst(t) /\ StartsOut(t)
                  /\ TenantsHeld(t) /\ WalkHolds(t) /\ WorkHolds(t)
LockingInv == LockTypes /\ OneTenant /\ OneHolder /\ \A t \in Clients : ClientHolds(t)

-----------------------------------------------------------------------------
(* A set of numbers has a least one.                                       *)
LEMMA NumbersWellFounded ==
  \E R : IsWellFoundedOn(R, Nat) /\ \A x, y \in Nat : <<y, x>> \in R <=> y < x
<1>1. \A x, y \in Nat : <<y, x>> \in OpToRel(<, Nat) <=> y < x
  BY DEF OpToRel
<1>. QED BY <1>1, NatLessThanWellFounded

LEMMA LeastNumber ==
  ASSUME NEW T, T \subseteq Nat, T # {}
  PROVE  \E x \in T : \A y \in T : x <= y
<1>1. PICK R : IsWellFoundedOn(R, Nat) /\ \A x, y \in Nat : <<y, x>> \in R <=> y < x
  BY NumbersWellFounded
<1>2. PICK x \in T : \A y \in T : ~(<<y, x>> \in R)
  BY <1>1, WFMin
<1>3. \A y \in T : x <= y
  <2> SUFFICES ASSUME NEW y \in T PROVE x <= y
    OBVIOUS
  <2>1. x \in Nat /\ y \in Nat
    OBVIOUS
  <2>2. <<y, x>> \in R <=> y < x
    BY <1>1, <2>1, Zenon
  <2>3. <<y, x>> \notin R
    BY <1>2, Zenon
  <2>4. ~(y < x)
    BY <2>2, <2>3, Zenon
  <2>. QED BY <2>1, <2>4
<1>. QED BY <1>3

(* The canonical order has a last one among any locks: the rank of a       *)
(* namespace is one of ten, and a lock's place one of Places.              *)
LEMMA RanksTyped == \A l \in Locks : Rank(l) \in 1..10
<1> SUFFICES ASSUME NEW l \in Locks PROVE Rank(l) \in 1..10
  OBVIOUS
<1>1. DOMAIN LOCK_NAMESPACES = 1..10
  BY DEF LOCK_NAMESPACES
<1>2. \E i \in DOMAIN LOCK_NAMESPACES : LOCK_NAMESPACES[i] = l.namespace
  BY IdentitiesAreOrdered
<1>3. Rank(l) \in DOMAIN LOCK_NAMESPACES
  BY <1>2, Zenon DEF Rank
<1>. QED BY <1>1, <1>3

LEMMA LastLock ==
  ASSUME NEW W, W \subseteq Locks, W # {}
  PROVE  \E l \in W : \A m \in W : ~Before(l, m)
<1>1. /\ \A l \in W : Rank(l) \in 1..10
      /\ \A l \in W : Place[l] \in 0..Places
      /\ Places \in Nat
  BY RanksTyped, IdentitiesAreOrdered
<1> DEFINE Downs == {10 - Rank(l) : l \in W}
<1>2. Downs \subseteq Nat /\ Downs # {}
  <2>1. \A l \in W : 10 - Rank(l) \in Nat
    BY <1>1
  <2>. QED BY <2>1
<1>3. PICK x \in Downs : \A y \in Downs : x <= y
  <2> HIDE DEF Downs
  <2>. QED BY <1>2, LeastNumber
<1>4. PICK l0 \in W : x = 10 - Rank(l0)
  OBVIOUS
<1>5. \A m \in W : Rank(m) <= Rank(l0)
  <2> SUFFICES ASSUME NEW m \in W PROVE Rank(m) <= Rank(l0)
    OBVIOUS
  <2>1. x <= 10 - Rank(m)
    BY <1>3
  <2>2. Rank(m) \in 1..10 /\ Rank(l0) \in 1..10
    BY <1>1
  <2>. QED BY <1>4, <2>1, <2>2
<1> DEFINE Top == {l \in W : Rank(l) = Rank(l0)}
           Lows == {Places - Place[l] : l \in Top}
<1>6. Lows \subseteq Nat /\ Lows # {}
  <2>1. l0 \in Top
    OBVIOUS
  <2>2. \A l \in Top : Places - Place[l] \in Nat
    BY <1>1
  <2>. QED BY <2>1, <2>2
<1>7. PICK z \in Lows : \A y \in Lows : z <= y
  <2> HIDE DEF Lows
  <2>. QED BY <1>6, LeastNumber
<1>8. PICK l1 \in Top : z = Places - Place[l1]
  OBVIOUS
<1>9. ASSUME NEW m \in W, Before(l1, m) PROVE FALSE
  <2>1. Rank(m) <= Rank(l0) /\ Rank(l1) = Rank(l0) /\ l1 \in W
    BY <1>5, <1>8
  <2>2. Rank(m) \in 1..10 /\ Rank(l1) \in 1..10 /\ Place[m] \in 0..Places /\ Place[l1] \in 0..Places
    BY <1>1, <2>1
  <2>3. Rank(l1) = Rank(m) /\ Place[l1] < Place[m]
    BY <1>9, <2>1, <2>2 DEF Before
  <2>4. z <= Places - Place[m]
    <3>1. m \in Top
      BY <2>1, <2>3
    <3>. QED BY <1>7, <3>1
  <2>. QED BY <1>1, <1>8, <2>2, <2>3, <2>4
<1>10. l1 \in W
  BY <1>8
<1>. QED BY <1>9, <1>10

-----------------------------------------------------------------------------
(* What the locks of jobs are.                                             *)
LEMMA TenantIsLocked ==
  ASSUME NEW S, NEW row \in S
  PROVE  configurationLock(row.tenant) \in transitionAdvisoryLocks(S)
<1>1. configurationLock(row.tenant) \in RowLocks(row)
  BY DEF RowLocks, jobLocks
<1>. QED BY <1>1 DEF transitionAdvisoryLocks

LEMMA LocksOfJobs ==
  ASSUME NEW S, S \subseteq JobRows
  PROVE  transitionAdvisoryLocks(S) \subseteq Locks
<1>1. transitionAdvisoryLocks(S) \subseteq transitionAdvisoryLocks(JobRows)
  BY DEF transitionAdvisoryLocks
<1>2. transitionAdvisoryLocks(JobRows) \subseteq Locks
  BY DEF Locks
<1>. QED BY <1>1, <1>2

LEMMA LocksOfFewer ==
  ASSUME NEW S, NEW T, S \subseteq T
  PROVE  transitionAdvisoryLocks(S) \subseteq transitionAdvisoryLocks(T)
BY DEF transitionAdvisoryLocks

(* What a step of one client leaves of the others.                         *)
Kept(u) ==
  /\ phase'[u] = phase[u] /\ call'[u] = call[u] /\ carried'[u] = carried[u]
  /\ roots'[u] = roots[u] /\ seen'[u] = seen[u] /\ frontier'[u] = frontier[u]
  /\ wanted'[u] = wanted[u] /\ acquired'[u] = acquired[u]

LEMMA KeptHolds ==
  ASSUME NEW u \in Clients, ClientHolds(u), Kept(u), dependencies' = dependencies
  PROVE  ClientHolds(u)'
<1>1. Upward(u)'
  BY DEF Kept, ClientHolds, Upward
<1>2. WalksFirst(u)'
  BY DEF Kept, ClientHolds, WalksFirst
<1>3. StartsOut(u)'
  BY DEF Kept, ClientHolds, StartsOut, Underway
<1>4. TenantsHeld(u)'
  BY DEF Kept, ClientHolds, TenantsHeld, UnderLocks
<1>5. WalkHolds(u)'
  BY DEF Kept, ClientHolds, WalkHolds, UnderLocks, Past
<1>6. WorkHolds(u)'
  BY DEF Kept, ClientHolds, WorkHolds
<1>. QED BY <1>1, <1>2, <1>3, <1>4, <1>5, <1>6 DEF ClientHolds

(* A step of one client that takes no lock and adds no dependency.         *)
LEMMA QuietStep ==
  ASSUME LockingInv, NEW t \in Clients, LockTypes', ClientHolds(t)',
         \A u \in Clients \ {t} : Kept(u), dependencies' = dependencies,
         acquired'[t] \subseteq acquired[t]
  PROVE  LockingInv'
<1>1. OneTenant'
  BY DEF LockingInv, OneTenant
<1>2. OneHolder'
  BY DEF LockingInv, OneHolder, Kept
<1>3. \A u \in Clients \ {t} : ClientHolds(u)'
  BY KeptHolds DEF LockingInv
<1>. QED BY <1>1, <1>2, <1>3 DEF LockingInv

(* A call that is over holds and waits for nothing.                        *)
IdleHolds(t) == /\ acquired'[t] = {} /\ wanted'[t] = {}
                /\ roots'[t] \subseteq seen'[t] /\ frontier'[t] \subseteq seen'[t]
LEMMA IdleClient ==
  ASSUME NEW t \in Clients, phase'[t] = "idle", IdleHolds(t)
  PROVE  ClientHolds(t)'
BY DEF IdleHolds, ClientHolds, Upward, WalksFirst, StartsOut, Underway, TenantsHeld, UnderLocks,
       WalkHolds, WorkHolds

LEMMA OverKeeps ==
  ASSUME LockTypes, NEW t \in Clients, Over(t)
  PROVE  /\ \A u \in Clients \ {t} :
              /\ phase'[u] = phase[u] /\ call'[u] = call[u] /\ carried'[u] = carried[u]
              /\ roots'[u] = roots[u] /\ seen'[u] = seen[u] /\ frontier'[u] = frontier[u]
              /\ wanted'[u] = wanted[u]
         /\ phase'[t] = "idle" /\ wanted'[t] = {} /\ roots'[t] = {} /\ seen'[t] = {} /\ frontier'[t] = {}
         /\ phase' \in [Clients -> Phases] /\ call' \in [Clients -> Operations \cup {NoCall}]
         /\ carried' \in [Clients -> SUBSET Locks] /\ roots' \in [Clients -> SUBSET JobRows]
         /\ seen' \in [Clients -> SUBSET JobRows] /\ frontier' \in [Clients -> SUBSET JobRows]
         /\ wanted' \in [Clients -> SUBSET Locks] /\ DOMAIN tries' = Clients
<1> USE DEF LockTypes, Over
<1>1. \A u \in Clients \ {t} :
              /\ phase'[u] = phase[u] /\ call'[u] = call[u] /\ carried'[u] = carried[u]
              /\ roots'[u] = roots[u] /\ seen'[u] = seen[u] /\ frontier'[u] = frontier[u]
              /\ wanted'[u] = wanted[u]
  OBVIOUS
<1>2. phase'[t] = "idle" /\ wanted'[t] = {} /\ roots'[t] = {} /\ seen'[t] = {} /\ frontier'[t] = {}
  OBVIOUS
<1>3. phase' \in [Clients -> Phases] /\ call' \in [Clients -> Operations \cup {NoCall}]
  BY DEF Phases
<1>4. /\ carried' \in [Clients -> SUBSET Locks] /\ roots' \in [Clients -> SUBSET JobRows]
      /\ seen' \in [Clients -> SUBSET JobRows] /\ frontier' \in [Clients -> SUBSET JobRows]
      /\ wanted' \in [Clients -> SUBSET Locks] /\ DOMAIN tries' = Clients
  OBVIOUS
<1>. QED BY <1>1, <1>2, <1>3, <1>4

LEMMA LetGoKeeps ==
  ASSUME LockTypes, NEW t \in Clients, LetGo(t)
  PROVE  /\ acquired' \in [Clients -> SUBSET Locks] /\ acquired'[t] = {}
         /\ \A u \in Clients \ {t} : acquired'[u] = acquired[u]
BY DEF LockTypes, LetGo

LEMMA CallStep ==
  ASSUME LockingInv, NEW t \in Clients, NEW o \in Operations, Call(t, o)
  PROVE  LockingInv'
<1>1. LockTypes /\ ClientHolds(t)
  BY DEF LockingInv
<1>2. o.initial \subseteq Locks
  BY OperationsAreCalls DEF IsCall
<1>3. LockTypes'
  BY <1>1, <1>2 DEF LockTypes, Call, Phases
<1>4. \A u \in Clients \ {t} : Kept(u)
  BY <1>1 DEF LockTypes, Call, Kept
<1>5. /\ phase'[t] = "begin" /\ call'[t] = o /\ carried'[t] = o.initial
      /\ acquired'[t] = {} /\ wanted'[t] = {} /\ roots'[t] \subseteq seen'[t]
      /\ frontier'[t] \subseteq seen'[t]
  BY <1>1 DEF LockTypes, Call, ClientHolds, WalksFirst, StartsOut
<1>6. ClientHolds(t)'
  BY <1>5 DEF ClientHolds, Upward, WalksFirst, StartsOut, Underway, TenantsHeld, UnderLocks,
              WalkHolds, WorkHolds
<1>7. acquired'[t] \subseteq acquired[t] /\ dependencies' = dependencies
  BY DEF Call
<1>. QED BY <1>3, <1>4, <1>6, <1>7, QuietStep

LEMMA DiscoverStep ==
  ASSUME LockingInv, NEW t \in Clients, Discover(t)
  PROVE  LockingInv'
<1>1. LockTypes /\ ClientHolds(t)
  BY DEF LockingInv
<1>2. PICK R \in call[t].candidates : WalkFrom(t, R)
  BY DEF Discover
<1>3. R \subseteq JobRows
  <2>1. call[t] \in Operations
    BY <1>1 DEF Discover, ClientHolds, StartsOut
  <2>. QED BY <2>1, OperationsAreCalls DEF IsCall
<1>4. LockTypes'
  BY <1>1, <1>2, <1>3 DEF LockTypes, Discover, WalkFrom, Phases
<1>5. \A u \in Clients \ {t} : Kept(u)
  BY <1>1, <1>2 DEF LockTypes, Discover, WalkFrom, Kept
<1>6. /\ phase'[t] = "discovering" /\ call'[t] = call[t] /\ carried'[t] = carried[t]
      /\ phase[t] = "begin" /\ acquired'[t] = {} /\ wanted'[t] = {} /\ roots'[t] = R /\ seen'[t] = R
      /\ frontier'[t] = R
  BY <1>1, <1>2 DEF LockTypes, Discover, WalkFrom, ClientHolds, WalksFirst
<1>7. ClientHolds(t)'
  BY <1>1, <1>6 DEF ClientHolds, Upward, WalksFirst, StartsOut, Underway, TenantsHeld, UnderLocks,
              WalkHolds, WorkHolds
<1>8. acquired'[t] \subseteq acquired[t] /\ dependencies' = dependencies
  BY DEF Discover
<1>. QED BY <1>4, <1>5, <1>7, <1>8, QuietStep

LEMMA WalkStep ==
  ASSUME LockingInv, NEW t \in Clients, Walk(t)
  PROVE  LockingInv'
<1> DEFINE D == Dependents(frontier[t])
<1>1. LockTypes /\ ClientHolds(t) /\ OneTenant
  BY DEF LockingInv
<1>2. D \subseteq JobRows
  BY DEF Dependents
<1>3. /\ frontier' = [frontier EXCEPT ![t] = D \ seen[t]] /\ seen' = [seen EXCEPT ![t] = seen[t] \cup D]
      /\ phase' = phase /\ call' = call /\ tries' = tries /\ carried' = carried /\ roots' = roots
      /\ wanted' = wanted /\ acquired' = acquired /\ dependencies' = dependencies
      /\ phase[t] \in {"discovering", "checking"}
  BY DEF Walk
<1>4. \A row \in D : \E job \in frontier[t] : <<job, row>> \in dependencies
  BY DEF Dependents
<1>5. \A job \in frontier[t], row \in JobRows : <<job, row>> \in dependencies => row \in D
  BY DEF Dependents
<1> HIDE DEF D
<1>6. LockTypes'
  BY <1>1, <1>2, <1>3 DEF LockTypes
<1>7. \A u \in Clients \ {t} : Kept(u)
  BY <1>1, <1>3 DEF LockTypes, Kept
<1>8. seen'[t] = seen[t] \cup D /\ frontier'[t] = D \ seen[t]
  BY <1>1, <1>3 DEF LockTypes
<1>9. Upward(t)' /\ WalksFirst(t)' /\ WorkHolds(t)'
  BY <1>1, <1>3 DEF ClientHolds, Upward, WalksFirst, WorkHolds
<1>10. StartsOut(t)'
  BY <1>1, <1>3, <1>8 DEF ClientHolds, StartsOut, Underway
<1>11. TenantsHeld(t)'
  <2> SUFFICES ASSUME phase[t] = "checking", NEW row \in seen'[t]
               PROVE  configurationLock(row.tenant) \in acquired[t]
    BY <1>3 DEF TenantsHeld, UnderLocks
  <2>1. \A r \in seen[t] : configurationLock(r.tenant) \in acquired[t]
    BY <1>1 DEF ClientHolds, TenantsHeld, UnderLocks
  <2>2. CASE row \in seen[t]
    BY <2>1, <2>2
  <2>3. CASE row \in D
    <3>1. PICK job \in frontier[t] : <<job, row>> \in dependencies
      BY <1>4, <2>3
    <3>2. job.tenant = row.tenant
      BY <1>1, <3>1 DEF OneTenant
    <3>3. job \in seen[t]
      BY <1>1 DEF ClientHolds, StartsOut
    <3>. QED BY <2>1, <3>2, <3>3
  <2>. QED BY <1>8, <2>2, <2>3
<1>12. WalkHolds(t)'
  <2> SUFFICES ASSUME phase[t] = "checking", NEW row \in seen'[t] \ frontier'[t], NEW dep \in JobRows,
                      <<row, dep>> \in dependencies
               PROVE  dep \in seen'[t]
    BY <1>3 DEF WalkHolds, UnderLocks, Past
  <2>1. row \in seen[t]
    BY <1>8
  <2>2. CASE row \in frontier[t]
    BY <1>5, <1>8, <2>2
  <2>3. CASE row \notin frontier[t]
    BY <1>1, <1>8, <2>1, <2>3 DEF ClientHolds, WalkHolds, UnderLocks, Past
  <2>. QED BY <2>2, <2>3
<1>13. ClientHolds(t)'
  BY <1>9, <1>10, <1>11, <1>12 DEF ClientHolds
<1>14. acquired'[t] \subseteq acquired[t]
  BY <1>3
<1>. QED BY <1>3, <1>6, <1>7, <1>13, <1>14, QuietStep

LEMMA StartAcquiringStep ==
  ASSUME LockingInv, NEW t \in Clients, StartAcquiring(t)
  PROVE  LockingInv'
<1>1. LockTypes /\ ClientHolds(t)
  BY DEF LockingInv
<1>2. PICK s \in call[t].schedules :
        wanted' = [wanted EXCEPT ![t] = carried[t] \cup s \cup transitionAdvisoryLocks(seen[t])]
  BY DEF StartAcquiring
<1>3. s \subseteq Locks
  <2>1. call[t] \in Operations
    BY <1>1 DEF StartAcquiring, ClientHolds, StartsOut
  <2>. QED BY <2>1, OperationsAreCalls DEF IsCall
<1>4. transitionAdvisoryLocks(seen[t]) \subseteq Locks
  BY <1>1, LocksOfJobs DEF LockTypes
<1>5. LockTypes'
  BY <1>1, <1>2, <1>3, <1>4 DEF LockTypes, StartAcquiring, Phases
<1>6. \A u \in Clients \ {t} : Kept(u)
  BY <1>1, <1>2 DEF LockTypes, StartAcquiring, Kept
<1>7. /\ phase'[t] = "acquiring" /\ acquired' = acquired /\ acquired[t] = {}
      /\ wanted'[t] = carried[t] \cup s \cup transitionAdvisoryLocks(seen[t])
      /\ call' = call /\ carried' = carried /\ roots' = roots /\ seen' = seen /\ frontier' = frontier
      /\ phase[t] = "discovering" /\ dependencies' = dependencies
  BY <1>1, <1>2 DEF LockTypes, StartAcquiring, ClientHolds, WalksFirst
<1>8. Upward(t)' /\ WalksFirst(t)' /\ TenantsHeld(t)' /\ WalkHolds(t)' /\ WorkHolds(t)'
  BY <1>7 DEF Upward, WalksFirst, TenantsHeld, UnderLocks, WalkHolds, WorkHolds
<1>9. StartsOut(t)'
  <2>1. /\ call[t] \in Operations /\ call[t].initial \subseteq carried[t]
        /\ roots[t] \subseteq seen[t] /\ frontier[t] \subseteq seen[t]
    BY <1>1, <1>7 DEF ClientHolds, StartsOut
  <2>. QED BY <1>7, <2>1 DEF StartsOut
<1>10. ClientHolds(t)'
  BY <1>8, <1>9 DEF ClientHolds
<1>. QED BY <1>5, <1>6, <1>7, <1>10, QuietStep

(* The lock taken comes before all that are still wanted.                  *)
LEMMA AcquireStep ==
  ASSUME LockingInv, NEW t \in Clients, Acquire(t)
  PROVE  LockingInv'
<1>1. LockTypes /\ ClientHolds(t) /\ OneHolder
  BY DEF LockingInv
<1>2. PICK l \in wanted[t] :
        /\ NextWanted(t, l) /\ \A u \in Clients \ {t} : l \notin acquired[u]
        /\ acquired' = [acquired EXCEPT ![t] = acquired[t] \cup {l}]
        /\ wanted' = [wanted EXCEPT ![t] = wanted[t] \ {l}]
  BY DEF Acquire
<1>3. /\ phase' = phase /\ call' = call /\ tries' = tries /\ carried' = carried /\ roots' = roots
      /\ seen' = seen /\ frontier' = frontier /\ dependencies' = dependencies
      /\ phase[t] = "acquiring"
  BY DEF Acquire
<1>4. LockTypes'
  BY <1>1, <1>2, <1>3 DEF LockTypes
<1>5. /\ acquired'[t] = acquired[t] \cup {l} /\ wanted'[t] = wanted[t] \ {l}
      /\ \A u \in Clients \ {t} : acquired'[u] = acquired[u] /\ wanted'[u] = wanted[u]
  BY <1>1, <1>2 DEF LockTypes
<1>6. OneTenant'
  BY <1>3 DEF LockingInv, OneTenant
<1>7. OneHolder'
  BY <1>1, <1>2, <1>5 DEF OneHolder
<1>8. Upward(t)'
  BY <1>1, <1>2, <1>5 DEF ClientHolds, Upward, NextWanted
<1>9. WalksFirst(t)' /\ TenantsHeld(t)' /\ WalkHolds(t)' /\ WorkHolds(t)'
  BY <1>3 DEF WalksFirst, TenantsHeld, UnderLocks, WalkHolds, WorkHolds
<1>10. StartsOut(t)'
  BY <1>1, <1>3, <1>5 DEF ClientHolds, StartsOut, Underway
<1>11. \A u \in Clients \ {t} : ClientHolds(u)'
  <2> SUFFICES ASSUME NEW u \in Clients \ {t} PROVE ClientHolds(u)'
    OBVIOUS
  <2>1. Kept(u)
    BY <1>3, <1>5 DEF Kept
  <2>. QED BY <1>3, <2>1, KeptHolds DEF LockingInv
<1>. QED BY <1>4, <1>6, <1>7, <1>8, <1>9, <1>10, <1>11 DEF LockingInv, ClientHolds

LEMMA RediscoverStep ==
  ASSUME LockingInv, NEW t \in Clients, Rediscover(t)
  PROVE  LockingInv'
<1>1. LockTypes /\ ClientHolds(t)
  BY DEF LockingInv
<1>2. PICK R \in IF call[t].rereads THEN call[t].candidates ELSE {roots[t]} : WalkFrom(t, R)
  BY DEF Rediscover
<1>3. /\ phase[t] = "acquiring" /\ wanted[t] = {} /\ dependencies' = dependencies
      /\ call' = call /\ tries' = tries /\ carried' = carried /\ wanted' = wanted
      /\ acquired' = acquired /\ phase' = [phase EXCEPT ![t] = "checking"]
  BY DEF Rediscover
<1>4. /\ call[t] \in Operations /\ call[t].initial \subseteq acquired[t]
      /\ call[t].initial \subseteq carried[t] /\ carried[t] \subseteq acquired[t]
      /\ roots[t] \subseteq seen[t] /\ transitionAdvisoryLocks(seen[t]) \subseteq acquired[t]
  BY <1>1, <1>3 DEF ClientHolds, StartsOut, Underway
<1>5. R \subseteq JobRows /\ \A row \in R : configurationLock(row.tenant) \in acquired[t]
  <2>1. CASE call[t].rereads
    <3>1. R \in call[t].candidates
      BY <1>2, <2>1
    <3>2. IsCall(call[t])
      BY <1>4, OperationsAreCalls
    <3>3. R \subseteq JobRows
      BY <3>1, <3>2 DEF IsCall
    <3>4. \A row \in R : configurationLock(row.tenant) \in call[t].initial
      BY <2>1, <3>1, <3>2 DEF IsCall
    <3>. QED BY <1>4, <3>3, <3>4
  <2>2. CASE ~call[t].rereads
    <3>1. R = roots[t]
      BY <1>2, <2>2
    <3>2. \A row \in R : configurationLock(row.tenant) \in transitionAdvisoryLocks(seen[t])
      BY <1>4, <3>1, TenantIsLocked
    <3>. QED BY <1>1, <1>4, <3>1, <3>2 DEF LockTypes
  <2>. QED BY <2>1, <2>2
<1>6. LockTypes'
  BY <1>1, <1>2, <1>3, <1>5 DEF LockTypes, WalkFrom, Phases
<1>7. \A u \in Clients \ {t} : Kept(u)
  BY <1>1, <1>2, <1>3 DEF LockTypes, WalkFrom, Kept
<1>8. phase'[t] = "checking" /\ roots'[t] = R /\ seen'[t] = R /\ frontier'[t] = R
  BY <1>1, <1>2, <1>3 DEF LockTypes, WalkFrom
<1>9. ClientHolds(t)'
  BY <1>3, <1>4, <1>5, <1>8 DEF ClientHolds, Upward, WalksFirst, StartsOut, Underway, TenantsHeld,
                                UnderLocks, WalkHolds, WorkHolds
<1>10. acquired'[t] \subseteq acquired[t]
  BY <1>3
<1>. QED BY <1>3, <1>6, <1>7, <1>9, <1>10, QuietStep

LEMMA ProceedStep ==
  ASSUME LockingInv, NEW t \in Clients, Proceed(t)
  PROVE  LockingInv'
<1>1. LockTypes /\ ClientHolds(t)
  BY DEF LockingInv
<1>2. LockTypes'
  BY <1>1 DEF LockTypes, Proceed, Phases
<1>3. \A u \in Clients \ {t} : Kept(u)
  BY <1>1 DEF LockTypes, Proceed, Kept
<1>4. phase'[t] = "working" /\ phase[t] = "checking"
  BY <1>1 DEF LockTypes, Proceed
<1>5. ClientHolds(t)'
  BY <1>1, <1>4 DEF Proceed, requireDiscoveredLocks, ClientHolds, Upward, WalksFirst, StartsOut,
                    Underway, TenantsHeld, UnderLocks, WalkHolds, Past, WorkHolds
<1>6. acquired'[t] \subseteq acquired[t] /\ dependencies' = dependencies
  BY DEF Proceed
<1>. QED BY <1>2, <1>3, <1>5, <1>6, QuietStep

LEMMA RestartStep ==
  ASSUME LockingInv, NEW t \in Clients, NEW missing, missing \subseteq Locks, phase[t] = "checking",
         Restart(t, missing)
  PROVE  LockingInv'
<1>1. LockTypes /\ ClientHolds(t)
  BY DEF LockingInv
<1>2. /\ acquired' \in [Clients -> SUBSET Locks] /\ acquired'[t] = {}
      /\ \A u \in Clients \ {t} : acquired'[u] = acquired[u]
  BY <1>1, LetGoKeeps DEF Restart
<1>3. dependencies' = dependencies /\ acquired'[t] \subseteq acquired[t]
  BY <1>2 DEF Restart
<1>4. CASE tries[t] = MaxTries
  <2>1. Over(t)
    BY <1>4 DEF Restart
  <2>2. LockTypes'
    BY <1>1, <1>2, <1>3, <2>1, OverKeeps DEF LockTypes
  <2>3. \A u \in Clients \ {t} : Kept(u)
    BY <1>1, <1>2, <2>1, OverKeeps DEF Kept
  <2>4. phase'[t] = "idle" /\ IdleHolds(t)
    BY <1>1, <1>2, <2>1, OverKeeps DEF IdleHolds
  <2>. QED BY <1>3, <2>2, <2>3, <2>4, IdleClient, QuietStep
<1>5. CASE tries[t] # MaxTries
  <2>1. /\ phase' = [phase EXCEPT ![t] = "begin"] /\ tries' = [tries EXCEPT ![t] = tries[t] + 1]
        /\ carried' = [carried EXCEPT ![t] = carried[t] \cup missing]
        /\ roots' = [roots EXCEPT ![t] = {}] /\ seen' = [seen EXCEPT ![t] = {}]
        /\ frontier' = [frontier EXCEPT ![t] = {}] /\ wanted' = [wanted EXCEPT ![t] = {}]
        /\ call' = call
    BY <1>5 DEF Restart
  <2>2. LockTypes'
    BY <1>1, <1>2, <1>3, <2>1 DEF LockTypes, Phases
  <2>3. \A u \in Clients \ {t} : Kept(u)
    BY <1>1, <1>2, <2>1 DEF LockTypes, Kept
  <2>4. /\ phase'[t] = "begin" /\ carried'[t] = carried[t] \cup missing /\ roots'[t] = {}
        /\ seen'[t] = {} /\ frontier'[t] = {} /\ wanted'[t] = {}
    BY <1>1, <2>1 DEF LockTypes
  <2>5. call[t] \in Operations /\ call[t].initial \subseteq carried[t]
    BY <1>1 DEF ClientHolds, StartsOut
  <2>6. ClientHolds(t)'
    BY <1>2, <2>1, <2>4, <2>5 DEF ClientHolds, Upward, WalksFirst, StartsOut, Underway,
                                  TenantsHeld, UnderLocks, WalkHolds, WorkHolds
  <2>. QED BY <1>3, <2>2, <2>3, <2>6, QuietStep
<1>. QED BY <1>4, <1>5

LEMMA AbortStep ==
  ASSUME LockingInv, NEW t \in Clients, Abort(t)
  PROVE  LockingInv'
<1>1. LockTypes
  BY DEF LockingInv
<1>2. /\ acquired' \in [Clients -> SUBSET Locks] /\ acquired'[t] = {}
      /\ \A u \in Clients \ {t} : acquired'[u] = acquired[u]
  BY <1>1, LetGoKeeps DEF Abort
<1>3. dependencies' = dependencies /\ acquired'[t] \subseteq acquired[t] /\ Over(t)
  BY <1>2 DEF Abort
<1>4. LockTypes'
  BY <1>1, <1>2, <1>3, OverKeeps DEF LockTypes
<1>5. \A u \in Clients \ {t} : Kept(u)
  BY <1>1, <1>2, <1>3, OverKeeps DEF Kept
<1>6. phase'[t] = "idle" /\ IdleHolds(t)
  BY <1>1, <1>2, <1>3, OverKeeps DEF IdleHolds
<1>. QED BY <1>3, <1>4, <1>5, <1>6, IdleClient, QuietStep

(* A dependency that is committed begins at a job of a tenant whose        *)
(* configuration lock the writer holds; whoever walks under locks holds    *)
(* that lock for every job it has seen, so it has not seen that one.       *)
LEMMA CommitStep ==
  ASSUME LockingInv, NEW t \in Clients, Commit(t)
  PROVE  LockingInv'
<1>1. LockTypes /\ ClientHolds(t) /\ OneHolder /\ OneTenant
  BY DEF LockingInv
<1>2. PICK written \in SUBSET call[t].writes : dependencies' = dependencies \cup written
  BY DEF Commit
<1>3. /\ acquired' \in [Clients -> SUBSET Locks] /\ acquired'[t] = {}
      /\ \A u \in Clients \ {t} : acquired'[u] = acquired[u]
  BY <1>1, LetGoKeeps DEF Commit
<1>4. phase[t] = "working" /\ Over(t)
  BY DEF Commit
<1>5. IsCall(call[t]) /\ call[t].initial \subseteq acquired[t]
  <2>1. /\ call[t] \in Operations /\ call[t].initial \subseteq carried[t] /\ wanted[t] = {}
        /\ carried[t] \subseteq acquired[t] \cup wanted[t]
    BY <1>1, <1>4 DEF ClientHolds, StartsOut, Underway, WalksFirst
  <2>. QED BY <2>1, OperationsAreCalls
<1>6. /\ written \subseteq JobRows \X JobRows
      /\ \A e \in written : e[1].tenant = e[2].tenant /\ configurationLock(e[1].tenant) \in acquired[t]
  BY <1>5 DEF IsCall
<1>7. LockTypes'
  BY <1>1, <1>2, <1>3, <1>4, <1>6, OverKeeps DEF LockTypes
<1>8. OneTenant'
  BY <1>1, <1>2, <1>6 DEF OneTenant
<1>9. OneHolder'
  BY <1>1, <1>3 DEF OneHolder
<1>10. \A u \in Clients \ {t} : Kept(u)
  BY <1>1, <1>3, <1>4, OverKeeps DEF Kept
<1>11. ClientHolds(t)'
  <2>1. phase'[t] = "idle" /\ IdleHolds(t)
    BY <1>1, <1>3, <1>4, OverKeeps DEF IdleHolds
  <2>. QED BY <2>1, IdleClient
<1>12. ASSUME NEW u \in Clients \ {t} PROVE ClientHolds(u)'
  <2>1. Kept(u) /\ ClientHolds(u)
    BY <1>10 DEF LockingInv
  <2>2. Upward(u)' /\ WalksFirst(u)' /\ StartsOut(u)' /\ TenantsHeld(u)' /\ WorkHolds(u)'
    BY <2>1 DEF Kept, ClientHolds, Upward, WalksFirst, StartsOut, Underway, TenantsHeld, UnderLocks,
                WorkHolds
  <2>3. WalkHolds(u)'
    <3> SUFFICES ASSUME UnderLocks(u), NEW row \in seen[u] \ frontier[u], NEW dep \in JobRows,
                        <<row, dep>> \in dependencies'
                 PROVE  dep \in seen[u]
      BY <2>1 DEF Kept, WalkHolds, UnderLocks, Past
    <3>1. configurationLock(row.tenant) \in acquired[u]
      BY <2>1 DEF ClientHolds, TenantsHeld
    <3>2. <<row, dep>> \notin written
      <4>1. SUFFICES ASSUME <<row, dep>> \in written PROVE FALSE
        OBVIOUS
      <4>2. configurationLock(row.tenant) \in acquired[t]
        BY <1>6, <4>1
      <4>. QED BY <1>1, <3>1, <4>2 DEF OneHolder
    <3>3. <<row, dep>> \in dependencies
      BY <1>2, <3>2
    <3>. QED BY <2>1, <3>3 DEF ClientHolds, WalkHolds, Past
  <2>. QED BY <2>2, <2>3 DEF ClientHolds
<1>. QED BY <1>7, <1>8, <1>9, <1>11, <1>12 DEF LockingInv

LEMMA StepsKeepLocking == LockingInv /\ [LockingNext]_lockingVars => LockingInv'
<1> SUFFICES ASSUME LockingInv, [LockingNext]_lockingVars PROVE LockingInv'
  OBVIOUS
<1>1. CASE UNCHANGED lockingVars
  BY <1>1 DEF lockingVars, LockingInv, LockTypes, OneTenant, OneHolder, ClientHolds, Upward,
              WalksFirst, StartsOut, Underway, TenantsHeld, UnderLocks, WalkHolds, Past, WorkHolds
<1>2. ASSUME NEW t \in Clients,
             \/ \E o \in Operations : Call(t, o)
             \/ Progress(t) \/ Acquire(t) \/ Reconfigured(t) \/ Abort(t)
      PROVE  LockingInv'
  <2>1. ASSUME NEW o \in Operations, Call(t, o) PROVE LockingInv'
    BY <2>1, CallStep
  <2>2. CASE Progress(t)
    <3>1. CASE Discover(t)
      BY <3>1, DiscoverStep
    <3>2. CASE Walk(t)
      BY <3>2, WalkStep
    <3>3. CASE StartAcquiring(t)
      BY <3>3, StartAcquiringStep
    <3>4. CASE Rediscover(t)
      BY <3>4, RediscoverStep
    <3>5. CASE Proceed(t)
      BY <3>5, ProceedStep
    <3>6. CASE MissesLocks(t)
      <4>1. transitionAdvisoryLocks(seen[t]) \ acquired[t] \subseteq Locks
        BY LocksOfJobs DEF LockingInv, LockTypes
      <4>. QED BY <3>6, <4>1, RestartStep DEF MissesLocks
    <3>7. CASE Commit(t)
      BY <3>7, CommitStep
    <3>. QED BY <2>2, <3>1, <3>2, <3>3, <3>4, <3>5, <3>6, <3>7 DEF Progress
  <2>3. CASE Acquire(t)
    BY <2>3, AcquireStep
  <2>4. CASE Reconfigured(t)
    <3>1. PICK s \in call[t].schedules : \E missing \in {s, s \ acquired[t]} : Restart(t, missing)
      BY <2>4 DEF Reconfigured
    <3>4. PICK missing \in {s, s \ acquired[t]} : Restart(t, missing)
      BY <3>1
    <3>2. phase[t] = "checking" /\ call[t] \in Operations
      BY <2>4 DEF Reconfigured, LockingInv, ClientHolds, StartsOut
    <3>3. missing \subseteq Locks
      BY <3>2, OperationsAreCalls DEF IsCall
    <3>. QED BY <3>2, <3>3, <3>4, RestartStep
  <2>5. CASE Abort(t)
    BY <2>5, AbortStep
  <2>. QED BY <1>2, <2>1, <2>2, <2>3, <2>4, <2>5
<1>. QED BY <1>1, <1>2 DEF LockingNext

(* AdvisoryLocks: each lock has one holder, locks are taken upwards, and a *)
(* walk under the locks of its tenants stays complete whatever the others  *)
(* commit meanwhile.                                                       *)
THEOREM LockingInvariant == LockingSpec => []LockingInv
<1>1. LockingInit => LockingInv
  BY DEF LockingInit, LockingInv, LockTypes, Phases, OneTenant, OneHolder, ClientHolds, Upward,
         WalksFirst, StartsOut, Underway, TenantsHeld, UnderLocks, WalkHolds, WorkHolds
<1>. QED BY <1>1, StepsKeepLocking, PTL DEF LockingSpec

(* A transaction at work holds, alone, the locks of all that hangs on its  *)
(* roots (requireDiscoveredLocks): what it saw is closed, so it has all of *)
(* the closure.                                                            *)
THEOREM WorkIsUnderItsLocks == LockingSpec => []ActsUnderItsLocks
<1>1. LockingInv => ActsUnderItsLocks
  <2> SUFFICES ASSUME LockingInv, NEW t \in Clients, phase[t] = "working",
                      NEW l \in transitionAdvisoryLocks(Closure(roots[t]))
               PROVE  l \in acquired[t] /\ \A u \in Clients \ {t} : l \notin acquired[u]
    BY DEF ActsUnderItsLocks
  <2>1. /\ roots[t] \subseteq seen[t] /\ seen[t] \subseteq JobRows /\ frontier[t] = {}
        /\ transitionAdvisoryLocks(seen[t]) \subseteq acquired[t]
    BY DEF LockingInv, LockTypes, ClientHolds, StartsOut, WorkHolds
  <2>2. Closed(seen[t])
    BY <2>1 DEF LockingInv, ClientHolds, WalkHolds, UnderLocks, Past, Closed
  <2>3. Closure(roots[t]) \subseteq seen[t]
    BY <2>1, <2>2 DEF Closure
  <2>4. l \in acquired[t]
    BY <2>1, <2>3, LocksOfFewer
  <2>. QED BY <2>4 DEF LockingInv, OneHolder
<1>. QED BY <1>1, LockingInvariant, PTL

(* acquireAdvisoryLocks: of any transactions one at least waits for none   *)
(* of the others.  Of the locks they hold and wait for among themselves    *)
(* take a last one: its holder, were it waiting too, would wait for one    *)
(* that comes later still.                                                 *)
THEOREM NoDeadlock == LockingSpec => []NoWaitCycle
<1>1. LockingInv => NoWaitCycle
  <2> SUFFICES ASSUME LockingInv, NEW S \in SUBSET Clients, S # {},
                      \A t \in S : \E l \in wanted[t] :
                        NextWanted(t, l) /\ \E u \in S \ {t} : l \in acquired[u]
               PROVE  FALSE
    BY DEF NoWaitCycle
  <2> DEFINE W == {l \in Locks : \E t \in S : /\ l \in wanted[t] /\ NextWanted(t, l)
                                              /\ \E u \in S \ {t} : l \in acquired[u]}
  <2>1. \A t \in Clients : wanted[t] \subseteq Locks
    BY DEF LockingInv, LockTypes
  <2>2. \A t \in S : \E l \in W : l \in wanted[t]
    BY <2>1
  <2>3. \A l \in W : \E u \in S : l \in acquired[u]
    OBVIOUS
  <2>4. W \subseteq Locks /\ W # {}
    BY <2>2
  <2> HIDE DEF W
  <2>5. PICK l \in W : \A m \in W : ~Before(l, m)
    BY <2>4, LastLock
  <2>6. PICK u \in S : l \in acquired[u]
    BY <2>3
  <2>7. PICK m \in W : m \in wanted[u]
    BY <2>2
  <2>8. Before(l, m)
    BY <2>6, <2>7 DEF LockingInv, ClientHolds, Upward
  <2>. QED BY <2>5, <2>8
<1>. QED BY <1>1, LockingInvariant, PTL
=============================================================================
