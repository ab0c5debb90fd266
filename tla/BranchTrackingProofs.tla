------------------------ MODULE BranchTrackingProofs ------------------------
(***************************************************************************)
(* The invariants of BranchTracking for every value of its constants.  The *)
(* state falls into two halves that only IngestUpdate, CompleteScan and    *)
(* ActivateConfiguration move together: the branch checkpoint with its     *)
(* analyses and the pointer, and the reconciliation checkpoint with its    *)
(* scans.  Each half has an invariant of its own.                          *)
(***************************************************************************)
EXTENDS BranchTracking, TLAPS

BranchRows ==
  [desired : {"none", "present", "absent"},
   revision : Revisions \cup {"none"}, evidence : Evidence,
   generation : 0..MaxAnalyses, job : 0..MaxAnalyses,
   outcome : {"none", "queued", "leased", "retry_wait", "succeeded",
              "failed", "cancelled", "absent"},
   good : Goods]
ScanningRows ==
  [reference : 0..MaxChanges, generation : 0..MaxScans,
   job : 0..MaxScans, code : BOOLEAN,
   outcome : {"none", "no_work", "repaired", "absent", "obsolete", "failed"}]
AnalysisRows ==
  [state : JobStates, revision : Revisions \cup {"none"},
   evidence : Evidence, config : Configs \cup {"none"}, read : BOOLEAN,
   base : [good : Goods, version : 0..MaxAnalyses]]
ScanRows == [state : JobStates, config : Configs \cup {"none"}, observed : 0..MaxChanges]
PointerRows ==
  [version : 0..MaxAnalyses, snapshot : Snapshots \cup {NoSnapshot}, evidence : Evidence]
Links == [snapshot : Snapshots \cup {NoSnapshot}, kind : {"none", "analyzed", "reused"}]

(* What the environment's half of the state is.                            *)
WorldInv ==
  /\ provider \in Seq(Revisions \cup {"absent"})
  /\ Len(provider) <= MaxChanges
  /\ seen \subseteq DOMAIN provider
  /\ active \in Configs

-----------------------------------------------------------------------------
(* The reconciliation checkpoint and its scans.                            *)

WantedStates == WaitingStates \cup {"leased"}

ScanInv ==
  /\ scanning \in ScanningRows
  /\ scan \in [Scans -> ScanRows]
  /\ \A g \in Scans : scan[g].observed \in {0} \cup DOMAIN provider
  /\ scanning.job # None =>
       /\ scanning.job = scanning.generation
       /\ scanning.code <=> scan[scanning.job].state = "failed"
  /\ \A g \in Scans : scan[g].state \in WantedStates =>
       scanning.job = g /\ scan[g].config = active

LEMMA StateFacts ==
  /\ WaitingStates = {"queued", "retry_wait", "coded"}
  /\ WantedStates = {"queued", "retry_wait", "coded", "leased"}
  /\ JobStates = {"queued", "retry_wait", "coded", "none", "leased", "stopping",
                  "succeeded", "failed", "stopped"}
  /\ \A s \in JobStates :
       /\ StopState(s) \in JobStates
       /\ StopState(s) \notin WantedStates
       /\ StopState(s) = "failed" <=> s = "failed"
       /\ StopState(s) = "none" <=> s = "none"
       /\ StopState(s) = "succeeded" <=> s = "succeeded"
BY DEF WaitingStates, WantedStates, JobStates, StopState

LEMMA StopScan ==
  ASSUME scan \in [Scans -> ScanRows], NEW g \in 0..MaxScans
  PROVE  /\ Stop(scan, g) \in [Scans -> ScanRows]
         /\ \A h \in Scans :
              /\ Stop(scan, g)[h].state
                   = IF h = g THEN StopState(scan[h].state) ELSE scan[h].state
              /\ Stop(scan, g)[h].config = scan[h].config
              /\ Stop(scan, g)[h].observed = scan[h].observed
<1>1. CASE g = None
  BY <1>1 DEF Stop, None, Scans
<1>2. CASE g # None
  <2>1. g \in Scans
    BY <1>2, BranchAssumption DEF None, Scans
  <2>2. Stop(scan, g) = [scan EXCEPT ![g] = [scan[g] EXCEPT !.state = StopState(scan[g].state)]]
    BY <1>2 DEF Stop
  <2>3. scan[g] \in ScanRows /\ StopState(scan[g].state) \in JobStates
    BY <2>1, StateFacts DEF ScanRows
  <2>4. [scan[g] EXCEPT !.state = StopState(scan[g].state)] \in ScanRows
    BY <2>3 DEF ScanRows
  <2> QED
    BY <2>1, <2>2, <2>3, <2>4 DEF ScanRows
<1> QED
  BY <1>1, <1>2

LEMMA ScanWrites ==
  /\ \A r \in ScanRows : \A v \in JobStates :
       /\ [r EXCEPT !.state = v] \in ScanRows
       /\ [r EXCEPT !.state = v].state = v
       /\ [r EXCEPT !.state = v].config = r.config
       /\ [r EXCEPT !.state = v].observed = r.observed
  /\ \A r \in ScanRows : \A v \in Configs :
       /\ [r EXCEPT !.config = v] \in ScanRows
       /\ [r EXCEPT !.config = v].state = r.state
       /\ [r EXCEPT !.config = v].config = v
       /\ [r EXCEPT !.config = v].observed = r.observed
  /\ \A r \in ScanRows : \A v \in 0..MaxChanges :
       /\ [r EXCEPT !.observed = v] \in ScanRows
       /\ [r EXCEPT !.observed = v].state = r.state
       /\ [r EXCEPT !.observed = v].config = r.config
       /\ [r EXCEPT !.observed = v].observed = v
BY DEF ScanRows

LEMMA FunctionWrite ==
  ASSUME NEW A, NEW B, NEW f \in [A -> B], NEW a \in A, NEW b \in B
  PROVE  /\ [f EXCEPT ![a] = b] \in [A -> B]
         /\ \A h \in A : [f EXCEPT ![a] = b][h] = IF h = a THEN b ELSE f[h]
OBVIOUS

LEMMA NewScan ==
  ASSUME NEW c \in Configs,
         NEW s, s = [NoScan EXCEPT !.state = "queued", !.config = c]
  PROVE  s \in ScanRows /\ s.state = "queued" /\ s.config = c /\ s.observed = 0
<1> DEFINE q == [NoScan EXCEPT !.state = "queued"]
<1>1. 0 \in 0..MaxChanges /\ "none" \in JobStates /\ "queued" \in JobStates
  BY BranchAssumption, StateFacts
<1>2. NoScan \in ScanRows /\ NoScan.observed = 0
  BY <1>1 DEF NoScan, ScanRows, None
<1>3. q \in ScanRows /\ q.state = "queued" /\ q.observed = 0
  BY <1>1, <1>2, ScanWrites
<1>4. s = [q EXCEPT !.config = c]
  OBVIOUS
<1> HIDE DEF q
<1>5. /\ [q EXCEPT !.config = c] \in ScanRows
      /\ [q EXCEPT !.config = c].state = q.state
      /\ [q EXCEPT !.config = c].config = c
      /\ [q EXCEPT !.config = c].observed = q.observed
  BY <1>3, ScanWrites, Zenon
<1> QED
  BY <1>3, <1>4, <1>5, Zenon

(* A scan of the next generation takes the place of the last one.          *)
LEMMA NextScan ==
  ASSUME WorldInv, ScanInv, NEW reference \in 0..MaxChanges,
         NEW g, g = scanning.generation + 1, g \in Scans,
         active' \in Configs, provider' = provider,
         scan' = [Stop(scan, scanning.job) EXCEPT
           ![g] = [NoScan EXCEPT !.state = "queued", !.config = active']],
         scanning' = [reference |-> reference, generation |-> g, job |-> g,
                      outcome |-> "none", code |-> FALSE]
  PROVE  ScanInv'
<1> DEFINE new == [NoScan EXCEPT !.state = "queued", !.config = active']
           stopped == Stop(scan, scanning.job)
<1>1. /\ new \in ScanRows /\ new.observed = 0
      /\ new.state = "queued" /\ new.config = active'
  BY NewScan
<1>2. /\ stopped \in [Scans -> ScanRows]
      /\ \A h \in Scans :
           /\ stopped[h].state = IF h = scanning.job THEN StopState(scan[h].state)
                                                     ELSE scan[h].state
           /\ stopped[h].observed = scan[h].observed
  BY StopScan DEF ScanInv, ScanningRows
<1>3. /\ scan' = [stopped EXCEPT ![g] = new]
      /\ \A h \in Scans : scan[h].observed \in {0} \cup DOMAIN provider
      /\ \A h \in Scans : scan[h].state \in JobStates
      /\ \A h \in Scans : scan[h].state \in WantedStates => h = scanning.job
  BY DEF ScanInv, ScanRows
<1> HIDE DEF new, stopped
<1>6. /\ scan' \in [Scans -> ScanRows]
      /\ \A h \in Scans : scan'[h] = IF h = g THEN new ELSE stopped[h]
  <2> DEFINE next == [stopped EXCEPT ![g] = new]
  <2>1. /\ next \in [Scans -> ScanRows]
        /\ \A h \in Scans : next[h] = IF h = g THEN new ELSE stopped[h]
    BY <1>1, <1>2, FunctionWrite
  <2>2. scan' = next
    BY <1>3
  <2> HIDE DEF next
  <2> QED
    BY <2>1, <2>2, Zenon
<1>7. scanning' \in ScanningRows
  BY BranchAssumption DEF ScanningRows, Scans
<1>8. \A h \in Scans : stopped[h].state \notin WantedStates
  BY <1>2, <1>3, StateFacts
<1>9. \A h \in Scans : scan'[h].observed \in {0} \cup DOMAIN provider
  BY <1>2, <1>3, <1>1, <1>6
<1>10. scanning'.job = g /\ scanning'.generation = g /\ scanning'.code = FALSE
  OBVIOUS
<1>11. scan'[g].state = "queued"
  BY <1>1, <1>6
<1>12. \A h \in Scans : scan'[h].state \in WantedStates =>
         scanning'.job = h /\ scan'[h].config = active'
  BY <1>1, <1>6, <1>8, <1>10
<1> HIDE DEF ScanningRows
<1> QED
  BY <1>6, <1>7, <1>9, <1>10, <1>11, <1>12 DEF ScanInv

LEMMA ScanUnchanged ==
  ASSUME ScanInv, UNCHANGED <<scanning, scan, active>>,
         provider' = provider \/ \E state : provider' = Append(provider, state),
         provider \in Seq(Revisions \cup {"absent"})
  PROVE  ScanInv'
<1>1. DOMAIN provider \subseteq DOMAIN provider'
  <2>1. CASE provider' = provider
    BY <2>1
  <2>2. ASSUME NEW state, provider' = Append(provider, state)
        PROVE  DOMAIN provider \subseteq DOMAIN provider'
    <3>1. Len(provider) \in Nat /\ DOMAIN provider = 1..Len(provider)
      OBVIOUS
    <3>2. DOMAIN provider' = 1..(Len(provider) + 1)
      BY <2>2
    <3> QED
      BY <3>1, <3>2
  <2> QED
    BY <2>1, <2>2
<1> QED
  BY <1>1 DEF ScanInv

LEMMA RequestedScan ==
  ASSUME WorldInv, ScanInv, NEW reference \in 0..MaxChanges,
         scheduleBranchReconciliation(reference), UNCHANGED <<provider, active>>
  PROVE  ScanInv'
<1> DEFINE g == scanning.generation + 1
<1>1. \/ UNCHANGED <<scanning, scan>>
      \/ /\ g \in Scans
         /\ scan' = [Stop(scan, scanning.job) EXCEPT
              ![g] = [NoScan EXCEPT !.state = "queued", !.config = active]]
         /\ scanning' = [reference |-> reference, generation |-> g, job |-> g,
                         outcome |-> "none", code |-> FALSE]
  BY DEF scheduleBranchReconciliation
<1>2. provider \in Seq(Revisions \cup {"absent"}) /\ active \in Configs
  BY DEF WorldInv
<1> HIDE DEF g
<1>3. CASE UNCHANGED <<scanning, scan>>
  BY <1>2, <1>3, ScanUnchanged
<1>4. CASE ~UNCHANGED <<scanning, scan>>
  BY <1>1, <1>2, <1>4, NextScan DEF g
<1> QED
  BY <1>3, <1>4

(* A write of one scan that keeps it on the checkpoint's side of things.   *)
LEMMA ScanWrite ==
  ASSUME ScanInv, NEW g \in Scans, NEW s \in ScanRows,
         scan' = [scan EXCEPT ![g] = s], UNCHANGED <<provider, active>>,
         s.observed \in {0} \cup DOMAIN provider,
         s.state \in WantedStates => scanning'.job = g /\ s.config = active,
         scanning' \in ScanningRows,
         scanning'.generation = scanning.generation,
         \/ scanning'.job = None /\ scanning.job = g
         \/ /\ scanning'.job = scanning.job
            /\ scanning.job = g => (scanning'.code <=> s.state = "failed")
            /\ scanning.job # g => scanning'.code = scanning.code
  PROVE  ScanInv'
<1>1. /\ scan' \in [Scans -> ScanRows]
      /\ \A h \in Scans : scan'[h] = IF h = g THEN s ELSE scan[h]
  BY DEF ScanInv
<1>2. \A h \in Scans : scan'[h].observed \in {0} \cup DOMAIN provider'
  BY <1>1 DEF ScanInv
<1>3. \A h \in Scans : scan'[h].state \in WantedStates =>
        scanning'.job = h /\ scan'[h].config = active'
  <2> SUFFICES ASSUME NEW h \in Scans, h # g, scan[h].state \in WantedStates
               PROVE  scanning'.job = h /\ scan[h].config = active
    BY <1>1
  <2>1. scanning.job = h /\ scan[h].config = active
    BY DEF ScanInv
  <2> QED
    BY <2>1
<1>4. scanning'.job # None =>
        /\ scanning'.job = scanning'.generation
        /\ scanning'.code <=> scan'[scanning'.job].state = "failed"
  <2> SUFFICES ASSUME scanning'.job # None
               PROVE  /\ scanning'.job = scanning'.generation
                      /\ scanning'.code <=> scan'[scanning'.job].state = "failed"
    OBVIOUS
  <2>1. scanning'.job = scanning.job /\ scanning.job # None
    OBVIOUS
  <2>2. scanning.job \in Scans
    BY <2>1, BranchAssumption DEF ScanInv, ScanningRows, Scans, None
  <2>3. /\ scanning.job = scanning.generation
        /\ scanning.code <=> scan[scanning.job].state = "failed"
    BY <2>1 DEF ScanInv
  <2> QED
    BY <1>1, <2>1, <2>2, <2>3
<1> QED
  BY <1>1, <1>2, <1>3, <1>4 DEF ScanInv

LEMMA ActivateScan ==
  ASSUME WorldInv, ScanInv, NEW c \in Configs, ActivateConfiguration(c)
  PROVE  ScanInv'
<1> DEFINE g == scanning.generation + 1
<1>1. active' = c /\ provider' = provider
  BY DEF ActivateConfiguration
<1>2. CASE c \in Intended
  <2>1. /\ g \in Scans
        /\ scan' = [Stop(scan, scanning.job) EXCEPT
             ![g] = [NoScan EXCEPT !.state = "queued", !.config = active']]
        /\ scanning' = [reference |-> 0, generation |-> g, job |-> g,
                        outcome |-> "none", code |-> FALSE]
    BY <1>1, <1>2 DEF ActivateConfiguration
  <2>2. 0 \in 0..MaxChanges
    BY BranchAssumption
  <2> HIDE DEF g
  <2> QED
    BY <1>1, <2>1, <2>2, NextScan DEF g
<1>3. CASE c \notin Intended
  <2>1. /\ scan' = Stop(scan, scanning.job)
        /\ scanning' = IF scanning.generation = 0 THEN scanning
                       ELSE [scanning EXCEPT !.job = None, !.outcome = "obsolete"]
    BY <1>3 DEF ActivateConfiguration
  <2>2. scanning \in ScanningRows /\ scanning.job \in 0..MaxScans
        /\ (scanning.job # None => scanning.job = scanning.generation)
    BY DEF ScanInv, ScanningRows
  <2>3. /\ scan' \in [Scans -> ScanRows]
        /\ \A h \in Scans :
             /\ scan'[h].state = IF h = scanning.job THEN StopState(scan[h].state)
                                                     ELSE scan[h].state
             /\ scan'[h].observed = scan[h].observed
    BY <2>1, <2>2, StopScan DEF ScanInv
  <2>4. scanning' \in ScanningRows /\ scanning'.job = None
    <3>1. CASE scanning.generation = 0
      BY <2>1, <2>2, <3>1 DEF None
    <3>2. CASE scanning.generation # 0
      <4>1. None \in 0..MaxScans
        BY BranchAssumption DEF None
      <4> QED
        BY <2>1, <2>2, <3>2, <4>1 DEF ScanningRows
    <3> QED
      BY <3>1, <3>2
  <2>5. /\ \A h \in Scans : scan[h].state \in JobStates
        /\ \A h \in Scans : scan[h].state \in WantedStates => h = scanning.job
        /\ \A h \in Scans : scan[h].observed \in {0} \cup DOMAIN provider
    BY DEF ScanInv, ScanRows
  <2>6. \A h \in Scans : scan'[h].state \notin WantedStates
    BY <2>3, <2>5, StateFacts
  <2>7. \A h \in Scans : scan'[h].observed \in {0} \cup DOMAIN provider'
    BY <1>1, <2>3, <2>5
  <2> QED
    BY <2>3, <2>4, <2>6, <2>7 DEF ScanInv
<1> QED
  BY <1>2, <1>3

(* What is known of one scan.                                              *)
LEMMA OneScan ==
  ASSUME ScanInv, NEW g \in Scans
  PROVE  /\ scan[g] \in ScanRows /\ scan[g].observed \in {0} \cup DOMAIN provider
         /\ scan[g].state \in JobStates /\ scan[g].observed \in 0..MaxChanges
         /\ scan[g].state \in WantedStates => scanning.job = g /\ scan[g].config = active
         /\ scanning.job = g => (scanning.code <=> scan[g].state = "failed")
         /\ scanning \in ScanningRows
<1>1. g # None
  BY BranchAssumption DEF None, Scans
<1> QED
  BY <1>1 DEF ScanInv, ScanRows

LEMMA CancelScanStep ==
  ASSUME ScanInv, NEW g \in Scans, CancelScan(g)
  PROVE  ScanInv'
<1> DEFINE s == [scan[g] EXCEPT !.state = StopState(scan[g].state)]
<1>1. scan' = [scan EXCEPT ![g] = s]
  BY BranchAssumption DEF CancelScan, Stop, None, Scans
<1>2. StopState(scan[g].state) \in JobStates /\ StopState(scan[g].state) \notin WantedStates
  BY OneScan, StateFacts
<1>3. s \in ScanRows /\ s.state = StopState(scan[g].state) /\ s.observed = scan[g].observed
  BY <1>2, OneScan, ScanWrites
<1> HIDE DEF s
<1>4. None \in 0..MaxScans
  BY BranchAssumption DEF None
<1>5. Unfinished(scan[g])
  BY DEF CancelScan
<1>6. s.state # "failed" /\ scan[g].state # "failed"
  BY <1>3, <1>5, OneScan, StateFacts DEF Unfinished
<1>7. CASE scanning.job = g
  <2>1. scanning' = [scanning EXCEPT !.job = None, !.outcome = "obsolete"]
    BY <1>7 DEF CancelScan
  <2>2. /\ scanning' \in ScanningRows /\ scanning'.job = None
        /\ scanning'.generation = scanning.generation
    BY <1>4, <2>1, OneScan DEF ScanningRows
  <2>3. UNCHANGED <<provider, active>> /\ s.observed \in {0} \cup DOMAIN provider
    BY <1>3, OneScan DEF CancelScan
  <2>4. s.state \notin WantedStates
    BY <1>2, <1>3
  <2> QED
    BY <1>1, <1>3, <1>7, <2>2, <2>3, <2>4, ScanWrite
<1>8. CASE scanning.job # g
  <2>1. scanning' = scanning
    BY <1>8 DEF CancelScan
  <2>2. scanning' \in ScanningRows
    BY <2>1, OneScan
  <2>3. UNCHANGED <<provider, active>> /\ s.observed \in {0} \cup DOMAIN provider
    BY <1>3, OneScan DEF CancelScan
  <2>4. s.state \notin WantedStates
    BY <1>2, <1>3
  <2> QED
    BY <1>1, <1>3, <1>8, <2>1, <2>2, <2>3, <2>4, ScanWrite
<1> QED
  BY <1>7, <1>8

LEMMA ClaimScanStep ==
  ASSUME ScanInv, NEW g \in Scans, ClaimScan(g)
  PROVE  ScanInv'
<1> DEFINE r == [scan[g] EXCEPT !.state = "leased"]
           s == [r EXCEPT !.observed = None]
<1>1. scan' = [scan EXCEPT ![g] = s] /\ scanning' = scanning
  BY DEF ClaimScan
<1>2. "leased" \in JobStates /\ None \in 0..MaxChanges /\ "leased" \in WantedStates
  BY StateFacts, BranchAssumption DEF None
<1>3. r \in ScanRows /\ r.state = "leased" /\ r.config = scan[g].config
  BY <1>2, OneScan, ScanWrites
<1> HIDE DEF r
<1>4. s \in ScanRows /\ s.state = "leased" /\ s.config = scan[g].config /\ s.observed = None
  BY <1>2, <1>3, ScanWrites, Zenon
<1> HIDE DEF s
<1>5. scan[g].state \in WantedStates /\ scan[g].state # "failed"
  BY StateFacts DEF ClaimScan
<1>6. s.observed = 0
  BY <1>4 DEF None
<1>7. scanning.job = g /\ s.config = active /\ ~scanning.code /\ scanning \in ScanningRows
  BY <1>4, <1>5, OneScan
<1>8. UNCHANGED <<provider, active>> /\ s.state # "failed"
  BY <1>4 DEF ClaimScan
<1> QED
  BY <1>1, <1>4, <1>6, <1>7, <1>8, ScanWrite

LEMMA EndScanStep ==
  ASSUME ScanInv, NEW g \in Scans, EndScan(g)
  PROVE  ScanInv'
<1>1. PICK state \in Ends(scan[g].state) :
        /\ scan' = [scan EXCEPT ![g].state = state]
        /\ scanning' = IF scanning.job = g /\ state = "failed"
                       THEN [scanning EXCEPT !.outcome = "failed", !.code = TRUE]
                       ELSE scanning
  BY DEF EndScan
<1> DEFINE s == [scan[g] EXCEPT !.state = state]
<1>2. state \in JobStates /\ scan[g].state \in {"leased", "stopping"}
  BY StateFacts DEF EndScan, Ends, Held
<1>3. s \in ScanRows /\ s.state = state /\ s.config = scan[g].config
      /\ s.observed = scan[g].observed
  BY <1>2, OneScan, ScanWrites
<1>4. scan' = [scan EXCEPT ![g] = s]
  BY <1>1
<1> HIDE DEF s
<1>5. state \in WantedStates => scan[g].state = "leased"
  BY <1>2, StateFacts DEF Ends
<1>6. state \in WantedStates => scanning.job = g /\ s.config = active
  BY <1>3, <1>5, StateFacts, OneScan
<1>7. scanning.job = g => ~scanning.code
  BY <1>2, OneScan
<1>8. /\ scanning' \in ScanningRows /\ scanning'.job = scanning.job
      /\ scanning'.generation = scanning.generation
      /\ scanning'.code = IF scanning.job = g /\ state = "failed" THEN TRUE ELSE scanning.code
  BY <1>1, OneScan DEF ScanningRows
<1>9. scanning.job = g => (scanning'.code <=> state = "failed")
  BY <1>7, <1>8
<1> QED
  BY <1>3, <1>4, <1>6, <1>8, <1>9, OneScan, ScanWrite DEF EndScan

LEMMA ObserveStep ==
  ASSUME WorldInv, ScanInv, NEW g \in Scans, Observe(g)
  PROVE  ScanInv'
<1> DEFINE s == [scan[g] EXCEPT !.observed = Len(provider)]
<1>1. Len(provider) \in 0..MaxChanges /\ Len(provider) \in DOMAIN provider
  BY BranchAssumption DEF WorldInv, Observe
<1>2. /\ s \in ScanRows /\ s.state = scan[g].state /\ s.config = scan[g].config
      /\ s.observed = Len(provider)
  BY <1>1, OneScan, ScanWrites
<1>3. scan' = [scan EXCEPT ![g] = s] /\ scanning' = scanning
  BY DEF Observe
<1> HIDE DEF s
<1>4. UNCHANGED <<provider, active>> /\ s.observed \in {0} \cup DOMAIN provider
  BY <1>1, <1>2 DEF Observe
<1>5. /\ s.state \in WantedStates => scanning.job = g /\ s.config = active
      /\ scanning.job = g => (scanning.code <=> s.state = "failed")
      /\ scanning \in ScanningRows
  BY <1>2, OneScan
<1> QED
  BY <1>2, <1>3, <1>4, <1>5, ScanWrite

LEMMA CompleteScanRows ==
  ASSUME ScanInv, NEW g \in Scans, NEW ordered, CompleteScan(g, ordered)
  PROVE  ScanInv'
<1> DEFINE s == [scan[g] EXCEPT !.state = "succeeded"]
<1>1. "succeeded" \in JobStates /\ "succeeded" \notin WantedStates
  BY StateFacts
<1>2. s \in ScanRows /\ s.state = "succeeded" /\ s.observed = scan[g].observed
  BY <1>1, OneScan, ScanWrites
<1>3. scan' = [scan EXCEPT ![g] = s] /\ scanning.job = g
  BY DEF CompleteScan, CurrentScan
<1>4. PICK o \in {"absent", "repaired", "no_work"} :
        scanning' = [scanning EXCEPT !.code = FALSE, !.outcome = o]
  <2> DEFINE n == scan[g].observed
             o == CASE Desired(n) = "absent" -> "absent"
                    [] forceRepair(n)        -> "repaired"
                    [] OTHER                 -> "no_work"
  <2>1. scanning' = [scanning EXCEPT !.code = FALSE, !.outcome = o]
    BY DEF CompleteScan
  <2>2. o \in {"absent", "repaired", "no_work"}
    BY DEF forceRepair
  <2> HIDE DEF o
  <2> QED
    BY <2>1, <2>2
<1>5. /\ scanning' \in ScanningRows /\ scanning'.job = scanning.job
      /\ scanning'.generation = scanning.generation /\ scanning'.code = FALSE
  BY <1>4, OneScan DEF ScanningRows
<1> HIDE DEF s
<1>6. /\ UNCHANGED <<provider, active>> /\ s.observed \in {0} \cup DOMAIN provider
      /\ s.state \notin WantedStates /\ s.state # "failed"
  BY <1>1, <1>2, OneScan DEF CompleteScan
<1> QED
  BY <1>2, <1>3, <1>5, <1>6, ScanWrite

-----------------------------------------------------------------------------
(* The branch checkpoint, its analyses and the pointer.                    *)

(* Rows are in range; a job that exists is pinned to a revision and a      *)
(* configuration, and the base a worker read is a published one.           *)
BranchTypes ==
  /\ branch \in BranchRows
  /\ analysis \in [Analyses -> AnalysisRows]
  /\ linked \in [Snapshots -> Links]
  /\ pointer \in PointerRows
  /\ \A g \in Analyses :
       /\ analysis[g].state # "none" =>
            analysis[g].revision \in Revisions /\ analysis[g].config \in Configs
       /\ analysis[g].base # NoBase => analysis[g].base.good # NoGood

(* The checkpoint and its job; every generation promotes at most once.     *)
BranchJob ==
  /\ branch.job # None =>
       /\ branch.job = branch.generation
       /\ branch.desired = "present"
       /\ branch.revision = analysis[branch.job].revision
       /\ branch.outcome = Outcome(analysis[branch.job].state)
       /\ analysis[branch.job].state # "none"
  /\ \A g \in Analyses : analysis[g].state \in WantedStates =>
       branch.job = g /\ analysis[g].config = active
  /\ pointer.version <= branch.generation
  /\ branch.job # None /\ analysis[branch.job].state # "succeeded" =>
       pointer.version < branch.generation

Truth ==
  /\ branch.desired # "none" =>
       /\ branch.evidence.n \in DOMAIN provider
       /\ branch.desired = Desired(branch.evidence.n)
       /\ sameTarget(branch.evidence.n) \/ branch.desired = "absent"
  /\ pointer.version # 0 =>
       /\ pointer.evidence.n \in DOMAIN provider
       /\ branch.good.revision = provider[pointer.evidence.n]

BranchInv == BranchTypes /\ BranchJob /\ PointerAgreesWithCheckpoint /\ Truth

LEMMA BranchWrites ==
  /\ \A r \in BranchRows : \A v \in {"none", "present", "absent"} :
       [r EXCEPT !.desired = v] \in BranchRows
  /\ \A r \in BranchRows : \A v \in Revisions \cup {"none"} :
       [r EXCEPT !.revision = v] \in BranchRows
  /\ \A r \in BranchRows : \A v \in Evidence : [r EXCEPT !.evidence = v] \in BranchRows
  /\ \A r \in BranchRows : \A v \in 0..MaxAnalyses :
       /\ [r EXCEPT !.generation = v] \in BranchRows
       /\ [r EXCEPT !.job = v] \in BranchRows
  /\ \A r \in BranchRows :
       \A v \in {"none", "queued", "leased", "retry_wait", "succeeded",
                 "failed", "cancelled", "absent"} :
         [r EXCEPT !.outcome = v] \in BranchRows
  /\ \A r \in BranchRows : \A v \in Goods : [r EXCEPT !.good = v] \in BranchRows
BY DEF BranchRows

LEMMA StopAnalysis ==
  ASSUME analysis \in [Analyses -> AnalysisRows], NEW g \in 0..MaxAnalyses
  PROVE  /\ Stop(analysis, g) \in [Analyses -> AnalysisRows]
         /\ \A h \in Analyses :
              /\ Stop(analysis, g)[h].state
                   = IF h = g THEN StopState(analysis[h].state) ELSE analysis[h].state
              /\ Stop(analysis, g)[h].revision = analysis[h].revision
              /\ Stop(analysis, g)[h].config = analysis[h].config
              /\ Stop(analysis, g)[h].base = analysis[h].base
<1>1. CASE g = None
  BY <1>1 DEF Stop, None, Analyses
<1>2. CASE g # None
  <2> DEFINE s == [analysis[g] EXCEPT !.state = StopState(analysis[g].state)]
  <2>1. g \in Analyses
    BY <1>2, BranchAssumption DEF None, Analyses
  <2>2. Stop(analysis, g) = [analysis EXCEPT ![g] = s]
    BY <1>2 DEF Stop
  <2>3. analysis[g] \in AnalysisRows /\ StopState(analysis[g].state) \in JobStates
    BY <2>1, StateFacts DEF AnalysisRows
  <2>4. /\ s \in AnalysisRows /\ s.state = StopState(analysis[g].state)
        /\ s.revision = analysis[g].revision /\ s.config = analysis[g].config
        /\ s.base = analysis[g].base
    BY <2>3 DEF AnalysisRows
  <2> HIDE DEF s
  <2> QED
    BY <2>1, <2>2, <2>4
<1> QED
  BY <1>1, <1>2

(* What is known of one analysis.                                          *)
LEMMA OneAnalysis ==
  ASSUME BranchInv, NEW g \in Analyses
  PROVE  /\ analysis[g] \in AnalysisRows /\ analysis[g].state \in JobStates
         /\ analysis[g].state # "none" =>
              analysis[g].revision \in Revisions /\ analysis[g].config \in Configs
         /\ analysis[g].base # NoBase => analysis[g].base.good # NoGood
         /\ analysis[g].state \in WantedStates =>
              branch.job = g /\ analysis[g].config = active
         /\ branch.job = g =>
              /\ branch.desired = "present" /\ branch.job = branch.generation
              /\ branch.revision = analysis[g].revision
              /\ branch.outcome = Outcome(analysis[g].state)
              /\ analysis[g].state # "succeeded" => pointer.version < branch.generation
         /\ branch \in BranchRows /\ g # None
<1>1. g # None
  BY BranchAssumption DEF None, Analyses
<1> QED
  BY <1>1 DEF BranchInv, BranchTypes, BranchJob, AnalysisRows

(* Time passing at the provider.                                           *)
LEMMA BranchUnchanged ==
  ASSUME BranchInv, UNCHANGED <<branch, analysis, active, linked, pointer>>,
         provider' = provider \/ \E state : provider' = Append(provider, state),
         provider \in Seq(Revisions \cup {"absent"})
  PROVE  BranchInv'
<1>1. \A n \in DOMAIN provider : n \in DOMAIN provider' /\ provider'[n] = provider[n]
  <2>1. CASE provider' = provider
    BY <2>1
  <2>2. ASSUME NEW state, provider' = Append(provider, state)
        PROVE  \A n \in DOMAIN provider : n \in DOMAIN provider' /\ provider'[n] = provider[n]
    <3>1. Len(provider) \in Nat /\ DOMAIN provider = 1..Len(provider)
      OBVIOUS
    <3>2. DOMAIN provider' = 1..(Len(provider) + 1)
      BY <2>2
    <3>3. \A n \in 1..Len(provider) : provider'[n] = provider[n]
      BY <2>2
    <3> QED
      BY <3>1, <3>2, <3>3
  <2> QED
    BY <2>1, <2>2
<1>2. BranchTypes' /\ BranchJob' /\ PointerAgreesWithCheckpoint'
  BY DEF BranchInv, BranchTypes, BranchJob, PointerAgreesWithCheckpoint
<1>3. Truth'
  BY <1>1 DEF BranchInv, Truth, Desired, sameTarget
<1> QED
  BY <1>2, <1>3 DEF BranchInv

(* A write of one analysis that promotes nothing.                          *)
LEMMA AnalysisWrite ==
  ASSUME BranchInv, NEW g \in Analyses, NEW a \in AnalysisRows,
         analysis' = [analysis EXCEPT ![g] = a],
         UNCHANGED <<provider, active, linked, pointer>>,
         analysis[g].state # "none", a.state # "none",
         a.revision = analysis[g].revision, a.config = analysis[g].config,
         a.base # NoBase => a.base.good # NoGood,
         a.state \in WantedStates => branch'.job = g /\ a.config = active,
         a.state # "succeeded" => analysis[g].state # "succeeded",
         branch' \in BranchRows,
         branch'.generation = branch.generation,
         branch'.evidence = branch.evidence, branch'.good = branch.good,
         branch'.desired = branch.desired, branch'.revision = branch.revision,
         \/ branch'.job = None /\ branch.job = g
         \/ /\ branch'.job = branch.job
            /\ branch'.outcome = IF branch.job = g THEN Outcome(a.state) ELSE branch.outcome
  PROVE  BranchInv'
<1>1. \A h \in Analyses : analysis'[h] = IF h = g THEN a ELSE analysis[h]
  BY DEF BranchInv, BranchTypes
<1>2. analysis' \in [Analyses -> AnalysisRows]
  BY <1>1 DEF BranchInv, BranchTypes
<1>3. BranchTypes'
  BY <1>1, <1>2, OneAnalysis DEF BranchInv, BranchTypes
<1>4. \A h \in Analyses : analysis'[h].state \in WantedStates =>
        branch'.job = h /\ analysis'[h].config = active'
  <2> SUFFICES ASSUME NEW h \in Analyses, h # g, analysis[h].state \in WantedStates
               PROVE  branch'.job = h /\ analysis[h].config = active
    BY <1>1
  <2>1. branch.job = h /\ analysis[h].config = active
    BY OneAnalysis
  <2> QED
    BY <2>1
<1>5. branch'.job # None => branch'.job = branch.job /\ branch.job \in Analyses
  BY BranchAssumption, OneAnalysis DEF BranchRows, Analyses, None
<1>6. branch'.job # None =>
        /\ branch'.job = branch'.generation
        /\ branch'.desired = "present"
        /\ branch'.revision = analysis'[branch'.job].revision
        /\ branch'.outcome = Outcome(analysis'[branch'.job].state)
        /\ analysis'[branch'.job].state # "none"
  BY <1>1, <1>5 DEF BranchInv, BranchJob
<1>7. branch'.job # None /\ analysis'[branch'.job].state # "succeeded" =>
        pointer'.version < branch'.generation
  BY <1>1, <1>5 DEF BranchInv, BranchJob
<1>8. BranchJob'
  BY <1>4, <1>6, <1>7 DEF BranchInv, BranchJob
<1>9. PointerAgreesWithCheckpoint' /\ Truth'
  BY DEF BranchInv, PointerAgreesWithCheckpoint, Truth, Desired, sameTarget
<1> QED
  BY <1>3, <1>8, <1>9 DEF BranchInv

LEMMA AnalysisWrites ==
  /\ \A r \in AnalysisRows : \A v \in JobStates :
       /\ [r EXCEPT !.state = v] \in AnalysisRows
       /\ [r EXCEPT !.state = v].state = v
       /\ [r EXCEPT !.state = v].revision = r.revision
       /\ [r EXCEPT !.state = v].config = r.config
       /\ [r EXCEPT !.state = v].base = r.base
  /\ \A r \in AnalysisRows : \A v \in BOOLEAN :
       /\ [r EXCEPT !.read = v] \in AnalysisRows
       /\ [r EXCEPT !.read = v].state = r.state
       /\ [r EXCEPT !.read = v].revision = r.revision
       /\ [r EXCEPT !.read = v].config = r.config
       /\ [r EXCEPT !.read = v].base = r.base
  /\ \A r \in AnalysisRows : \A v \in [good : Goods, version : 0..MaxAnalyses] :
       /\ [r EXCEPT !.base = v] \in AnalysisRows
       /\ [r EXCEPT !.base = v].state = r.state
       /\ [r EXCEPT !.base = v].revision = r.revision
       /\ [r EXCEPT !.base = v].config = r.config
       /\ [r EXCEPT !.base = v].base = v
BY DEF AnalysisRows

LEMMA NoBaseType == NoBase \in [good : Goods, version : 0..MaxAnalyses]
BY BranchAssumption DEF NoBase, Goods

LEMMA OutcomeType ==
  \A s \in {"queued", "leased", "retry_wait", "coded", "succeeded", "failed"} :
    /\ Outcome(s) \in {"none", "queued", "leased", "retry_wait", "succeeded",
                      "failed", "cancelled", "absent"}
BY DEF Outcome

(* The job of the checkpoint was never asked to stop.                      *)
LEMMA CheckpointJobRuns ==
  ASSUME BranchInv, NEW g \in Analyses, branch.job = g
  PROVE  analysis[g].state \notin {"stopping", "stopped"}
<1>1. branch.outcome = Outcome(analysis[g].state)
  BY OneAnalysis
<1>2. branch.outcome \notin {"stopping", "stopped"}
  BY OneAnalysis DEF BranchRows
<1> QED
  BY <1>1, <1>2 DEF Outcome

LEMMA Reported ==
  ASSUME BranchInv, NEW g \in Analyses,
         NEW s \in {"queued", "leased", "retry_wait", "coded", "succeeded", "failed", "stopped"},
         branch' = Report(g, s), branch.job = g => s # "stopped"
  PROVE  /\ branch' \in BranchRows
         /\ branch'.generation = branch.generation
         /\ branch'.evidence = branch.evidence /\ branch'.good = branch.good
         /\ branch'.desired = branch.desired /\ branch'.revision = branch.revision
         /\ branch'.job = branch.job
         /\ branch'.outcome = IF branch.job = g THEN Outcome(s) ELSE branch.outcome
<1>1. branch \in BranchRows
  BY OneAnalysis
<1>2. CASE branch.job # g
  BY <1>1, <1>2 DEF Report
<1>3. CASE branch.job = g
  <2>1. branch' = [branch EXCEPT !.outcome = Outcome(s)]
    BY <1>3 DEF Report
  <2>2. Outcome(s) \in {"none", "queued", "leased", "retry_wait", "succeeded",
                        "failed", "cancelled", "absent"}
    BY <1>3, OutcomeType
  <2>3. branch' \in BranchRows
    BY <1>1, <2>1, <2>2, BranchWrites
  <2> QED
    BY <1>1, <1>3, <2>1, <2>3 DEF BranchRows
<1> QED
  BY <1>2, <1>3

LEMMA CancelAnalysisStep ==
  ASSUME BranchInv, NEW g \in Analyses, CancelAnalysis(g)
  PROVE  BranchInv'
<1> DEFINE s == [analysis[g] EXCEPT !.state = StopState(analysis[g].state)]
<1>1. analysis' = [analysis EXCEPT ![g] = s]
  BY BranchAssumption DEF CancelAnalysis, Stop, None, Analyses
<1>2. /\ StopState(analysis[g].state) \in JobStates
      /\ StopState(analysis[g].state) \notin WantedStates
      /\ StopState(analysis[g].state) = "succeeded" <=> analysis[g].state = "succeeded"
      /\ StopState(analysis[g].state) = "none" <=> analysis[g].state = "none"
  BY OneAnalysis, StateFacts
<1>3. /\ s \in AnalysisRows /\ s.state = StopState(analysis[g].state)
      /\ s.revision = analysis[g].revision /\ s.config = analysis[g].config
      /\ s.base = analysis[g].base
  BY <1>2, OneAnalysis, AnalysisWrites
<1>4. analysis[g].state # "none" /\ UNCHANGED <<provider, active, linked, pointer>>
  BY StateFacts DEF CancelAnalysis, Unfinished
<1> HIDE DEF s
<1>5. /\ branch' \in BranchRows
      /\ branch'.generation = branch.generation
      /\ branch'.evidence = branch.evidence /\ branch'.good = branch.good
      /\ branch'.desired = branch.desired /\ branch'.revision = branch.revision
      /\ \/ branch'.job = None /\ branch.job = g
         \/ branch' = branch /\ branch.job # g
  <2>1. CASE branch.job # g
    BY <2>1, OneAnalysis DEF CancelAnalysis
  <2>2. CASE branch.job = g
    <3> DEFINE b == [branch EXCEPT !.job = None]
    <3>1. branch' = [b EXCEPT !.outcome = "cancelled"]
      BY <2>2 DEF CancelAnalysis
    <3>2. None \in 0..MaxAnalyses
      BY BranchAssumption DEF None
    <3>3. b \in BranchRows
      BY <3>2, OneAnalysis, BranchWrites
    <3>4. /\ b.generation = branch.generation /\ b.evidence = branch.evidence
          /\ b.good = branch.good /\ b.desired = branch.desired
          /\ b.revision = branch.revision /\ b.job = None
      BY OneAnalysis DEF BranchRows
    <3> HIDE DEF b
    <3>5. branch' \in BranchRows
      BY <3>1, <3>3, BranchWrites
    <3> QED
      BY <2>2, <3>1, <3>3, <3>4, <3>5 DEF BranchRows
  <2> QED
    BY <2>1, <2>2
<1>6. /\ s.state # "none" /\ s.state \notin WantedStates
      /\ s.state # "succeeded" => analysis[g].state # "succeeded"
      /\ s.base # NoBase => s.base.good # NoGood
  BY <1>2, <1>3, <1>4, OneAnalysis
<1> QED
  BY <1>1, <1>3, <1>4, <1>5, <1>6, AnalysisWrite

LEMMA ClaimAnalysisStep ==
  ASSUME BranchInv, NEW g \in Analyses, ClaimAnalysis(g)
  PROVE  BranchInv'
<1> DEFINE r == [analysis[g] EXCEPT !.state = "leased"]
           q == [r EXCEPT !.read = FALSE]
           s == [q EXCEPT !.base = NoBase]
<1>1. /\ analysis' = [analysis EXCEPT ![g] = s]
      /\ branch' = Report(g, "leased")
      /\ UNCHANGED <<provider, active, linked, pointer>>
  BY DEF ClaimAnalysis
<1>2. analysis[g].state \in WantedStates /\ analysis[g].state \notin {"none", "succeeded"}
      /\ "leased" \in JobStates
  BY StateFacts DEF ClaimAnalysis
<1>3. /\ r \in AnalysisRows /\ r.state = "leased"
      /\ r.revision = analysis[g].revision /\ r.config = analysis[g].config
  BY <1>2, OneAnalysis, AnalysisWrites
<1> HIDE DEF r
<1>4. /\ q \in AnalysisRows /\ q.state = "leased"
      /\ q.revision = analysis[g].revision /\ q.config = analysis[g].config
  BY <1>3, AnalysisWrites
<1> HIDE DEF q
<1>5. /\ s \in AnalysisRows /\ s.state = "leased"
      /\ s.revision = analysis[g].revision /\ s.config = analysis[g].config
      /\ s.base = NoBase
  BY <1>4, AnalysisWrites, NoBaseType
<1> HIDE DEF s
<1>6. /\ branch' \in BranchRows
      /\ branch'.generation = branch.generation
      /\ branch'.evidence = branch.evidence /\ branch'.good = branch.good
      /\ branch'.desired = branch.desired /\ branch'.revision = branch.revision
      /\ branch'.job = branch.job
      /\ branch'.outcome = IF branch.job = g THEN Outcome("leased") ELSE branch.outcome
  BY <1>1, Reported
<1>7. branch.job = g /\ analysis[g].config = active
  BY <1>2, OneAnalysis
<1> QED
  BY <1>1, <1>2, <1>5, <1>6, <1>7, AnalysisWrite

LEMMA EndAnalysisStep ==
  ASSUME BranchInv, NEW g \in Analyses, EndAnalysis(g)
  PROVE  BranchInv'
<1>1. PICK state \in Ends(analysis[g].state) :
        /\ analysis' = [analysis EXCEPT ![g].state = state]
        /\ branch' = Report(g, state)
  BY DEF EndAnalysis
<1> DEFINE s == [analysis[g] EXCEPT !.state = state]
<1>2. /\ state \in {"coded", "retry_wait", "failed", "stopped"}
      /\ state # "stopped" => analysis[g].state = "leased"
      /\ analysis[g].state \in {"leased", "stopping"}
      /\ state = "stopped" => analysis[g].state = "stopping"
  BY DEF EndAnalysis, Ends, Held
<1>3. state \in JobStates
  BY <1>2, StateFacts
<1>4. /\ s \in AnalysisRows /\ s.state = state
      /\ s.revision = analysis[g].revision /\ s.config = analysis[g].config
      /\ s.base = analysis[g].base
  BY <1>3, OneAnalysis, AnalysisWrites
<1>5. analysis' = [analysis EXCEPT ![g] = s] /\ UNCHANGED <<provider, active, linked, pointer>>
  BY <1>1 DEF EndAnalysis
<1> HIDE DEF s
<1>6. /\ branch' \in BranchRows
      /\ branch'.generation = branch.generation
      /\ branch'.evidence = branch.evidence /\ branch'.good = branch.good
      /\ branch'.desired = branch.desired /\ branch'.revision = branch.revision
      /\ branch'.job = branch.job
      /\ branch'.outcome = IF branch.job = g THEN Outcome(state) ELSE branch.outcome
  BY <1>1, <1>2, Reported, CheckpointJobRuns
<1>7. state \in WantedStates => branch.job = g /\ s.config = active
  BY <1>2, <1>4, OneAnalysis, StateFacts
<1>8. s.base # NoBase => s.base.good # NoGood
  BY <1>4, OneAnalysis
<1> QED
  BY <1>2, <1>4, <1>5, <1>6, <1>7, <1>8, AnalysisWrite

LEMMA PrepareAnalysisStep ==
  ASSUME BranchInv, NEW g \in Analyses, PrepareAnalysis(g)
  PROVE  BranchInv'
<1> DEFINE base == IF pointer.version # 0 /\ branch.good.snapshot = pointer.snapshot
                   THEN [good |-> branch.good, version |-> pointer.version] ELSE NoBase
           r == [analysis[g] EXCEPT !.read = TRUE]
           s == [r EXCEPT !.base = base]
<1>1. /\ analysis' = [analysis EXCEPT ![g] = s] /\ analysis[g].state = "leased"
      /\ UNCHANGED <<provider, active, linked, pointer, branch>>
  BY DEF PrepareAnalysis
<1>2. base \in [good : Goods, version : 0..MaxAnalyses]
  BY NoBaseType DEF BranchInv, BranchTypes, BranchRows, PointerRows
<1>3. base # NoBase => base.good # NoGood
  BY DEF BranchInv, PointerAgreesWithCheckpoint
<1> HIDE DEF base
<1>4. /\ r \in AnalysisRows /\ r.state = "leased"
      /\ r.revision = analysis[g].revision /\ r.config = analysis[g].config
  BY <1>1, OneAnalysis, AnalysisWrites
<1> HIDE DEF r
<1>5. /\ s \in AnalysisRows /\ s.state = "leased"
      /\ s.revision = analysis[g].revision /\ s.config = analysis[g].config
      /\ s.base = base
  BY <1>2, <1>4, AnalysisWrites
<1> HIDE DEF s
<1>6. "leased" \in WantedStates
  BY StateFacts
<1>7. /\ branch.job = g /\ analysis[g].config = active /\ branch \in BranchRows
      /\ branch.outcome = Outcome("leased")
  BY <1>1, <1>6, OneAnalysis
<1> QED
  BY <1>1, <1>3, <1>5, <1>7, AnalysisWrite

(* Nothing runs any more once the checkpoint's job was stopped.            *)
LEMMA StoppedAnalyses ==
  ASSUME BranchInv
  PROVE  LET stopped == Stop(analysis, branch.job)
         IN  /\ stopped \in [Analyses -> AnalysisRows]
             /\ \A h \in Analyses :
                  /\ stopped[h].state \notin WantedStates
                  /\ stopped[h].state # "none" =>
                       stopped[h].revision \in Revisions /\ stopped[h].config \in Configs
                  /\ stopped[h].base # NoBase => stopped[h].base.good # NoGood
<1> DEFINE stopped == Stop(analysis, branch.job)
<1>1. /\ stopped \in [Analyses -> AnalysisRows]
      /\ \A h \in Analyses :
           /\ stopped[h].state = IF h = branch.job THEN StopState(analysis[h].state)
                                                   ELSE analysis[h].state
           /\ stopped[h].revision = analysis[h].revision
           /\ stopped[h].config = analysis[h].config
           /\ stopped[h].base = analysis[h].base
  BY StopAnalysis DEF BranchInv, BranchTypes, BranchRows
<1> HIDE DEF stopped
<1>2. ASSUME NEW h \in Analyses
      PROVE  /\ stopped[h].state \notin WantedStates
             /\ stopped[h].state # "none" =>
                  stopped[h].revision \in Revisions /\ stopped[h].config \in Configs
             /\ stopped[h].base # NoBase => stopped[h].base.good # NoGood
  BY <1>1, OneAnalysis, StateFacts
<1> QED
  BY <1>1, <1>2 DEF stopped

(* The checkpoint loses its job and keeps its good snapshot.               *)
LEMMA Dropped ==
  ASSUME BranchInv, UNCHANGED <<provider, linked, pointer>>,
         analysis' = Stop(analysis, branch.job),
         branch' \in BranchRows, branch'.job = None,
         branch'.generation = branch.generation, branch'.good = branch.good,
         branch'.desired # "none" =>
           /\ branch'.evidence.n \in DOMAIN provider
           /\ branch'.desired = Desired(branch'.evidence.n)
           /\ (branch'.desired = "present" /\ branch'.revision = provider[branch'.evidence.n])
              \/ branch'.desired = "absent"
  PROVE  BranchInv'
<1>1. BranchTypes'
  BY StoppedAnalyses DEF BranchInv, BranchTypes
<1>2. BranchJob'
  BY StoppedAnalyses DEF BranchInv, BranchJob
<1>3. PointerAgreesWithCheckpoint' /\ Truth'
  BY DEF BranchInv, PointerAgreesWithCheckpoint, Truth, Desired, sameTarget
<1> QED
  BY <1>1, <1>2, <1>3 DEF BranchInv

QueuedAnalysis(c, revision, evidence) ==
  [NoAnalysis EXCEPT !.state = "queued", !.config = c,
                     !.revision = revision, !.evidence = evidence]

LEMMA NewAnalysis ==
  ASSUME NEW c \in Configs, NEW revision \in Revisions, NEW evidence \in Evidence,
         NEW s, s = QueuedAnalysis(c, revision, evidence)
  PROVE  /\ s \in AnalysisRows /\ s.state = "queued" /\ s.config = c
         /\ s.revision = revision /\ s.base = NoBase
<1> DEFINE q == [NoAnalysis EXCEPT !.state = "queued"]
           r == [q EXCEPT !.config = c]
           t == [r EXCEPT !.revision = revision]
<1>1. NoEvidence \in Evidence /\ "none" \in JobStates /\ "queued" \in JobStates
  BY BranchAssumption, StateFacts DEF NoEvidence, Evidence
<1>2. NoAnalysis \in AnalysisRows /\ NoAnalysis.base = NoBase
  BY <1>1, NoBaseType DEF NoAnalysis, AnalysisRows
<1>3. \A x \in AnalysisRows : \A v \in Configs :
        /\ [x EXCEPT !.config = v] \in AnalysisRows
        /\ [x EXCEPT !.config = v].state = x.state
        /\ [x EXCEPT !.config = v].config = v
        /\ [x EXCEPT !.config = v].base = x.base
  BY DEF AnalysisRows
<1>4. \A x \in AnalysisRows : \A v \in Revisions :
        /\ [x EXCEPT !.revision = v] \in AnalysisRows
        /\ [x EXCEPT !.revision = v].state = x.state
        /\ [x EXCEPT !.revision = v].config = x.config
        /\ [x EXCEPT !.revision = v].revision = v
        /\ [x EXCEPT !.revision = v].base = x.base
  BY DEF AnalysisRows
<1>5. \A x \in AnalysisRows : \A v \in Evidence :
        /\ [x EXCEPT !.evidence = v] \in AnalysisRows
        /\ [x EXCEPT !.evidence = v].state = x.state
        /\ [x EXCEPT !.evidence = v].config = x.config
        /\ [x EXCEPT !.evidence = v].revision = x.revision
        /\ [x EXCEPT !.evidence = v].base = x.base
  BY DEF AnalysisRows
<1>6. q \in AnalysisRows /\ q.state = "queued" /\ q.base = NoBase
  BY <1>1, <1>2, AnalysisWrites
<1>7. s = [t EXCEPT !.evidence = evidence]
  BY DEF QueuedAnalysis
<1> HIDE DEF q
<1>8. r \in AnalysisRows /\ r.state = "queued" /\ r.config = c /\ r.base = NoBase
  BY <1>3, <1>6, Zenon
<1> HIDE DEF r
<1>9. /\ t \in AnalysisRows /\ t.state = "queued" /\ t.config = c /\ t.base = NoBase
      /\ t.revision = revision
  BY <1>4, <1>8, Zenon
<1> HIDE DEF t
<1>10. /\ [t EXCEPT !.evidence = evidence] \in AnalysisRows
       /\ [t EXCEPT !.evidence = evidence].state = t.state
       /\ [t EXCEPT !.evidence = evidence].config = t.config
       /\ [t EXCEPT !.evidence = evidence].revision = t.revision
       /\ [t EXCEPT !.evidence = evidence].base = t.base
  BY <1>5, <1>9, Zenon
<1> QED
  BY <1>7, <1>9, <1>10, Zenon

(* An analysis of the next generation takes the place of the last one.     *)
LEMMA NextAnalysis ==
  ASSUME WorldInv, BranchInv, NEW evidence \in Evidence,
         NEW n, n = evidence.n, n \in DOMAIN provider, Desired(n) # "absent",
         NEW g, g = branch.generation + 1, g \in Analyses,
         UNCHANGED <<provider, active, linked, pointer>>,
         analysis' = [Stop(analysis, branch.job) EXCEPT
           ![g] = QueuedAnalysis(active, provider[n], evidence)],
         branch' = [branch EXCEPT !.desired = "present",
           !.revision = provider[n], !.evidence = evidence,
           !.generation = g, !.job = g, !.outcome = "queued"]
  PROVE  BranchInv'
<1> DEFINE new == QueuedAnalysis(active, provider[n], evidence)
           stopped == Stop(analysis, branch.job)
<1>1. active \in Configs /\ provider[n] \in Revisions /\ provider[n] # "absent"
  BY DEF WorldInv, Desired
<1>0. analysis' = [stopped EXCEPT ![g] = new]
  OBVIOUS
<1>2. /\ new \in AnalysisRows /\ new.state = "queued" /\ new.config = active
      /\ new.revision = provider[n] /\ new.base = NoBase
  BY <1>1, NewAnalysis
<1>3. /\ stopped \in [Analyses -> AnalysisRows]
      /\ \A h \in Analyses :
           /\ stopped[h].state \notin WantedStates
           /\ stopped[h].state # "none" =>
                stopped[h].revision \in Revisions /\ stopped[h].config \in Configs
           /\ stopped[h].base # NoBase => stopped[h].base.good # NoGood
  BY StoppedAnalyses
<1> HIDE DEF new, stopped
<1>5. /\ analysis' \in [Analyses -> AnalysisRows]
      /\ \A h \in Analyses : analysis'[h] = IF h = g THEN new ELSE stopped[h]
  <2> DEFINE next == [stopped EXCEPT ![g] = new]
  <2>1. /\ next \in [Analyses -> AnalysisRows]
        /\ \A h \in Analyses : next[h] = IF h = g THEN new ELSE stopped[h]
    BY <1>2, <1>3, FunctionWrite
  <2>2. analysis' = next
    BY <1>0
  <2> HIDE DEF next
  <2> QED
    BY <2>1, <2>2, Zenon
<1>6. g \in 0..MaxAnalyses /\ g # None /\ branch \in BranchRows
  BY BranchAssumption DEF Analyses, None, BranchInv, BranchTypes
<1>7. branch' \in BranchRows
  <2> DEFINE b1 == [branch EXCEPT !.desired = "present"]
             b2 == [b1 EXCEPT !.revision = provider[n]]
             b3 == [b2 EXCEPT !.evidence = evidence]
             b4 == [b3 EXCEPT !.generation = g]
             b5 == [b4 EXCEPT !.job = g]
  <2>1. branch' = [b5 EXCEPT !.outcome = "queued"]
    OBVIOUS
  <2>2. b1 \in BranchRows
    BY <1>6, BranchWrites
  <2> HIDE DEF b1
  <2>3. b2 \in BranchRows
    BY <1>1, <2>2, BranchWrites
  <2> HIDE DEF b2
  <2>4. b3 \in BranchRows
    BY <2>3, BranchWrites
  <2> HIDE DEF b3
  <2>5. b4 \in BranchRows
    BY <1>6, <2>4, BranchWrites
  <2> HIDE DEF b4
  <2>6. b5 \in BranchRows
    BY <1>6, <2>5, BranchWrites
  <2> HIDE DEF b5
  <2>7. [b5 EXCEPT !.outcome = "queued"] \in BranchRows
    BY <2>6, BranchWrites
  <2> QED
    BY <2>1, <2>7
<1>8. /\ branch'.desired = "present" /\ branch'.revision = provider[n]
      /\ branch'.evidence = evidence /\ branch'.generation = g /\ branch'.job = g
      /\ branch'.outcome = "queued" /\ branch'.good = branch.good
  BY <1>6 DEF BranchRows
<1>9. BranchTypes'
  <2>1. linked' \in [Snapshots -> Links] /\ pointer' \in PointerRows
    BY DEF BranchInv, BranchTypes
  <2>2. \A h \in Analyses :
          /\ analysis'[h].state # "none" =>
               analysis'[h].revision \in Revisions /\ analysis'[h].config \in Configs
          /\ analysis'[h].base # NoBase => analysis'[h].base.good # NoGood
    BY <1>1, <1>2, <1>3, <1>5
  <2> QED
    BY <1>5, <1>7, <2>1, <2>2 DEF BranchTypes
<1>10. /\ pointer.version \in Nat /\ branch.generation \in Nat
       /\ pointer.version <= branch.generation
  BY <1>6, BranchAssumption DEF BranchInv, BranchTypes, BranchJob, BranchRows, PointerRows
<1>11. pointer'.version < branch'.generation /\ pointer'.version <= branch'.generation
  BY <1>8, <1>10
<1>12. analysis'[g] = new /\ Outcome("queued") = "queued"
  BY <1>5 DEF Outcome
<1>13. BranchJob'
  BY <1>2, <1>3, <1>5, <1>8, <1>11, <1>12 DEF BranchJob
<1>14. PointerAgreesWithCheckpoint'
  BY <1>8 DEF BranchInv, PointerAgreesWithCheckpoint
<1>15. Truth'
  BY <1>1, <1>8 DEF BranchInv, Truth, Desired, sameTarget
<1> QED
  BY <1>9, <1>13, <1>14, <1>15 DEF BranchInv

LEMMA ScheduleBranchStep ==
  ASSUME WorldInv, BranchInv, NEW evidence \in Evidence, NEW force,
         evidence.n \in DOMAIN provider, scheduleBranch(evidence, force),
         UNCHANGED <<provider, active, linked, pointer>>
  PROVE  BranchInv'
<1> DEFINE n == evidence.n
<1>1. branch \in BranchRows
  BY DEF BranchInv, BranchTypes
<1>2. \/ SameSemanticTarget(n) /\ analysis' = analysis
         /\ branch' = [branch EXCEPT !.evidence = evidence]
      \/ Desired(n) = "absent" /\ analysis' = Stop(analysis, branch.job)
         /\ branch' = [branch EXCEPT !.desired = "absent", !.revision = "none",
              !.evidence = evidence, !.job = None, !.outcome = "absent"]
      \/ Desired(n) # "absent" /\ branch.generation + 1 \in Analyses
         /\ analysis' = [Stop(analysis, branch.job) EXCEPT
              ![branch.generation + 1] =
                QueuedAnalysis(active, provider[n], evidence)]
         /\ branch' = [branch EXCEPT !.desired = "present",
              !.revision = provider[n], !.evidence = evidence,
              !.generation = branch.generation + 1,
              !.job = branch.generation + 1, !.outcome = "queued"]
  BY DEF scheduleBranch, QueuedAnalysis
<1>3. CASE SameSemanticTarget(n) /\ analysis' = analysis
           /\ branch' = [branch EXCEPT !.evidence = evidence]
  <2>1. branch' \in BranchRows
    BY <1>1, <1>3, BranchWrites
  <2>2. /\ branch'.desired = branch.desired /\ branch'.revision = branch.revision
        /\ branch'.evidence = evidence /\ branch'.generation = branch.generation
        /\ branch'.job = branch.job /\ branch'.outcome = branch.outcome
        /\ branch'.good = branch.good
    BY <1>1, <1>3 DEF BranchRows
  <2>3. BranchTypes' /\ BranchJob' /\ PointerAgreesWithCheckpoint'
    BY <1>3, <2>1, <2>2
    DEF BranchInv, BranchTypes, BranchJob, PointerAgreesWithCheckpoint
  <2>4. Truth'
    BY <1>3, <2>2 DEF BranchInv, Truth, Desired, sameTarget, SameSemanticTarget
  <2> QED
    BY <2>3, <2>4 DEF BranchInv
<1>4. CASE Desired(n) = "absent" /\ analysis' = Stop(analysis, branch.job)
           /\ branch' = [branch EXCEPT !.desired = "absent", !.revision = "none",
                !.evidence = evidence, !.job = None, !.outcome = "absent"]
  <2> DEFINE b1 == [branch EXCEPT !.desired = "absent"]
             b2 == [b1 EXCEPT !.revision = "none"]
             b3 == [b2 EXCEPT !.evidence = evidence]
             b4 == [b3 EXCEPT !.job = None]
  <2>1. branch' = [b4 EXCEPT !.outcome = "absent"]
    BY <1>4
  <2>2. /\ branch'.desired = "absent" /\ branch'.evidence = evidence
        /\ branch'.job = None /\ branch'.generation = branch.generation
        /\ branch'.good = branch.good
    BY <1>1, <1>4 DEF BranchRows
  <2>3. None \in 0..MaxAnalyses
    BY BranchAssumption DEF None
  <2>4. b1 \in BranchRows
    BY <1>1, BranchWrites
  <2> HIDE DEF b1
  <2>5. b2 \in BranchRows
    BY <2>4, BranchWrites
  <2> HIDE DEF b2
  <2>6. b3 \in BranchRows
    BY <2>5, BranchWrites
  <2> HIDE DEF b3
  <2>7. b4 \in BranchRows
    BY <2>3, <2>6, BranchWrites
  <2> HIDE DEF b4
  <2>8. branch' \in BranchRows
    BY <2>1, <2>7, BranchWrites
  <2> QED
    BY <1>4, <2>2, <2>8, Dropped
<1>5. CASE Desired(n) # "absent" /\ branch.generation + 1 \in Analyses
           /\ analysis' = [Stop(analysis, branch.job) EXCEPT
                ![branch.generation + 1] =
                  QueuedAnalysis(active, provider[n], evidence)]
           /\ branch' = [branch EXCEPT !.desired = "present",
                !.revision = provider[n], !.evidence = evidence,
                !.generation = branch.generation + 1,
                !.job = branch.generation + 1, !.outcome = "queued"]
  BY <1>5, NextAnalysis
<1> QED
  BY <1>2, <1>3, <1>4, <1>5

LEMMA ActivateBranch ==
  ASSUME BranchInv, NEW c, ActivateConfiguration(c)
  PROVE  BranchInv'
<1>1. /\ analysis' = Stop(analysis, branch.job)
      /\ branch' = IF branch.desired = "none" THEN branch
                   ELSE [branch EXCEPT !.job = None, !.outcome = "cancelled"]
      /\ UNCHANGED <<provider, linked, pointer>>
  BY DEF ActivateConfiguration
<1>2. branch \in BranchRows /\ None \in 0..MaxAnalyses
  BY BranchAssumption DEF BranchInv, BranchTypes, None
<1>3. CASE branch.desired = "none"
  <2>1. branch.job = None /\ branch' = branch
    BY <1>1, <1>3 DEF BranchInv, BranchJob
  <2> QED
    BY <1>1, <1>2, <1>3, <2>1, Dropped
<1>4. CASE branch.desired # "none"
  <2> DEFINE b == [branch EXCEPT !.job = None]
  <2>1. branch' = [b EXCEPT !.outcome = "cancelled"]
    BY <1>1, <1>4
  <2>2. /\ branch'.desired = branch.desired /\ branch'.evidence = branch.evidence
        /\ branch'.revision = branch.revision /\ branch'.job = None
        /\ branch'.generation = branch.generation /\ branch'.good = branch.good
    BY <1>2, <2>1 DEF BranchRows
  <2>3. b \in BranchRows
    BY <1>2, BranchWrites
  <2> HIDE DEF b
  <2>4. branch' \in BranchRows
    BY <2>1, <2>3, BranchWrites
  <2>5. branch'.desired # "none" =>
           /\ branch'.evidence.n \in DOMAIN provider
           /\ branch'.desired = Desired(branch'.evidence.n)
           /\ (branch'.desired = "present" /\ branch'.revision = provider[branch'.evidence.n])
              \/ branch'.desired = "absent"
    BY <2>2 DEF BranchInv, Truth, sameTarget
  <2> QED
    BY <1>1, <2>2, <2>4, <2>5, Dropped
<1> QED
  BY <1>3, <1>4

(* What the completed analysis of g publishes is a snapshot.               *)
LEMMA ResultType ==
  ASSUME BranchInv, NEW g \in Analyses, NEW reuse \in BOOLEAN,
         analysis[g].state = "leased", reuse => MayReuse(g),
         NEW link, link = ResultOf(g, reuse)
  PROVE  link \in Links /\ link.snapshot \in Snapshots
<1>1. /\ analysis[g].revision \in Revisions /\ analysis[g].config \in Configs
      /\ analysis[g].base # NoBase => analysis[g].base.good # NoGood
      /\ analysis[g].base.good \in Goods
  BY DEF BranchInv, BranchTypes, AnalysisRows
<1>2. CASE reuse
  <2>1. analysis[g].base.good \in [revision : Revisions, snapshot : Snapshots]
    BY <1>1, <1>2 DEF MayReuse, Goods
  <2>2. analysis[g].base.good.snapshot \in Snapshots
    BY <2>1
  <2>3. link = [snapshot |-> analysis[g].base.good.snapshot, kind |-> "reused"]
    BY <1>2 DEF ResultOf
  <2> QED
    BY <2>2, <2>3 DEF Links
<1>3. CASE ~reuse
  <2>1. link = [snapshot |-> <<analysis[g].revision, analysis[g].config>>, kind |-> "analyzed"]
    BY <1>3 DEF ResultOf
  <2>2. <<analysis[g].revision, analysis[g].config>> \in Snapshots
    BY <1>1 DEF Snapshots
  <2> QED
    BY <2>1, <2>2 DEF Links
<1> QED
  BY <1>2, <1>3

LEMMA NotASnapshot == NoSnapshot \notin Snapshots
BY BranchAssumption DEF NoSnapshot, Snapshots

(* The promotion of a snapshot moves the pointer by at most one version    *)
(* and leaves it on that snapshot, with the checkpoint's evidence.         *)
LEMMA Promoted ==
  ASSUME BranchInv, NEW snapshot \in Snapshots, promoteBranch(snapshot),
         pointer.version < branch.generation
  PROVE  /\ pointer' \in PointerRows
         /\ pointer'.version # 0 /\ pointer'.version <= branch.generation
         /\ pointer'.snapshot = snapshot /\ pointer'.evidence = branch.evidence
<1>1. /\ pointer \in PointerRows /\ pointer.version \in 0..MaxAnalyses
      /\ branch.evidence \in Evidence /\ branch.generation \in 0..MaxAnalyses
  BY DEF BranchInv, BranchTypes, PointerRows, BranchRows
<1>2. CASE ExactReplay(snapshot) /\ UNCHANGED pointer
  <2>1. pointer.version # 0
    <3>1. NoGood.snapshot = NoSnapshot
      BY DEF NoGood
    <3>2. branch.good # NoGood
      BY <1>2, <3>1, NotASnapshot DEF ExactReplay, BranchInv, PointerAgreesWithCheckpoint
    <3> QED
      BY <3>2 DEF BranchInv, PointerAgreesWithCheckpoint
  <2> QED
    BY <1>1, <1>2, <2>1, BranchAssumption DEF ExactReplay
<1>3. CASE pointer' = [version |-> pointer.version + 1, snapshot |-> snapshot,
                       evidence |-> branch.evidence]
  <2>1. pointer.version + 1 \in 0..MaxAnalyses
    BY <1>1, BranchAssumption
  <2>2. pointer.version + 1 # 0 /\ pointer.version + 1 <= branch.generation
    BY <1>1, BranchAssumption
  <2> QED
    BY <1>1, <1>3, <2>1, <2>2 DEF PointerRows
<1> QED
  BY <1>2, <1>3 DEF promoteBranch

LEMMA CompleteAnalysisStep ==
  ASSUME BranchInv, NEW g \in Analyses, NEW reuse \in BOOLEAN, CompleteAnalysis(g, reuse)
  PROVE  BranchInv'
<1> DEFINE link == ResultOf(g, reuse)
           key  == <<analysis[g].revision, analysis[g].config>>
           good == [revision |-> analysis[g].revision, snapshot |-> link.snapshot]
           done == [analysis[g] EXCEPT !.state = "succeeded"]
<1>1. /\ analysis[g].state = "leased" /\ branch.job = g
      /\ branch.desired = "present" /\ branch.revision = analysis[g].revision
      /\ reuse => MayReuse(g)
      /\ linked' = [linked EXCEPT ![key] = link]
      /\ promoteBranch(link.snapshot)
      /\ UNCHANGED <<provider, active>>
  BY DEF CompleteAnalysis, Pinned, Associate
<1>2. analysis' = [analysis EXCEPT ![g] = done]
  BY DEF CompleteAnalysis
<1>3. branch' = [[branch EXCEPT !.outcome = "succeeded"] EXCEPT !.good = good]
  BY DEF CompleteAnalysis
<1>4. link \in Links /\ link.snapshot \in Snapshots
  BY <1>1, ResultType
<1> HIDE DEF link
<1>5. /\ analysis \in [Analyses -> AnalysisRows] /\ analysis[g] \in AnalysisRows
      /\ analysis[g].revision \in Revisions /\ analysis[g].config \in Configs
      /\ branch \in BranchRows /\ linked \in [Snapshots -> Links]
  BY <1>1 DEF BranchInv, BranchTypes
<1>6. key \in Snapshots /\ good \in Goods /\ good # NoGood
  <2>1. "none" \notin Revisions
    BY BranchAssumption
  <2> QED
    BY <1>4, <1>5, <2>1 DEF Snapshots, Goods, NoGood
<1>7. good.revision = analysis[g].revision /\ good.snapshot = link.snapshot
  OBVIOUS
<1>8. "succeeded" \in JobStates /\ "succeeded" \notin WantedStates
  BY StateFacts
<1>9. /\ done \in AnalysisRows /\ done.state = "succeeded"
      /\ done.revision = analysis[g].revision /\ done.config = analysis[g].config
      /\ done.base = analysis[g].base
  BY <1>5, <1>8, AnalysisWrites
<1> HIDE DEF done
<1>10. /\ analysis' \in [Analyses -> AnalysisRows]
       /\ \A h \in Analyses : analysis'[h] = IF h = g THEN done ELSE analysis[h]
  BY <1>2, <1>5, <1>9
<1>11. /\ linked' \in [Snapshots -> Links] /\ linked'[key] = link
  BY <1>1, <1>4, <1>5, <1>6
<1>12. branch' \in BranchRows
  <2> DEFINE b == [branch EXCEPT !.outcome = "succeeded"]
  <2>1. b \in BranchRows
    BY <1>5, BranchWrites
  <2> HIDE DEF b
  <2>2. [b EXCEPT !.good = good] \in BranchRows
    BY <1>6, <2>1, BranchWrites
  <2> QED
    BY <1>3, <2>2 DEF b
<1>13. /\ branch'.desired = branch.desired /\ branch'.revision = branch.revision
       /\ branch'.evidence = branch.evidence /\ branch'.job = branch.job
       /\ branch'.generation = branch.generation /\ branch'.outcome = "succeeded"
       /\ branch'.good = good
  BY <1>3, <1>5 DEF BranchRows
<1> HIDE DEF good, key
<1>14. g # None /\ g = branch.generation /\ pointer.version < branch.generation
  BY <1>1, BranchAssumption DEF BranchInv, BranchJob, Analyses, None
<1>15. /\ pointer' \in PointerRows
       /\ pointer'.version # 0 /\ pointer'.version <= branch.generation
       /\ pointer'.snapshot = link.snapshot /\ pointer'.evidence = branch.evidence
  BY <1>1, <1>4, <1>14, Promoted
<1>16. BranchTypes'
  <2>1. \A h \in Analyses :
          /\ analysis'[h].state # "none" =>
               analysis'[h].revision \in Revisions /\ analysis'[h].config \in Configs
          /\ analysis'[h].base # NoBase => analysis'[h].base.good # NoGood
    BY <1>5, <1>9, <1>10 DEF BranchInv, BranchTypes
  <2> QED
    BY <1>10, <1>11, <1>12, <1>15, <2>1 DEF BranchTypes
<1>17. BranchJob'
  <2>1. analysis'[g] = done
    BY <1>10
  <2>2. Outcome("succeeded") = "succeeded"
    BY DEF Outcome
  <2>3. \A h \in Analyses : analysis'[h].state \notin WantedStates
    BY <1>1, <1>8, <1>9, <1>10 DEF BranchInv, BranchJob
  <2> QED
    BY <1>1, <1>9, <1>13, <1>14, <1>15, <2>1, <2>2, <2>3 DEF BranchJob
<1>18. PointerAgreesWithCheckpoint'
  <2>1. \E c \in Configs : linked'[<<good.revision, c>>].snapshot = link.snapshot
    BY <1>5, <1>7, <1>11 DEF key
  <2> QED
    BY <1>6, <1>7, <1>13, <1>15, <2>1 DEF PointerAgreesWithCheckpoint
<1>19. Truth'
  <2>1. /\ branch.evidence.n \in DOMAIN provider
        /\ branch.desired = Desired(branch.evidence.n)
        /\ branch.revision = provider[branch.evidence.n]
    BY <1>1 DEF BranchInv, Truth, sameTarget
  <2> QED
    BY <1>1, <1>7, <1>13, <1>15, <2>1 DEF Truth, Desired, sameTarget
<1> QED
  BY <1>16, <1>17, <1>18, <1>19 DEF BranchInv

-----------------------------------------------------------------------------
(* The two halves together.                                                *)

BInv == WorldInv /\ ScanInv /\ BranchInv

LEMMA InitInv == Init => BInv
<1> SUFFICES ASSUME Init PROVE BInv
  OBVIOUS
<1>1. /\ 0 \in 0..MaxChanges /\ 0 \in 0..MaxAnalyses /\ 0 \in 0..MaxScans
      /\ "none" \in JobStates /\ "none" \notin WantedStates
  BY BranchAssumption, StateFacts
<1>2. NoEvidence \in Evidence /\ NoEvidence.n = 0
  BY <1>1 DEF NoEvidence, Evidence
<1>3. NoGood \in Goods /\ NoGood.snapshot = NoSnapshot
  BY DEF Goods, NoGood
<1>4. /\ NoAnalysis \in AnalysisRows /\ NoAnalysis.state = "none" /\ NoAnalysis.base = NoBase
      /\ NoScan \in ScanRows /\ NoScan.state = "none" /\ NoScan.observed = 0
  BY <1>1, <1>2, NoBaseType DEF NoAnalysis, AnalysisRows, NoScan, ScanRows, None
<1>5. WorldInv
  <2>1. <<>> \in Seq(Revisions \cup {"absent"}) /\ Len(<<>>) <= MaxChanges
    BY BranchAssumption
  <2> QED
    BY <2>1 DEF Init, WorldInv
<1>6. ScanInv
  BY <1>1, <1>4 DEF Init, ScanInv, ScanningRows, None
<1>7. BranchTypes
  <2>1. NoLink \in Links
    BY DEF NoLink, Links
  <2>2. branch \in BranchRows /\ pointer \in PointerRows
    BY <1>1, <1>2, <1>3 DEF Init, BranchRows, PointerRows, None
  <2>3. analysis \in [Analyses -> AnalysisRows] /\ linked \in [Snapshots -> Links]
    BY <1>4, <2>1 DEF Init
  <2> QED
    BY <1>4, <2>2, <2>3 DEF Init, BranchTypes
<1>8. BranchJob /\ PointerAgreesWithCheckpoint /\ Truth
  <2>1. /\ branch.job = None /\ branch.good = NoGood /\ branch.desired = "none"
        /\ branch.generation = 0 /\ pointer.version = 0 /\ pointer.snapshot = NoSnapshot
        /\ \A g \in Analyses : analysis[g] = NoAnalysis
    BY DEF Init
  <2> QED
    BY <1>1, <1>3, <1>4, <2>1 DEF BranchJob, PointerAgreesWithCheckpoint, Truth
<1> QED
  BY <1>5, <1>6, <1>7, <1>8 DEF BInv, BranchInv

LEMMA WorldUnchanged ==
  ASSUME WorldInv, UNCHANGED <<provider, seen, active>>
  PROVE  WorldInv'
BY DEF WorldInv

LEMMA ChangeStep ==
  ASSUME BInv, NEW state \in Revisions \cup {"absent"}, Change(state)
  PROVE  BInv'
<1>1. /\ provider' = Append(provider, state) /\ Len(provider) < MaxChanges
      /\ UNCHANGED <<seen, active, branch, scanning, analysis, scan, linked, pointer>>
  BY DEF Change, rows
<1>2. /\ provider \in Seq(Revisions \cup {"absent"}) /\ Len(provider) \in Nat
      /\ seen \subseteq DOMAIN provider /\ active \in Configs
  BY DEF BInv, WorldInv
<1>3. WorldInv'
  <2>1. provider' \in Seq(Revisions \cup {"absent"}) /\ Len(provider') = Len(provider) + 1
    BY <1>1, <1>2
  <2>2. Len(provider') <= MaxChanges
    BY <1>1, <1>2, <2>1, BranchAssumption
  <2>3. DOMAIN provider \subseteq DOMAIN provider'
    BY <1>1, <1>2, <2>1
  <2> QED
    BY <1>1, <1>2, <2>1, <2>2, <2>3 DEF WorldInv
<1>4. ScanInv'
  BY <1>1, <1>2, ScanUnchanged DEF BInv
<1>5. BranchInv'
  BY <1>1, <1>2, BranchUnchanged DEF BInv
<1> QED
  BY <1>3, <1>4, <1>5 DEF BInv

LEMMA IngestUpdateStep ==
  ASSUME BInv, NEW n \in Changes, NEW ordered \in EventOrders, IngestUpdate(n, ordered)
  PROVE  BInv'
<1> DEFINE evidence == [n |-> n, ordered |-> ordered]
<1>1. /\ n \in DOMAIN provider /\ seen' = seen \cup {n}
      /\ UNCHANGED <<provider, active, linked, pointer>>
      /\ \/ UNCHANGED rows
         \/ scheduleBranchReconciliation(n) /\ UNCHANGED <<branch, analysis>>
         \/ scheduleBranch(evidence, FALSE) /\ UNCHANGED <<scanning, scan>>
  BY DEF IngestUpdate
<1>2. evidence \in Evidence /\ evidence.n = n /\ n \in 0..MaxChanges
  BY BranchAssumption DEF Evidence, Changes
<1> HIDE DEF evidence
<1>3. provider \in Seq(Revisions \cup {"absent"}) /\ WorldInv /\ ScanInv /\ BranchInv
  BY DEF BInv, WorldInv
<1>4. WorldInv'
  BY <1>1, <1>3 DEF WorldInv
<1>5. CASE UNCHANGED rows
  <2>1. UNCHANGED <<branch, scanning, analysis, scan>>
    BY <1>5 DEF rows
  <2>2. ScanInv'
    BY <1>1, <1>3, <2>1, ScanUnchanged
  <2>3. BranchInv'
    BY <1>1, <1>3, <2>1, BranchUnchanged
  <2> QED
    BY <1>4, <2>2, <2>3 DEF BInv
<1>6. CASE scheduleBranchReconciliation(n) /\ UNCHANGED <<branch, analysis>>
  <2>1. ScanInv'
    BY <1>1, <1>2, <1>3, <1>6, RequestedScan
  <2>2. BranchInv'
    BY <1>1, <1>3, <1>6, BranchUnchanged
  <2> QED
    BY <1>4, <2>1, <2>2 DEF BInv
<1>7. CASE scheduleBranch(evidence, FALSE) /\ UNCHANGED <<scanning, scan>>
  <2>1. ScanInv'
    BY <1>1, <1>3, <1>7, ScanUnchanged
  <2>2. evidence.n \in DOMAIN provider
    BY <1>1, <1>2
  <2>3. BranchInv'
    BY <1>1, <1>2, <1>3, <1>7, <2>2, ScheduleBranchStep
  <2> QED
    BY <1>4, <2>1, <2>3 DEF BInv
<1> QED
  BY <1>1, <1>5, <1>6, <1>7

LEMMA RequestScanStep ==
  ASSUME BInv, RequestScan
  PROVE  BInv'
<1>1. /\ scheduleBranchReconciliation(0)
      /\ UNCHANGED <<provider, seen, active, branch, analysis, linked, pointer>>
  BY DEF RequestScan
<1>2. provider \in Seq(Revisions \cup {"absent"}) /\ 0 \in 0..MaxChanges
  BY BranchAssumption DEF BInv, WorldInv
<1>3. WorldInv'
  BY <1>1, WorldUnchanged DEF BInv
<1>4. ScanInv'
  BY <1>1, <1>2, RequestedScan DEF BInv
<1>5. BranchInv'
  BY <1>1, <1>2, BranchUnchanged DEF BInv
<1> QED
  BY <1>3, <1>4, <1>5 DEF BInv

LEMMA ActivateStep ==
  ASSUME BInv, NEW c \in Configs, ActivateConfiguration(c)
  PROVE  BInv'
<1>1. active' = c /\ UNCHANGED <<provider, seen>>
  BY DEF ActivateConfiguration
<1>2. WorldInv'
  BY <1>1 DEF BInv, WorldInv
<1>3. ScanInv' /\ BranchInv'
  BY ActivateScan, ActivateBranch DEF BInv
<1> QED
  BY <1>2, <1>3 DEF BInv

LEMMA CompleteScanStep ==
  ASSUME BInv, NEW g \in Scans, NEW ordered \in ScanOrders, CompleteScan(g, ordered)
  PROVE  BInv'
<1> DEFINE n == scan[g].observed
           evidence == [n |-> n, ordered |-> ordered]
           force == forceRepair(n)
<1>1. /\ n # None /\ scheduleBranch(evidence, force)
      /\ UNCHANGED <<provider, seen, active, linked, pointer>>
  BY DEF CompleteScan
<1>2. n \in DOMAIN provider
  BY <1>1, OneScan DEF BInv, None
<1>3. n \in 0..MaxChanges
  BY OneScan DEF BInv, ScanRows
<1>4. evidence \in Evidence /\ evidence.n = n
  BY <1>3, BranchAssumption DEF Evidence
<1> HIDE DEF evidence, force
<1>5. evidence.n \in DOMAIN provider
  BY <1>2, <1>4
<1> HIDE DEF n
<1>6. BranchInv'
  BY <1>1, <1>4, <1>5, ScheduleBranchStep DEF BInv
<1>7. ScanInv'
  BY CompleteScanRows DEF BInv
<1>8. WorldInv'
  BY <1>1, WorldUnchanged DEF BInv
<1> QED
  BY <1>6, <1>7, <1>8 DEF BInv

LEMMA AnalysisSteps ==
  ASSUME BInv, NEW g \in Analyses,
         \/ CancelAnalysis(g) \/ ClaimAnalysis(g) \/ EndAnalysis(g) \/ PrepareAnalysis(g)
         \/ \E reuse \in BOOLEAN : CompleteAnalysis(g, reuse)
  PROVE  BInv'
<1>1. UNCHANGED <<provider, seen, active, scanning, scan>>
  BY DEF CancelAnalysis, ClaimAnalysis, EndAnalysis, PrepareAnalysis, CompleteAnalysis
<1>2. BranchInv'
  BY CancelAnalysisStep, ClaimAnalysisStep, EndAnalysisStep, PrepareAnalysisStep,
     CompleteAnalysisStep DEF BInv
<1>3. WorldInv' /\ provider \in Seq(Revisions \cup {"absent"})
  BY <1>1, WorldUnchanged DEF BInv, WorldInv
<1>4. ScanInv'
  BY <1>1, <1>3, ScanUnchanged DEF BInv
<1> QED
  BY <1>2, <1>3, <1>4 DEF BInv

LEMMA ScanSteps ==
  ASSUME BInv, NEW g \in Scans,
         CancelScan(g) \/ ClaimScan(g) \/ EndScan(g) \/ Observe(g)
  PROVE  BInv'
<1>1. UNCHANGED <<provider, seen, active, branch, analysis, linked, pointer>>
  BY DEF CancelScan, ClaimScan, EndScan, Observe
<1>2. ScanInv'
  BY CancelScanStep, ClaimScanStep, EndScanStep, ObserveStep DEF BInv
<1>3. WorldInv' /\ provider \in Seq(Revisions \cup {"absent"})
  BY <1>1, WorldUnchanged DEF BInv, WorldInv
<1>4. BranchInv'
  BY <1>1, <1>3, BranchUnchanged DEF BInv
<1> QED
  BY <1>2, <1>3, <1>4 DEF BInv

LEMMA NextInv == BInv /\ [Next]_vars => BInv'
<1> SUFFICES ASSUME BInv, [Next]_vars PROVE BInv'
  OBVIOUS
<1>1. ASSUME NEW state \in Revisions \cup {"absent"}, Change(state) PROVE BInv'
  BY <1>1, ChangeStep
<1>2. ASSUME NEW n \in Changes, NEW ordered \in EventOrders, IngestUpdate(n, ordered)
      PROVE  BInv'
  BY <1>2, IngestUpdateStep
<1>3. CASE RequestScan
  BY <1>3, RequestScanStep
<1>4. ASSUME NEW c \in Configs, ActivateConfiguration(c) PROVE BInv'
  BY <1>4, ActivateStep
<1>5. ASSUME NEW g \in Analyses,
             CancelAnalysis(g) \/ ClaimAnalysis(g) \/ EndAnalysis(g) \/ PrepareAnalysis(g)
      PROVE  BInv'
  BY <1>5, AnalysisSteps
<1>6. ASSUME NEW g \in Analyses, NEW reuse \in BOOLEAN, CompleteAnalysis(g, reuse)
      PROVE  BInv'
  BY <1>6, AnalysisSteps
<1>7. ASSUME NEW g \in Scans, CancelScan(g) \/ ClaimScan(g) \/ EndScan(g) \/ Observe(g)
      PROVE  BInv'
  BY <1>7, ScanSteps
<1>8. ASSUME NEW g \in Scans, NEW ordered \in ScanOrders, CompleteScan(g, ordered)
      PROVE  BInv'
  BY <1>8, CompleteScanStep
<1>9. CASE UNCHANGED vars
  <2>1. UNCHANGED <<provider, seen, active, branch, scanning, analysis, scan, linked, pointer>>
    BY <1>9 DEF vars
  <2>2. provider \in Seq(Revisions \cup {"absent"})
    BY DEF BInv, WorldInv
  <2> QED
    BY <2>1, <2>2, WorldUnchanged, ScanUnchanged, BranchUnchanged DEF BInv
<1> QED
  BY <1>1, <1>2, <1>3, <1>4, <1>5, <1>6, <1>7, <1>8, <1>9 DEF Next

(* The invariant every result below follows from: the rows' ranges, the    *)
(* evidence bounded by what the provider has been through, and room for    *)
(* one more pointer version while the checkpoint's analysis is unfinished. *)
THEOREM BranchInvariant == Spec => []BInv
<1> QED
  BY InitInv, NextInv, PTL DEF Spec

(* Rows stay in their ranges, those of the migrations' CHECKs among them:  *)
(* what scheduleBranch, finishReconciliation and promoteBranch write.      *)
THEOREM TypeCorrect == Spec => []TypeOK
<1>1. BInv => TypeOK
  BY DEF BInv, WorldInv, ScanInv, BranchInv, BranchTypes, TypeOK, BranchRows,
         ScanningRows, AnalysisRows, ScanRows, PointerRows, Links
<1> QED
  BY <1>1, BranchInvariant, PTL

(* The checkpoint's job, generation, target and outcome, written by        *)
(* statements of their own, never drift from the job (the scheduler, and  *)
(* updateCheckpointState of the worker).                                   *)
THEOREM CheckpointsFollow == Spec => []CheckpointFollowsJob
<1>1. BInv => CheckpointFollowsJob
  BY DEF BInv, ScanInv, BranchInv, BranchJob, CheckpointFollowsJob
<1> QED
  BY <1>1, BranchInvariant, PTL

(* A waiting or leased job is the one its checkpoint names, of the active  *)
(* configuration: superseding, cancelling and a configuration transition   *)
(* leave no other running.                                                 *)
THEOREM NothingObsoleteRuns == Spec => []OnlyCurrentWorkRuns
<1>1. BInv => OnlyCurrentWorkRuns
  BY DEF BInv, ScanInv, BranchInv, BranchJob, OnlyCurrentWorkRuns, WantedStates
<1> QED
  BY <1>1, BranchInvariant, PTL

(* The checkpoint and the catalog's branch pointer name the same snapshot, *)
(* associated with the revision it was promoted for (promoteBranch).       *)
THEOREM PointerFollowsCheckpoint == Spec => []PointerAgreesWithCheckpoint
<1>1. BInv => PointerAgreesWithCheckpoint
  BY DEF BInv, BranchInv
<1> QED
  BY <1>1, BranchInvariant, PTL

(* What the checkpoint desires and the pointer serves is what their        *)
(* evidence says the provider was, in whatever order it came.              *)
THEOREM TrueEvidence == Spec => []EvidenceIsTrue
<1>1. BInv => EvidenceIsTrue
  BY DEF BInv, BranchInv, Truth, EvidenceIsTrue
<1> QED
  BY <1>1, BranchInvariant, PTL

-----------------------------------------------------------------------------
(* Ordered evidence.                                                       *)

Ordered == EventOrders = {TRUE} /\ ScanOrders = {TRUE} /\ Intended = Configs

Kept == /\ branch.evidence.n # None => branch.evidence.ordered
        /\ NoUpdateIsUndone

(* A target that is accepted takes the evidence it came with.              *)
LEMMA EvidenceTaken ==
  ASSUME BInv, NEW evidence, NEW force, scheduleBranch(evidence, force)
  PROVE  branch'.evidence = evidence
<1>1. branch \in BranchRows
  BY DEF BInv, BranchInv, BranchTypes
<1> QED
  BY <1>1 DEF scheduleBranch, BranchRows

(* Evidence that is not stale moves the checkpoint forward.                *)
LEMMA MovesForward ==
  ASSUME BInv, Kept, NEW n \in Nat \ {0}, NEW evidence,
         evidence = [n |-> n, ordered |-> TRUE], branch'.evidence = evidence,
         classifyProviderUpdate(branch.evidence, evidence) # "stale"
  PROVE  /\ branch'.evidence.n = n /\ branch'.evidence.ordered
         /\ branch.evidence.n <= n
<1>1. branch.evidence.n \in Nat
  BY BranchAssumption DEF BInv, BranchInv, BranchTypes, BranchRows, Evidence
<1>2. evidence.n = n /\ evidence.ordered = TRUE
  OBVIOUS
<1>3. CASE branch.evidence.n = None
  BY <1>1, <1>2, <1>3 DEF None
<1>4. CASE branch.evidence.n # None
  <2>1. branch.evidence.ordered
    BY <1>4 DEF Kept
  <2>2. ~(n < branch.evidence.n)
    BY <1>2, <1>4, <2>1 DEF classifyProviderUpdate
  <2> QED
    BY <1>1, <1>2, <2>2
<1> QED
  BY <1>3, <1>4

LEMMA KeptStep ==
  ASSUME Ordered, BInv, Kept, [Next]_vars
  PROVE  Kept'
<1>1. branch \in BranchRows /\ seen \subseteq DOMAIN provider
      /\ provider \in Seq(Revisions \cup {"absent"})
      /\ branch.evidence.n \in Nat
  BY BranchAssumption DEF BInv, WorldInv, BranchInv, BranchTypes, BranchRows, Evidence
<1>2. CASE seen' = seen /\ branch'.evidence = branch.evidence
  BY <1>2 DEF Kept, NoUpdateIsUndone
<1>3. ASSUME NEW n \in Changes, NEW ordered \in EventOrders, IngestUpdate(n, ordered)
      PROVE  Kept'
  <2> DEFINE evidence == [n |-> n, ordered |-> ordered]
             class == classifyProviderUpdate(branch.evidence, evidence)
  <2>1. /\ n \in Nat \ {0} /\ evidence = [n |-> n, ordered |-> TRUE]
        /\ active \in Intended
    BY <1>3, BranchAssumption DEF Ordered, Changes, BInv, WorldInv
  <2>2. /\ seen' = seen \cup {n}
        /\ \/ class \in {"stale", "exact_replay"} /\ branch' = branch
           \/ class = "incomparable"
           \/ class \in {"first", "newer"} /\ scheduleBranch(evidence, FALSE)
    BY <1>3, <2>1 DEF IngestUpdate, rows
  <2>3. evidence.n = n /\ evidence.ordered = TRUE
    BY <2>1
  <2> HIDE DEF evidence
  <2>4. class # "incomparable"
    BY <2>1, <2>3 DEF classifyProviderUpdate, Kept
  <2>5. class \in {"stale", "exact_replay"} => branch.evidence.n >= n
    BY <1>1, <2>1, <2>3 DEF classifyProviderUpdate, Kept
  <2>6. CASE class \in {"stale", "exact_replay"} /\ branch' = branch
    BY <1>1, <2>2, <2>5, <2>6 DEF Kept, NoUpdateIsUndone
  <2>7. CASE class \in {"first", "newer"} /\ scheduleBranch(evidence, FALSE)
    <3>1. branch'.evidence = evidence
      BY <2>7, EvidenceTaken
    <3>2. /\ branch'.evidence.n = n /\ branch'.evidence.ordered
          /\ branch.evidence.n <= n
      BY <2>1, <2>7, <3>1, MovesForward
    <3>3. \A m \in seen : branch.evidence.n >= m /\ m \in Nat
      BY <1>1 DEF Kept, NoUpdateIsUndone
    <3>4. NoUpdateIsUndone'
      BY <1>1, <2>1, <2>2, <3>2, <3>3 DEF NoUpdateIsUndone
    <3> QED
      BY <3>2, <3>4 DEF Kept
  <2> QED
    BY <2>2, <2>4, <2>6, <2>7
<1>4. ASSUME NEW g \in Scans, NEW ordered \in ScanOrders, CompleteScan(g, ordered)
      PROVE  Kept'
  <2> DEFINE n == scan[g].observed
             evidence == [n |-> n, ordered |-> ordered]
  <2>1. /\ n # None /\ scheduleBranch(evidence, forceRepair(n)) /\ seen' = seen
        /\ classifyProviderUpdate(branch.evidence, evidence) # "stale"
    BY <1>4 DEF CompleteScan
  <2>2. n \in Nat \ {0} /\ evidence = [n |-> n, ordered |-> TRUE]
    BY <2>1, OneScan, BranchAssumption DEF BInv, ScanRows, None, Ordered
  <2>3. branch'.evidence = evidence
    BY <2>1, EvidenceTaken
  <2> HIDE DEF evidence, n
  <2>4. /\ branch'.evidence.n = n /\ branch'.evidence.ordered
        /\ branch.evidence.n <= n
    BY <2>1, <2>2, <2>3, MovesForward
  <2>5. \A m \in seen : branch.evidence.n >= m /\ m \in Nat
    BY <1>1 DEF Kept, NoUpdateIsUndone
  <2>6. NoUpdateIsUndone'
    BY <1>1, <2>1, <2>2, <2>4, <2>5 DEF NoUpdateIsUndone
  <2> QED
    BY <2>4, <2>6 DEF Kept
<1>5. ASSUME NEW c \in Configs, ActivateConfiguration(c) PROVE Kept'
  <2>1. seen' = seen /\ branch'.evidence = branch.evidence
    BY <1>1, <1>5 DEF ActivateConfiguration, BranchRows
  <2> QED
    BY <1>2, <2>1
<1>6. ASSUME NEW g \in Analyses,
             CancelAnalysis(g) \/ ClaimAnalysis(g) \/ EndAnalysis(g) \/ PrepareAnalysis(g)
      PROVE  Kept'
  <2>1. seen' = seen /\ branch'.evidence = branch.evidence
    BY <1>1, <1>6 DEF CancelAnalysis, ClaimAnalysis, EndAnalysis, PrepareAnalysis,
                      Report, BranchRows
  <2> QED
    BY <1>2, <2>1
<1>7. ASSUME NEW g \in Analyses, NEW reuse \in BOOLEAN, CompleteAnalysis(g, reuse)
      PROVE  Kept'
  <2>1. seen' = seen /\ branch'.evidence = branch.evidence
    BY <1>1, <1>7 DEF CompleteAnalysis, BranchRows
  <2> QED
    BY <1>2, <2>1
<1>8. CASE \/ \E state \in Revisions \cup {"absent"} : Change(state)
           \/ RequestScan
           \/ \E g \in Scans : CancelScan(g) \/ ClaimScan(g) \/ EndScan(g) \/ Observe(g)
           \/ UNCHANGED vars
  <2>1. seen' = seen /\ branch' = branch
    BY <1>8 DEF Change, RequestScan, CancelScan, ClaimScan, EndScan, Observe, vars, rows
  <2> QED
    BY <1>2, <2>1
<1> QED
  BY <1>3, <1>4, <1>5, <1>6, <1>7, <1>8 DEF Next

(* Where every provider orders its events and observations, an update that *)
(* was ingested is never undone by an older event or an observation made   *)
(* before it (classifyProviderUpdate): ingestEvent and                     *)
(* scheduleAuthoritativeBranch only move the evidence forward.             *)
THEOREM NothingUndone == Ordered /\ Spec => []NoUpdateIsUndone
<1>1. Init => Kept
  BY DEF Init, Kept, NoUpdateIsUndone, NoEvidence, None
<1>2. Ordered /\ BInv /\ Kept /\ [Next]_vars => Kept'
  BY KeptStep
<1>3. Kept => NoUpdateIsUndone
  BY DEF Kept
<1>4. Ordered => (BInv /\ Kept /\ [Next]_vars => Kept')
  BY <1>2
<1> SUFFICES ASSUME Ordered PROVE Spec => []NoUpdateIsUndone
  OBVIOUS
<1>5. BInv /\ Kept /\ [Next]_vars => Kept'
  BY <1>4
<1> QED
  BY <1>1, <1>3, <1>5, BranchInvariant, PTL DEF Spec

(* The checkpoint agrees with the job it points at and with the pointer    *)
(* promoteBranch moves.                                                    *)
THEOREM CheckpointsAgree == Spec => []CheckpointAgrees
BY CheckpointsFollow, PointerFollowsCheckpoint, PTL DEF CheckpointAgrees
=============================================================================
