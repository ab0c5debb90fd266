-------------------------- MODULE VerificationProofs --------------------------
(***************************************************************************)
(* The two verification queues for every value of VerificationJobs'        *)
(* constants: they keep their limits, a succeeded job has its receipt,     *)
(* work of another configuration is only given up, and the receipts are    *)
(* those VerificationReceipts allows.                                      *)
(***************************************************************************)
EXTENDS VerificationJobs, FiniteSetTheorems, TLAPS

(* What admission checked of a job's parents stays so: associations and    *)
(* receipts are only ever added, a job's root is that of its own document. *)
Rests(j) ==
  /\ CaptureFor(j) \in associations
  /\ JobRoot(j) # NoRoot
  /\ ~IsCapture(j) => validByteParent(CaptureFor(j), JobRoot(j))
AdmittedRest == \A j \in Jobs : row[j].state # "absent" => Rests(j)

(* A job that waits may still be claimed; a lease that is out of attempts  *)
(* is what claims end.                                                     *)
AttemptsLeft ==
  \A j \in Jobs : row[j].state \in {"queued", "retry_wait"} => row[j].attempts < MaxAttempts

SessionsHold ==
  \A s \in Sessions : session[s].pc # "idle" =>
    /\ session[s].job \in Jobs
    /\ session[s].pc = "verified" => session[s].digest \in Digests

Inv == TypeOK /\ AdmittedRest /\ AttemptsLeft /\ SessionsHold /\ SuccessHasItsReceipt

(* Every change a step may make of one row.                                *)
Gain(j) == EpochOf(j) = epoch /\ Rests(j) /\ row[j].state = "absent"
           /\ row'[j] = [NoRow EXCEPT !.state = "queued"]
Take(j) == EpochOf(j) = epoch /\ (ReadyCapture(j) \/ ReadyLoad(j)) /\ ~OutOfAttempts(j)
           /\ row'[j] = Lease(row[j])
End(j)  == EpochOf(j) = epoch /\ Exhausted(j) /\ row'[j] = Exhaust(row[j])
Fail(j) ==
  /\ EpochOf(j) = epoch /\ Live(j)
  /\ \/ row'[j] \in {Refuse(row[j]), GiveUp(row[j])}
     \/ row[j].attempts < MaxAttempts /\ row'[j] = Retry(row[j])
Win(j) ==
  /\ EpochOf(j) = epoch /\ Live(j)
  /\ \E d \in Digests :
       /\ row'[j] = Succeed(row[j], d)
       /\ receipt'[Subject(j)] = [root |-> JobRoot(j), digest |-> d]
RunOut(j) == Live(j) /\ row'[j] = [row[j] EXCEPT !.live = FALSE]
GoneBy(j) == EpochOf(j) # epoch /\ Unfinished(j) /\ row'[j] = Cancel(row[j])

(* A step that leases the jobs taken and adds the jobs gained: one at most *)
(* of each, that the limits left room for.                                 *)
Moves(j, taken, gained) ==
  \/ row'[j] = row[j]
  \/ j \in gained /\ Gain(j)
  \/ j \in taken /\ Take(j)
  \/ End(j) \/ Fail(j) \/ Win(j) \/ RunOut(j) \/ GoneBy(j)
RowsMove(taken, gained) ==
  row' = [j \in Jobs |-> row'[j]] /\ \A j \in Jobs : Moves(j, taken, gained)
RoomFor(j) ==
  \/ IsCapture(j) /\ CaptureCapacity(j) /\ Cardinality(LiveLeases(Captures)) < MaxLeases
  \/ ~IsCapture(j) /\ LoadCapacity(j) /\ Cardinality(LiveLeases(Loads)) < MaxLeases
Admissible(taken, gained) ==
  /\ taken = {} \/ \E j \in Jobs : taken = {j} /\ RoomFor(j)
  /\ gained = {} \/ \E j \in Jobs : gained = {j} /\ QuotaLeft(QueueOf(j))
AllRowsMove ==
  \E taken \in SUBSET Jobs, gained \in SUBSET Jobs :
    Admissible(taken, gained) /\ RowsMove(taken, gained)

(* A receipt is added for a job whose parents hold, and never changes.     *)
ReceiptsMove ==
  \/ receipt' = receipt
  \/ \E j \in Jobs, d \in Digests :
       /\ receipt[Subject(j)] = None /\ Rests(j)
       /\ receipt' = [receipt EXCEPT ![Subject(j)] = [root |-> JobRoot(j), digest |-> d]]

-----------------------------------------------------------------------------
(* Jobs and rows.                                                          *)

LEMMA JobShape ==
  ASSUME NEW j \in Jobs
  PROVE  /\ Subject(j) \in Subjects /\ EpochOf(j) \in Epochs
         /\ CaptureFor(j) \in Captures
         /\ JobRoot(j) \in Roots \cup {NoRoot}
<1>1. Subject(j) \in Subjects /\ EpochOf(j) \in Epochs
  BY DEF Jobs, Subject, EpochOf
<1>2. CaptureFor(j) \in Captures
  BY <1>1, SubjectAssumption DEF CaptureFor, IsCapture, Subjects
<1> QED
  BY <1>1, <1>2, ConfigurationAssumption DEF JobRoot

LEMMA NewJob ==
  ASSUME NEW s \in Subjects, NEW e \in Epochs
  PROVE  /\ <<s, e>> \in Jobs /\ Subject(<<s, e>>) = s /\ EpochOf(<<s, e>>) = e
         /\ s \in Captures => IsCapture(<<s, e>>) /\ CaptureFor(<<s, e>>) = s
         /\ s \in Loads => ~IsCapture(<<s, e>>) /\ CaptureFor(<<s, e>>) = CaptureOf[s]
BY SubjectAssumption DEF Jobs, Subject, EpochOf, IsCapture, CaptureFor

(* One row is written.                                                     *)
LEMMA OneRow ==
  ASSUME TypeOK, NEW j \in Jobs, NEW r, row' = [row EXCEPT ![j] = r],
         NEW taken, NEW gained, Moves(j, taken, gained)
  PROVE  RowsMove(taken, gained)
<1>1. row' = [k \in Jobs |-> row'[k]]
  BY DEF TypeOK
<1>2. \A k \in Jobs : k # j => row'[k] = row[k]
  BY DEF TypeOK
<1> QED
  BY <1>1, <1>2 DEF RowsMove, Moves

LEMMA NoRowMoves == TypeOK /\ row' = row => RowsMove({}, {})
BY DEF TypeOK, RowsMove, Moves

(* A result is of the session's own lease, of the configuration in force.  *)
LEMMA OwnLease ==
  ASSUME Inv, NEW s \in Sessions, session[s].pc # "idle", authorizedBinding(s)
  PROVE  LET j == session[s].job
         IN  j \in Jobs /\ EpochOf(j) = epoch /\ Live(j) /\ row[j].attempts = session[s].attempt
BY DEF Inv, SessionsHold, authorizedBinding, HoldsLease

-----------------------------------------------------------------------------
(* What each step does.                                                    *)

LEMMA InsertMoves ==
  ASSUME Inv, NEW j \in Jobs, Insert(j), EpochOf(j) = epoch, Rests(j)
  PROVE  QuotaLeft(QueueOf(j)) /\ RowsMove({}, {j})
<1>1. Gain(j)
  BY DEF Insert, Gain, Inv, TypeOK
<1>2. Moves(j, {}, {j})
  BY <1>1 DEF Moves
<1> QED
  BY <1>2, OneRow DEF Insert, Inv

LEMMA AdmitMoves ==
  ASSUME Inv, (\E c \in Captures : AdmitCapture(c)) \/ (\E l \in Loads : AdmitLoad(l))
  PROVE  \E j \in Jobs : QuotaLeft(QueueOf(j)) /\ RowsMove({}, {j})
<1>1. ASSUME NEW c \in Captures, AdmitCapture(c)
      PROVE  \E j \in Jobs : QuotaLeft(QueueOf(j)) /\ RowsMove({}, {j})
  <2>1. c \in Subjects /\ epoch \in Epochs
    BY <1>1, ConfigurationAssumption DEF AdmitCapture, Inv, TypeOK, Subjects, Epochs
  <2>2. Rests(<<c, epoch>>)
    BY <1>1, <2>1, NewJob DEF AdmitCapture, Rests, JobRoot
  <2> QED
    BY <1>1, <2>1, <2>2, NewJob, InsertMoves DEF AdmitCapture
<1>2. ASSUME NEW l \in Loads, AdmitLoad(l)
      PROVE  \E j \in Jobs : QuotaLeft(QueueOf(j)) /\ RowsMove({}, {j})
  <2>1. l \in Subjects /\ epoch \in Epochs
    BY <1>2, ConfigurationAssumption DEF AdmitLoad, Inv, TypeOK, Subjects, Epochs
  <2>2. Rests(<<l, epoch>>)
    BY <1>2, <2>1, NewJob DEF AdmitLoad, Rests, JobRoot
  <2> QED
    BY <1>2, <2>1, <2>2, NewJob, InsertMoves DEF AdmitLoad
<1> QED
  BY <1>1, <1>2

(* A claim ends what is out of attempts and takes one other candidate.     *)
LEMMA ClaimedMoves ==
  ASSUME Inv, NEW gone \in SUBSET Jobs, NEW taken \in SUBSET Jobs,
         row' = WithClaimed(gone, taken),
         \A j \in gone : EpochOf(j) = epoch /\ Exhausted(j),
         \A j \in taken : EpochOf(j) = epoch /\ (ReadyCapture(j) \/ ReadyLoad(j))
                          /\ ~OutOfAttempts(j)
  PROVE  RowsMove(taken, {})
<1>1. row' = [j \in Jobs |-> row'[j]]
  BY DEF WithClaimed
<1>2. ASSUME NEW j \in Jobs PROVE Moves(j, taken, {})
  <2>1. CASE j \in gone
    <3>1. j \notin taken
      BY <2>1 DEF Exhausted
    <3>2. row'[j] = Exhaust(row[j])
      BY <2>1, <3>1 DEF WithClaimed
    <3> QED
      BY <2>1, <3>2 DEF Moves, End
  <2>2. CASE j \notin gone /\ j \in taken
    <3>1. row'[j] = Lease(row[j])
      BY <2>2 DEF WithClaimed
    <3> QED
      BY <2>2, <3>1 DEF Moves, Take
  <2>3. CASE j \notin gone /\ j \notin taken
    <3>1. row'[j] = row[j]
      BY <2>3 DEF WithClaimed
    <3> QED
      BY <3>1 DEF Moves
  <2> QED
    BY <2>1, <2>2, <2>3
<1> QED
  BY <1>1, <1>2 DEF RowsMove

(* What a claim does to the rows and to the session that made it.          *)
Claims(s, gone, taken) ==
  /\ gone \subseteq {j \in Jobs : EpochOf(j) = epoch /\ Exhausted(j)}
  /\ row' = WithClaimed(gone, taken)
  /\ \/ taken = {} /\ session' = session
     \/ \E j \in Jobs :
          /\ taken = {j}
          /\ EpochOf(j) = epoch /\ (ReadyCapture(j) \/ ReadyLoad(j)) /\ ~OutOfAttempts(j)
          /\ RoomFor(j)
          /\ session' = [session EXCEPT ![s] = Claimed(j)]

LEMMA ClaimIs ==
  ASSUME NEW s \in Sessions, claimCapture(s) \/ claimLoad(s)
  PROVE  \E gone \in SUBSET Jobs, taken \in SUBSET Jobs : Claims(s, gone, taken)
<1>1. CASE claimCapture(s)
  <2>1. PICK gone \in SUBSET {j \in CaptureCandidates : Exhausted(j)} :
          \/ row' = WithClaimed(gone, {}) /\ session' = session
          \/ \E j \in CaptureCandidates :
               /\ ~OutOfAttempts(j) /\ CaptureCapacity(j)
               /\ row' = WithClaimed(gone, {j})
               /\ session' = [session EXCEPT ![s] = Claimed(j)]
    BY <1>1 DEF claimCapture
  <2>2. gone \in SUBSET Jobs
        /\ gone \subseteq {j \in Jobs : EpochOf(j) = epoch /\ Exhausted(j)}
    BY DEF CaptureCandidates
  <2>3. CASE row' = WithClaimed(gone, {}) /\ session' = session
    <3>1. Claims(s, gone, {})
      BY <2>2, <2>3 DEF Claims
    <3> QED
      BY <2>2, <3>1
  <2>4. ASSUME NEW j \in CaptureCandidates, ~OutOfAttempts(j), CaptureCapacity(j),
               row' = WithClaimed(gone, {j}),
               session' = [session EXCEPT ![s] = Claimed(j)]
        PROVE  \E taken \in SUBSET Jobs : Claims(s, gone, taken)
    <3>1. j \in Jobs /\ IsCapture(j) /\ EpochOf(j) = epoch /\ ReadyCapture(j)
      BY DEF CaptureCandidates
    <3>2. Cardinality(LiveLeases(Captures)) < MaxLeases
      BY <1>1 DEF claimCapture
    <3>3. Claims(s, gone, {j})
      BY <2>2, <2>4, <3>1, <3>2 DEF Claims, RoomFor
    <3>4. {j} \in SUBSET Jobs
      BY <3>1
    <3> QED
      BY <3>3, <3>4
  <2> QED
    BY <2>1, <2>2, <2>3, <2>4
<1>2. CASE claimLoad(s)
  <2>1. PICK gone \in SUBSET {j \in LoadCandidates : Exhausted(j)} :
          \/ row' = WithClaimed(gone, {}) /\ session' = session
          \/ \E j \in LoadCandidates :
               /\ ~OutOfAttempts(j) /\ LoadCapacity(j)
               /\ row' = WithClaimed(gone, {j})
               /\ session' = [session EXCEPT ![s] = Claimed(j)]
    BY <1>2 DEF claimLoad
  <2>2. gone \in SUBSET Jobs
        /\ gone \subseteq {j \in Jobs : EpochOf(j) = epoch /\ Exhausted(j)}
    BY DEF LoadCandidates
  <2>3. CASE row' = WithClaimed(gone, {}) /\ session' = session
    <3>1. Claims(s, gone, {})
      BY <2>2, <2>3 DEF Claims
    <3> QED
      BY <2>2, <3>1
  <2>4. ASSUME NEW j \in LoadCandidates, ~OutOfAttempts(j), LoadCapacity(j),
               row' = WithClaimed(gone, {j}),
               session' = [session EXCEPT ![s] = Claimed(j)]
        PROVE  \E taken \in SUBSET Jobs : Claims(s, gone, taken)
    <3>1. j \in Jobs /\ ~IsCapture(j) /\ EpochOf(j) = epoch /\ ReadyLoad(j)
      BY DEF LoadCandidates
    <3>2. Cardinality(LiveLeases(Loads)) < MaxLeases
      BY <1>2 DEF claimLoad
    <3>3. Claims(s, gone, {j})
      BY <2>2, <2>4, <3>1, <3>2 DEF Claims, RoomFor
    <3>4. {j} \in SUBSET Jobs
      BY <3>1
    <3> QED
      BY <3>3, <3>4
  <2> QED
    BY <2>1, <2>2, <2>3, <2>4
<1> QED
  BY <1>1, <1>2

(* A result that is recorded: the receipt is there, or was not yet.        *)
LEMMA WriteMoves ==
  ASSUME Inv, NEW s \in Sessions, session[s].pc = "verified",
         authorizedBinding(s), Agrees(s), WriteReceipt(s)
  PROVE  RowsMove({}, {}) /\ ReceiptsMove
<1> DEFINE j == session[s].job
           d == session[s].digest
           r == [root |-> JobRoot(j), digest |-> d]
<1>1. /\ j \in Jobs /\ EpochOf(j) = epoch /\ Live(j) /\ d \in Digests
      /\ Subject(j) \in Subjects
  BY OwnLease, JobShape DEF Inv, SessionsHold
<1>2. row[j].state # "absent" /\ Rests(j)
  BY <1>1 DEF Live, Inv, AdmittedRest
<1>3. /\ row' = [row EXCEPT ![j] = Succeed(row[j], d)]
      /\ receipt[Subject(j)] \in {None, r}
      /\ receipt' = [receipt EXCEPT ![Subject(j)] =
                       IF receipt[Subject(j)] = None THEN r ELSE receipt[Subject(j)]]
  BY DEF WriteReceipt, Agrees, Produced
<1> HIDE DEF j, d
<1>4. receipt \in [Subjects -> Receipts \cup {None}]
  BY DEF Inv, TypeOK
<1>5. receipt'[Subject(j)] = r
  BY <1>1, <1>3, <1>4
<1>6. row'[j] = Succeed(row[j], d)
  BY <1>1, <1>3 DEF Inv, TypeOK
<1>7. Moves(j, {}, {})
  BY <1>1, <1>5, <1>6 DEF Moves, Win
<1>8. RowsMove({}, {})
  BY <1>1, <1>3, <1>7, OneRow DEF Inv
<1>9. ReceiptsMove
  <2>1. CASE receipt[Subject(j)] = None
    BY <1>1, <1>2, <1>3, <2>1 DEF ReceiptsMove
  <2>2. CASE receipt[Subject(j)] # None
    <3>1. receipt' = receipt
      BY <1>1, <1>3, <1>4, <2>2
    <3> QED
      BY <3>1 DEF ReceiptsMove
  <2> QED
    BY <2>1, <2>2
<1> QED
  BY <1>8, <1>9

(* A failure that is recorded.                                             *)
LEMMA FailureMoves ==
  ASSUME Inv, NEW s \in Sessions, session[s].pc # "idle", authorizedBinding(s),
         NEW r, row' = [row EXCEPT ![session[s].job] = r],
         r = Refuse(row[session[s].job]) \/ r = Failure(s)
  PROVE  RowsMove({}, {})
<1> DEFINE j == session[s].job
<1>1. j \in Jobs /\ EpochOf(j) = epoch /\ Live(j) /\ row[j].attempts = session[s].attempt
  BY OwnLease
<1>2. \/ r \in {Refuse(row[j]), GiveUp(row[j])}
      \/ row[j].attempts < MaxAttempts /\ r = Retry(row[j])
  <2>1. session[s].attempt \in Nat /\ MaxAttempts \in Nat
    BY LimitAssumption DEF Inv, TypeOK, SessionRecords
  <2> QED
    BY <1>1, <2>1 DEF Failure
<1>3. row'[j] = r
  BY <1>1 DEF Inv, TypeOK
<1>4. Moves(j, {}, {})
  BY <1>1, <1>2, <1>3 DEF Moves, Fail
<1> QED
  BY <1>1, <1>4, OneRow DEF Inv

LEMMA CancelMoves ==
  ASSUME Inv, NEW queue, NEW batch \in SUBSET Superseded(queue), WithCancelled(batch)
  PROVE  RowsMove({}, {})
<1>1. row' = [j \in Jobs |-> row'[j]]
  BY DEF WithCancelled
<1>2. ASSUME NEW j \in Jobs PROVE Moves(j, {}, {})
  <2>1. CASE j \in batch
    <3>1. row'[j] = Cancel(row[j]) /\ EpochOf(j) # epoch /\ Unfinished(j)
      BY <2>1 DEF WithCancelled, Superseded
    <3> QED
      BY <3>1 DEF Moves, GoneBy
  <2>2. CASE j \notin batch
    BY <2>2 DEF WithCancelled, Moves
  <2> QED
    BY <2>1, <2>2
<1> QED
  BY <1>1, <1>2 DEF RowsMove

(* The row of a renewed lease is the one it was: leases have no deadline   *)
(* here, only an end.                                                      *)
LEMMA HeartbeatMoves ==
  ASSUME Inv, NEW s \in Sessions, heartbeat(s)
  PROVE  row' = row
<1> DEFINE j == session[s].job
<1>1. CASE authorizedBinding(s) /\ row' = [row EXCEPT ![j].live = TRUE]
  <2>1. j \in Jobs /\ row[j].live
    BY <1>1, OwnLease DEF heartbeat, Live
  <2>2. row[j] \in Rows
    BY <2>1 DEF Inv, TypeOK
  <2>3. row[j] = [row[j] EXCEPT !.live = TRUE]
    BY <2>1, <2>2 DEF Rows
  <2> HIDE DEF j
  <2> QED
    BY <1>1, <2>1, <2>3 DEF Inv, TypeOK
<1> QED
  BY <1>1 DEF heartbeat

LEMMA ExpireMoves ==
  ASSUME Inv, NEW j \in Jobs, Expire(j)
  PROVE  RowsMove({}, {})
<1>1. Live(j) /\ row'[j] = [row[j] EXCEPT !.live = FALSE]
      /\ row' = [row EXCEPT ![j] = [row[j] EXCEPT !.live = FALSE]]
  BY DEF Expire, Inv, TypeOK
<1>2. Moves(j, {}, {})
  BY <1>1 DEF Moves, RunOut
<1> QED
  BY <1>1, <1>2, OneRow DEF Inv

LEMMA SessionMoves ==
  ASSUME Inv, NEW s \in Sessions,
         SessionStep(s) \/ Abandon(s) \/ heartbeat(s)
  PROVE  RowsMove({}, {}) /\ ReceiptsMove
<1>1. CASE bindCapture(s) \/ verifierAnswers(s) \/ Abandon(s)
  <2>1. row' = row /\ receipt' = receipt
    BY <1>1 DEF bindCapture, verifierAnswers, Abandon
  <2> QED
    BY <2>1, NoRowMoves DEF Inv, ReceiptsMove
<1>2. CASE heartbeat(s)
  BY <1>2, HeartbeatMoves, NoRowMoves DEF Inv, ReceiptsMove, heartbeat
<1>3. CASE appendCapture(s) \/ appendLoad(s)
  <2>1. \/ session[s].pc = "verified" /\ authorizedBinding(s) /\ Agrees(s) /\ WriteReceipt(s)
        \/ row' = row /\ receipt' = receipt
    BY <1>3 DEF appendCapture, appendLoad
  <2>2. CASE row' = row /\ receipt' = receipt
    BY <2>2, NoRowMoves DEF Inv, ReceiptsMove
  <2> QED
    BY <2>1, <2>2, WriteMoves
<1>4. CASE terminalFailure(s) \/ recordFailure(s)
  <2>1. receipt' = receipt
    BY <1>4 DEF terminalFailure, recordFailure
  <2>2. CASE row' = row
    BY <2>1, <2>2, NoRowMoves DEF Inv, ReceiptsMove
  <2>3. CASE row' # row
    <3>1. session[s].pc # "idle" /\ authorizedBinding(s)
      BY <1>4, <2>3 DEF terminalFailure, recordFailure
    <3>2. PICK r : /\ row' = [row EXCEPT ![session[s].job] = r]
                   /\ r = Refuse(row[session[s].job]) \/ r = Failure(s)
      BY <1>4, <2>3 DEF terminalFailure, recordFailure
    <3>3. RowsMove({}, {})
      BY <3>1, <3>2, FailureMoves
    <3> QED
      BY <2>1, <3>3 DEF ReceiptsMove
  <2> QED
    BY <2>2, <2>3
<1> QED
  BY <1>1, <1>2, <1>3, <1>4 DEF SessionStep

LEMMA StepMoves ==
  ASSUME Inv, [Next]_vars
  PROVE  AllRowsMove /\ ReceiptsMove /\ associations \subseteq associations'
<1> USE DEF AllRowsMove, Admissible
<1>1. CASE ActivateConfiguration \/ (\E c \in Captures : AppendAssociation(c))
           \/ UNCHANGED vars
  <2>1. row' = row /\ receipt' = receipt /\ associations \subseteq associations'
    BY <1>1 DEF ActivateConfiguration, AppendAssociation, vars
  <2> QED
    BY <2>1, NoRowMoves DEF Inv, ReceiptsMove
<1>2. CASE (\E c \in Captures : AdmitCapture(c)) \/ (\E l \in Loads : AdmitLoad(l))
  <2>1. receipt' = receipt /\ associations' = associations
    BY <1>2 DEF AdmitCapture, AdmitLoad
  <2> QED
    BY <1>2, <2>1, AdmitMoves DEF ReceiptsMove
<1>3. ASSUME NEW s \in Sessions, claimCapture(s) \/ claimLoad(s)
      PROVE  AllRowsMove /\ ReceiptsMove /\ associations \subseteq associations'
  <2>1. receipt' = receipt /\ associations' = associations
    BY <1>3 DEF claimCapture, claimLoad
  <2>2. PICK gone \in SUBSET Jobs, taken \in SUBSET Jobs : Claims(s, gone, taken)
    BY <1>3, ClaimIs
  <2>3. RowsMove(taken, {})
    BY <2>2, ClaimedMoves DEF Claims
  <2>4. Admissible(taken, {})
    BY <2>2 DEF Claims
  <2> QED
    BY <2>1, <2>3, <2>4 DEF ReceiptsMove
<1>4. ASSUME NEW s \in Sessions, SessionStep(s) \/ Abandon(s) \/ heartbeat(s)
      PROVE  AllRowsMove /\ ReceiptsMove /\ associations \subseteq associations'
  <2>1. associations' = associations
    BY <1>4 DEF SessionStep, bindCapture, verifierAnswers, appendCapture, appendLoad,
                terminalFailure, recordFailure, Abandon, heartbeat
  <2> QED
    BY <1>4, <2>1, SessionMoves
<1>5. ASSUME NEW j \in Jobs, Expire(j)
      PROVE  AllRowsMove /\ ReceiptsMove /\ associations \subseteq associations'
  BY <1>5, ExpireMoves DEF Expire, ReceiptsMove
<1>6. ASSUME NEW batch \in SUBSET Jobs,
             cancelSupersededCaptures(batch) \/ cancelSupersededLoads(batch)
      PROVE  AllRowsMove /\ ReceiptsMove /\ associations \subseteq associations'
  <2>1. receipt' = receipt /\ associations' = associations /\ WithCancelled(batch)
        /\ (batch \in SUBSET Superseded(Captures) \/ batch \in SUBSET Superseded(Loads))
    BY <1>6 DEF cancelSupersededCaptures, cancelSupersededLoads
  <2>2. RowsMove({}, {})
    BY <2>1, CancelMoves
  <2> QED
    BY <2>1, <2>2 DEF ReceiptsMove
<1> QED
  BY <1>1, <1>2, <1>3, <1>4, <1>5, <1>6 DEF Next

-----------------------------------------------------------------------------
(* The invariant.                                                          *)

LEMMA CodesAre ==
  /\ CodesOf("failed") = {"exhausted", "unverified", "transient"}
  /\ CodesOf("retry_wait") = {"transient"} /\ CodesOf("cancelled") = {"superseded"}
  /\ \A state \in {"absent", "queued", "leased", "succeeded"} : CodesOf(state) = {"none"}
BY DEF CodesOf

LEMMA RowKeepsType ==
  ASSUME Inv, NEW j \in Jobs, NEW taken, NEW gained, Moves(j, taken, gained)
  PROVE  /\ row'[j] \in Rows /\ RowConstraints(row'[j])
         /\ row'[j].state \in {"queued", "retry_wait"} => row'[j].attempts < MaxAttempts
<1> DEFINE r == row[j]
           s == row'[j]
<1>1. /\ r \in Rows /\ RowConstraints(r) /\ MaxAttempts \in Nat \ {0}
      /\ None \notin Digests
      /\ r.state \in {"queued", "retry_wait"} => r.attempts < MaxAttempts
  BY SubjectAssumption, LimitAssumption DEF Inv, TypeOK, AttemptsLeft
<1> SUFFICES /\ s \in Rows
             /\ s.live => s.state = "leased"
             /\ (s.state = "succeeded") <=> (s.digest # None)
             /\ s.code \in CodesOf(s.state)
             /\ s.state \in {"leased", "retry_wait", "succeeded"} => s.attempts > 0
             /\ s.state \in {"queued", "retry_wait"} => s.attempts < MaxAttempts
  BY DEF RowConstraints
<1>2. /\ (r.state = "succeeded") <=> (r.digest # None)
      /\ r.live => r.state = "leased"
      /\ r.code \in CodesOf(r.state)
      /\ r.state \in {"leased", "retry_wait", "succeeded"} => r.attempts > 0
  BY <1>1 DEF RowConstraints
<1>3. CASE s = r
  BY <1>1, <1>2, <1>3
<1>4. CASE Gain(j)
  <2>1. s = [state |-> "queued", attempts |-> 0, live |-> FALSE, code |-> "none", digest |-> None]
    BY <1>4 DEF Gain, NoRow
  <2> HIDE DEF s
  <2> QED
    BY <1>1, <2>1, CodesAre DEF Rows, JobStates, UnfinishedStates, Codes
<1>5. CASE Take(j)
  <2>1. r.attempts + 1 \in 0 .. MaxAttempts /\ r.attempts + 1 > 0
    BY <1>1, <1>5 DEF Take, OutOfAttempts, Rows
  <2>2. r.digest = None
    BY <1>2, <1>5 DEF Take, ReadyCapture, ReadyLoad, Expired
  <2>3. s = Lease(r)
    BY <1>5 DEF Take
  <2> HIDE DEF s, r
  <2> QED
    BY <1>1, <2>1, <2>2, <2>3, CodesAre DEF Lease, Rows, JobStates, UnfinishedStates, Codes
<1>6. CASE s \in {Exhaust(r), Refuse(r), GiveUp(r)} /\ r.state = "leased"
  <2> HIDE DEF s, r
  <2> QED
    BY <1>1, <1>2, <1>6, CodesAre DEF Exhaust, Refuse, GiveUp, Rows, JobStates, TerminalStates, Codes
<1>7. CASE s = Retry(r) /\ r.state = "leased" /\ r.attempts < MaxAttempts
  <2> HIDE DEF s, r
  <2> QED
    BY <1>1, <1>2, <1>7, CodesAre DEF Retry, Rows, JobStates, UnfinishedStates, Codes
<1>8. CASE Win(j)
  <2>1. PICK d \in Digests : s = Succeed(r, d)
    BY <1>8 DEF Win
  <2>2. r.state = "leased"
    BY <1>8 DEF Win, Live
  <2> HIDE DEF s, r
  <2> QED
    BY <1>1, <1>2, <2>1, <2>2, CodesAre DEF Succeed, Rows, JobStates, TerminalStates, Codes
<1>9. CASE RunOut(j)
  <2>1. s = [r EXCEPT !.live = FALSE]
    BY <1>9 DEF RunOut
  <2> HIDE DEF s, r
  <2> QED
    BY <1>1, <1>2, <2>1 DEF Rows
<1>10. CASE GoneBy(j)
  <2>1. s = Cancel(r)
    BY <1>10 DEF GoneBy
  <2> HIDE DEF s, r
  <2> QED
    BY <1>1, <1>2, <2>1, CodesAre DEF Cancel, Rows, JobStates, TerminalStates, Codes
<1> QED
  BY <1>3, <1>4, <1>5, <1>6, <1>7, <1>8, <1>9, <1>10 DEF Moves, End, Exhausted, Fail, Live

LEMMA ReceiptsStay ==
  ASSUME Inv, ReceiptsMove
  PROVE  /\ receipt' \in [Subjects -> Receipts \cup {None}]
         /\ \A s \in Subjects : receipt[s] # None => receipt'[s] = receipt[s]
<1>1. receipt \in [Subjects -> Receipts \cup {None}]
  BY DEF Inv, TypeOK
<1>2. ASSUME NEW j \in Jobs, NEW d \in Digests,
             receipt[Subject(j)] = None, Rests(j),
             receipt' = [receipt EXCEPT ![Subject(j)] = [root |-> JobRoot(j), digest |-> d]]
      PROVE  /\ receipt' \in [Subjects -> Receipts \cup {None}]
             /\ \A s \in Subjects : receipt[s] # None => receipt'[s] = receipt[s]
  <2>1. [root |-> JobRoot(j), digest |-> d] \in Receipts
    BY <1>2, JobShape DEF Rests, Receipts
  <2> QED
    BY <1>1, <1>2, <2>1
<1> QED
  BY <1>1, <1>2 DEF ReceiptsMove

LEMMA RestsStay ==
  ASSUME Inv, NEW taken, NEW gained, RowsMove(taken, gained), ReceiptsMove, associations \subseteq associations'
  PROVE  AdmittedRest'
<1> SUFFICES ASSUME NEW j \in Jobs, row'[j].state # "absent"
             PROVE  Rests(j)'
  BY DEF AdmittedRest
<1>1. Rests(j)
  <2>1. CASE row[j].state # "absent"
    BY <2>1 DEF Inv, AdmittedRest
  <2>2. CASE row[j].state = "absent" /\ Gain(j)
    BY <2>2 DEF Gain
  <2>3. CASE row[j].state = "absent" /\ ~Gain(j)
    <3>1. row'[j] = row[j]
      BY <2>3 DEF RowsMove, Moves, Take, End, Fail, Win, RunOut, GoneBy, ReadyCapture, ReadyLoad,
                  Expired, Exhausted, Live, Unfinished, UnfinishedStates
    <3> QED
      BY <2>3, <3>1
  <2> QED
    BY <2>1, <2>2, <2>3
<1>2. CaptureFor(j) \in Subjects
  BY JobShape DEF Subjects
<1>3. validByteParent(CaptureFor(j), JobRoot(j)) => validByteParent(CaptureFor(j), JobRoot(j))'
  BY <1>2, ReceiptsStay DEF validByteParent
<1> QED
  BY <1>1, <1>3 DEF Rests

LEMMA SuccessStays ==
  ASSUME Inv, NEW taken, NEW gained, RowsMove(taken, gained), ReceiptsMove
  PROVE  SuccessHasItsReceipt'
<1> SUFFICES ASSUME NEW j \in Jobs, row'[j].state = "succeeded"
             PROVE  receipt'[Subject(j)] = [root |-> JobRoot(j), digest |-> row'[j].digest]
  BY DEF SuccessHasItsReceipt
<1>1. row[j] \in Rows /\ Subject(j) \in Subjects
  BY JobShape DEF Inv, TypeOK
<1>2. CASE Win(j)
  BY <1>1, <1>2 DEF Win, Succeed, Rows
<1>3. CASE ~Win(j)
  <2>1. row'[j] = row[j]
    <3>1. ~Gain(j) /\ ~GoneBy(j)
      BY <1>1 DEF Gain, GoneBy, NoRow, Cancel, Rows
    <3>2. ~Take(j) /\ ~End(j) /\ ~Fail(j)
      BY <1>1 DEF Take, End, Fail, Lease, Exhaust, Refuse, GiveUp, Retry, Rows
    <3>3. ~RunOut(j)
      BY <1>1 DEF RunOut, Live, Rows
    <3> QED
      BY <1>3, <3>1, <3>2, <3>3 DEF RowsMove, Moves
  <2>2. receipt[Subject(j)] = [root |-> JobRoot(j), digest |-> row[j].digest]
    BY <2>1 DEF Inv, SuccessHasItsReceipt
  <2>3. receipt[Subject(j)] # None
    <3>1. row[j].digest \in Digests
      BY <1>1, <2>1 DEF Inv, TypeOK, RowConstraints, Rows
    <3>2. JobRoot(j) \in Roots
      BY <2>1, JobShape DEF Inv, AdmittedRest, Rests
    <3> QED
      BY <2>2, <3>1, <3>2, SubjectAssumption DEF Receipts
  <2> QED
    BY <1>1, <2>1, <2>2, <2>3, ReceiptsStay
<1> QED
  BY <1>2, <1>3

(* What a session remembers is a job, and a result once there is one.      *)
IsSession(r) ==
  /\ r \in SessionRecords
  /\ r.pc # "idle" => r.job \in Jobs /\ (r.pc = "verified" => r.digest \in Digests)

LEMMA IdleIsSession == IsSession(Idle)
BY LimitAssumption DEF IsSession, Idle, SessionRecords, SessionStates

LEMMA OneSession ==
  ASSUME Inv, NEW s \in Sessions, NEW r, IsSession(r), session' = [session EXCEPT ![s] = r]
  PROVE  session' \in [Sessions -> SessionRecords] /\ SessionsHold'
BY DEF Inv, TypeOK, SessionsHold, IsSession

LEMMA SessionsStay ==
  ASSUME Inv, [Next]_vars
  PROVE  session' \in [Sessions -> SessionRecords] /\ SessionsHold'
<1>1. \A s \in Sessions : IsSession(session[s])
  BY DEF Inv, TypeOK, SessionsHold, IsSession
<1>2. CASE session' = session
  BY <1>2 DEF Inv, TypeOK, SessionsHold
<1>3. ASSUME NEW s \in Sessions, claimCapture(s) \/ claimLoad(s), session' # session
      PROVE  session' \in [Sessions -> SessionRecords] /\ SessionsHold'
  <2>1. PICK j \in Jobs : ~OutOfAttempts(j) /\ session' = [session EXCEPT ![s] = Claimed(j)]
    BY <1>3, ClaimIs DEF Claims
  <2>2. row[j].attempts + 1 \in 0 .. MaxAttempts
    BY <2>1, LimitAssumption DEF OutOfAttempts, Inv, TypeOK, Rows
  <2>3. IsSession(Claimed(j))
    BY <2>2 DEF IsSession, Claimed, SessionRecords, SessionStates
  <2> QED
    BY <2>1, <2>3, OneSession
<1>4. ASSUME NEW s \in Sessions, SessionStep(s) \/ Abandon(s) \/ heartbeat(s), session' # session
      PROVE  session' \in [Sessions -> SessionRecords] /\ SessionsHold'
  <2>1. CASE Leave(s)
    BY <2>1, IdleIsSession, OneSession DEF Leave
  <2>2. ASSUME NEW pc \in {"verifying", "refused", "transient"}, GoTo(s, pc),
               session[s].pc # "idle"
        PROVE  session' \in [Sessions -> SessionRecords] /\ SessionsHold'
    <3>1. IsSession([session[s] EXCEPT !.pc = pc])
      BY <1>1, <2>2 DEF IsSession, SessionRecords, SessionStates
    <3> QED
      BY <2>2, <3>1, OneSession DEF GoTo, Inv, TypeOK
  <2>3. CASE heartbeat(s)
    <3>1. session' = [session EXCEPT ![s].lost = TRUE] /\ session[s].pc = "verifying"
      BY <1>4, <2>3 DEF heartbeat
    <3>2. IsSession([session[s] EXCEPT !.lost = TRUE])
      BY <1>1, <3>1 DEF IsSession, SessionRecords
    <3> QED
      BY <3>1, <3>2, OneSession
  <2>4. CASE verifierAnswers(s)
    <3>1. CASE ~Leave(s)
      <4>1. PICK verdict \in {"verified", "refused", "transient"}, d \in Digests :
              session' = [session EXCEPT ![s].pc = verdict,
                            ![s].digest = IF verdict = "verified" THEN d ELSE None]
        BY <2>4, <3>1 DEF verifierAnswers, Verdicts
      <4> DEFINE r == [session[s] EXCEPT !.pc = verdict,
                         !.digest = IF verdict = "verified" THEN d ELSE None]
      <4>2. session[s].pc # "idle"
        BY <2>4 DEF verifierAnswers
      <4>3. IsSession(r)
        BY <1>1, <4>2 DEF IsSession, SessionRecords, SessionStates
      <4>4. session' = [session EXCEPT ![s] = r]
        BY <1>1, <4>1 DEF Inv, TypeOK, SessionRecords
      <4> HIDE DEF r
      <4> QED
        BY <4>3, <4>4, OneSession
    <3> QED
      BY <2>1, <3>1
  <2>5. CASE bindCapture(s) \/ appendCapture(s) \/ appendLoad(s)
    <3>1. session[s].pc # "idle"
          /\ (Leave(s) \/ \E pc \in {"verifying", "refused", "transient"} : GoTo(s, pc))
      BY <2>5 DEF bindCapture, appendCapture, appendLoad
    <3> QED
      BY <2>1, <2>2, <3>1
  <2>6. CASE terminalFailure(s) \/ recordFailure(s) \/ Abandon(s)
    BY <2>1, <2>6 DEF terminalFailure, recordFailure, Abandon
  <2> QED
    BY <1>4, <2>3, <2>4, <2>5, <2>6 DEF SessionStep
<1>5. ASSUME session' # session
      PROVE  \E s \in Sessions : \/ claimCapture(s) \/ claimLoad(s)
                                 \/ SessionStep(s) \/ Abandon(s) \/ heartbeat(s)
  BY <1>5 DEF Next, vars, ActivateConfiguration, AppendAssociation, AdmitCapture, AdmitLoad, Expire,
              cancelSupersededCaptures, cancelSupersededLoads
<1> QED
  BY <1>2, <1>3, <1>4, <1>5

LEMMA InitInv == Init => Inv
<1> SUFFICES ASSUME Init PROVE Inv
  OBVIOUS
<1>1. NoRow \in Rows /\ RowConstraints(NoRow)
  BY LimitAssumption DEF NoRow, Rows, RowConstraints, CodesOf, JobStates, Codes
<1>2. Idle \in SessionRecords
  BY IdleIsSession DEF IsSession
<1>3. TypeOK
  BY <1>1, <1>2, ConfigurationAssumption DEF Init, TypeOK
<1> QED
  BY <1>3 DEF Init, Inv, AdmittedRest, AttemptsLeft, SessionsHold, SuccessHasItsReceipt, NoRow, Idle

LEMMA EpochsStay ==
  ASSUME Inv, [Next]_vars
  PROVE  epoch' \in 0 .. MaxEpoch /\ associations' \subseteq Captures
<1>1. epoch \in 0 .. MaxEpoch /\ associations \subseteq Captures /\ MaxEpoch \in Nat
  BY ConfigurationAssumption DEF Inv, TypeOK
<1>2. CASE ActivateConfiguration
  BY <1>1, <1>2 DEF ActivateConfiguration
<1>3. ASSUME ~ActivateConfiguration
      PROVE  epoch' = epoch
  BY <1>3 DEF Next, vars, AppendAssociation, AdmitCapture, AdmitLoad, Expire, claimCapture, claimLoad,
              heartbeat, SessionStep, bindCapture, verifierAnswers, appendCapture, appendLoad,
              terminalFailure, recordFailure, Abandon, cancelSupersededCaptures, cancelSupersededLoads
<1>4. ASSUME ~(\E c \in Captures : AppendAssociation(c))
      PROVE  associations' = associations
  BY <1>4 DEF Next, vars, ActivateConfiguration, AdmitCapture, AdmitLoad, Expire, claimCapture,
              claimLoad, heartbeat, SessionStep, bindCapture, verifierAnswers, appendCapture, appendLoad,
              terminalFailure, recordFailure, Abandon, cancelSupersededCaptures, cancelSupersededLoads
<1>5. ASSUME NEW c \in Captures, AppendAssociation(c) PROVE associations' \subseteq Captures
  BY <1>1, <1>5 DEF AppendAssociation
<1> QED
  BY <1>1, <1>2, <1>3, <1>4, <1>5

LEMMA NextInv == Inv /\ [Next]_vars => Inv'
<1> SUFFICES ASSUME Inv, [Next]_vars PROVE Inv'
  OBVIOUS
<1>1. ReceiptsMove /\ associations \subseteq associations'
  BY StepMoves
<1>2. PICK taken, gained : RowsMove(taken, gained)
  BY StepMoves DEF AllRowsMove
<1>3. /\ row' \in [Jobs -> Rows] /\ \A j \in Jobs : RowConstraints(row'[j])
      /\ AttemptsLeft'
  BY <1>2, RowKeepsType DEF RowsMove, AttemptsLeft
<1>4. receipt' \in [Subjects -> Receipts \cup {None}]
  BY <1>1, ReceiptsStay
<1>5. TypeOK'
  BY <1>3, <1>4, EpochsStay, SessionsStay DEF TypeOK
<1>6. AdmittedRest' /\ SuccessHasItsReceipt'
  BY <1>1, <1>2, RestsStay, SuccessStays
<1> QED
  BY <1>3, <1>5, <1>6, SessionsStay DEF Inv

(* The inductive invariant: types and CHECK constraints, the parents an    *)
(* admitted job rests on, attempts left to jobs that wait, a job to every  *)
(* session, and the receipt of every success.                              *)
THEOREM VerificationInvariant == Spec => []Inv
BY InitInv, NextInv, PTL DEF Spec

-----------------------------------------------------------------------------
(* What follows from the invariant.                                        *)

(* A receipt written by appendCapture or appendLoad, or found there by     *)
(* them, is the one its succeeded jobs name, at the root of each job's own *)
(* configuration.                                                          *)
THEOREM SuccessHolds == Spec => []SuccessHasItsReceipt
<1>1. Inv => SuccessHasItsReceipt
  BY DEF Inv
<1> QED
  BY <1>1, VerificationInvariant, PTL

(* No row of an admitted job makes claimOne throw and roll back what the   *)
(* transaction did for the other candidates.                               *)
THEOREM ClaimsGoOn == Spec => []ClaimIsNeverBlocked
<1>1. Inv => ClaimIsNeverBlocked
  <2> SUFFICES ASSUME Inv PROVE ClaimIsNeverBlocked
    OBVIOUS
  <2>1. ASSUME NEW j \in Jobs, ReadyCapture(j) \/ ReadyLoad(j)
        PROVE  Rests(j) /\ (OutOfAttempts(j) => Exhausted(j))
    <3>1. row[j].state \in {"queued", "retry_wait", "leased"}
      BY <2>1 DEF ReadyCapture, ReadyLoad, Expired
    <3>2. Rests(j)
      BY <3>1 DEF Inv, AdmittedRest
    <3>3. OutOfAttempts(j) => row[j].state = "leased"
      <4>1. row[j].attempts \in Nat /\ MaxAttempts \in Nat
        BY LimitAssumption DEF Inv, TypeOK, Rows
      <4> QED
        BY <3>1, <4>1 DEF Inv, AttemptsLeft, OutOfAttempts
    <3> QED
      BY <3>2, <3>3 DEF Exhausted
  <2>2. ASSUME NEW j \in CaptureCandidates
        PROVE  validAdmission(j) /\ (OutOfAttempts(j) => Exhausted(j))
    BY <2>1 DEF CaptureCandidates, Rests, validAdmission, CaptureFor
  <2>3. ASSUME NEW j \in LoadCandidates
        PROVE  verifyParents(j) /\ (OutOfAttempts(j) => Exhausted(j))
    BY <2>1 DEF LoadCandidates, Rests, verifyParents
  <2> QED
    BY <2>2, <2>3 DEF ClaimIsNeverBlocked
<1> QED
  BY <1>1, VerificationInvariant, PTL

(* A job of another configuration than the active one loses its lease or   *)
(* is cancelled by the maintenance, and nothing else: claims, renewals and *)
(* late answers compare the epoch (authorizedBinding).                     *)
THEOREM SupersededGivenUp == Spec => SupersededOnlyCancelled
<1> DEFINE GivenUp == \A j \in Jobs : EpochOf(j) # epoch =>
                        \/ row'[j] = row[j]
                        \/ row'[j] = [row[j] EXCEPT !.live = FALSE]
                        \/ row'[j].state = "cancelled" /\ Unfinished(j)
<1>1. Inv /\ [Next]_vars => [GivenUp]_vars
  <2> SUFFICES ASSUME Inv, [Next]_vars, NEW j \in Jobs, EpochOf(j) # epoch
               PROVE  \/ row'[j] = row[j]
                      \/ row'[j] = [row[j] EXCEPT !.live = FALSE]
                      \/ row'[j].state = "cancelled" /\ Unfinished(j)
    OBVIOUS
  <2>1. PICK taken, gained : Moves(j, taken, gained)
    BY StepMoves DEF AllRowsMove, RowsMove
  <2>2. row[j] \in Rows
    BY DEF Inv, TypeOK
  <2>3. CASE GoneBy(j)
    BY <2>2, <2>3 DEF GoneBy, Cancel, Rows
  <2> QED
    BY <2>1, <2>3 DEF Moves, Gain, Take, End, Fail, Win, RunOut
<1> QED
  BY <1>1, VerificationInvariant, PTL DEF Spec, SupersededOnlyCancelled

-----------------------------------------------------------------------------
(* The limits.                                                             *)

LEMMA NewWork ==
  ASSUME Inv, NEW taken, NEW gained, RowsMove(taken, gained), NEW j \in Jobs
  PROVE  /\ Live(j)' => Live(j) \/ j \in taken
         /\ Unfinished(j)' => Unfinished(j) \/ j \in gained
<1>1. row[j] \in Rows /\ Moves(j, taken, gained)
  BY DEF Inv, TypeOK, RowsMove
<1>2. CASE row'[j] = row[j]
  BY <1>2 DEF Live, Unfinished
<1>3. CASE j \in gained /\ Gain(j)
  BY <1>3 DEF Gain, NoRow, Live
<1>4. CASE j \in taken /\ Take(j)
  BY <1>4 DEF Take, ReadyCapture, ReadyLoad, Expired, Unfinished, UnfinishedStates
<1>5. CASE End(j) \/ Fail(j) \/ RunOut(j)
  <2>1. row[j].state = "leased" /\ ~row'[j].live
    BY <1>1, <1>5 DEF End, Fail, RunOut, Live, Exhausted, Exhaust, Refuse, GiveUp, Retry, Rows
  <2> QED
    BY <2>1 DEF Live, Unfinished, UnfinishedStates
<1>6. CASE Win(j) \/ GoneBy(j)
  <2>1. row'[j].state \in {"succeeded", "cancelled"}
    BY <1>1, <1>6 DEF Win, GoneBy, Succeed, Cancel, Rows
  <2> QED
    BY <2>1 DEF Live, Unfinished, UnfinishedStates
<1> QED
  BY <1>1, <1>2, <1>3, <1>4, <1>5, <1>6 DEF Moves

LEMMA JobsAreFinite == IsFiniteSet(Jobs)
<1>1. IsFiniteSet(Subjects)
  BY LimitAssumption, FS_Union DEF Subjects
<1>2. IsFiniteSet(Epochs)
  BY ConfigurationAssumption, FS_Interval DEF Epochs
<1> QED
  BY <1>1, <1>2, FS_Product DEF Jobs

(* A set that gains one job at most, and only while it is below its limit, *)
(* keeps to the limit.                                                     *)
LEMMA CountStays ==
  ASSUME NEW old \in SUBSET Jobs, NEW now \in SUBSET Jobs, NEW limit \in Nat, NEW j,
         Cardinality(old) <= limit,
         now \subseteq old \/ (now \subseteq old \cup {j} /\ Cardinality(old) < limit)
  PROVE  Cardinality(now) <= limit
<1>1. IsFiniteSet(old) /\ IsFiniteSet(now)
  BY JobsAreFinite, FS_Subset
<1>2. /\ IsFiniteSet(old \cup {j})
      /\ Cardinality(old \cup {j}) = IF j \in old THEN Cardinality(old) ELSE Cardinality(old) + 1
  BY <1>1, FS_AddElement
<1>3. Cardinality(old) \in Nat /\ Cardinality(now) \in Nat
  BY <1>1, FS_CardinalityType
<1>4. CASE now \subseteq old
  <2>1. Cardinality(now) <= Cardinality(old)
    BY <1>1, <1>4, FS_Subset
  <2> QED
    BY <1>3, <2>1
<1>5. CASE now \subseteq old \cup {j} /\ Cardinality(old) < limit
  <2>1. Cardinality(now) <= Cardinality(old \cup {j})
    BY <1>2, <1>5, FS_Subset
  <2> QED
    BY <1>2, <1>3, <1>5, <2>1
<1> QED
  BY <1>4, <1>5

UnfinishedIn(queue) == {j \in Jobs : Subject(j) \in queue /\ Unfinished(j)}
OnePerPlace(queue) ==
  \A j, k \in LiveLeases(queue) :
    (queue = Captures \/ SameEnvironment(j, k)) /\ SameService(j, k) => j = k

LEMMA QueueOfJob ==
  ASSUME NEW j \in Jobs, NEW queue \in {Captures, Loads}, Subject(j) \in queue
  PROVE  QueueOf(j) = queue /\ (IsCapture(j) <=> queue = Captures)
BY SubjectAssumption DEF QueueOf, IsCapture

LEMMA LimitsStay ==
  ASSUME Inv, [Next]_vars, WithinLimits, NEW queue \in {Captures, Loads}
  PROVE  /\ Cardinality(LiveLeases(queue)') <= MaxLeases
         /\ OnePerPlace(queue)'
         /\ Cardinality(UnfinishedIn(queue)') <= MaxQueued
<1>1. PICK taken, gained : Admissible(taken, gained) /\ RowsMove(taken, gained)
  BY StepMoves DEF AllRowsMove
<1>2. /\ Cardinality(LiveLeases(queue)) <= MaxLeases /\ OnePerPlace(queue)
      /\ Cardinality(UnfinishedIn(queue)) <= MaxQueued
  BY DEF WithinLimits, OnePerPlace, UnfinishedIn
<1>3. /\ MaxLeases \in Nat /\ MaxQueued \in Nat
      /\ LiveLeases(queue) \in SUBSET Jobs /\ LiveLeases(queue)' \in SUBSET Jobs
      /\ UnfinishedIn(queue) \in SUBSET Jobs /\ UnfinishedIn(queue)' \in SUBSET Jobs
  BY LimitAssumption DEF LiveLeases, UnfinishedIn
<1>4. \A j \in LiveLeases(queue)' : j \in LiveLeases(queue) \/ j \in taken
  BY <1>1, NewWork DEF LiveLeases
<1>5. \A j \in UnfinishedIn(queue)' : j \in UnfinishedIn(queue) \/ j \in gained
  BY <1>1, NewWork DEF UnfinishedIn
<1>6. Cardinality(LiveLeases(queue)') <= MaxLeases
  <2> DEFINE old == LiveLeases(queue)
             now == LiveLeases(queue)'
  <2>1. \E j : now \subseteq old \/ (now \subseteq old \cup {j} /\ Cardinality(old) < MaxLeases)
    <3>1. ASSUME NEW j \in now, j \notin old
          PROVE  now \subseteq old \cup {j} /\ Cardinality(old) < MaxLeases
      <4>1. taken = {j} /\ RoomFor(j) /\ j \in Jobs
        BY <1>1, <1>3, <1>4, <3>1 DEF Admissible
      <4>2. Subject(j) \in queue
        BY <3>1 DEF LiveLeases
      <4>3. Cardinality(LiveLeases(queue)) < MaxLeases
        BY <4>1, <4>2, QueueOfJob DEF RoomFor
      <4> QED
        BY <1>4, <4>1, <4>3
    <3> HIDE DEF old, now
    <3> QED
      BY <3>1
  <2>2. /\ old \in SUBSET Jobs /\ now \in SUBSET Jobs /\ MaxLeases \in Nat
        /\ Cardinality(old) <= MaxLeases
    BY <1>2, <1>3
  <2> HIDE DEF old, now
  <2>3. Cardinality(now) <= MaxLeases
    BY <2>1, <2>2, CountStays
  <2> QED
    BY <2>3 DEF now
<1>7. OnePerPlace(queue)'
  <2> SUFFICES ASSUME NEW j \in LiveLeases(queue)', NEW k \in LiveLeases(queue)',
                      queue = Captures \/ SameEnvironment(j, k), SameService(j, k)
               PROVE  j = k
    BY DEF OnePerPlace, SameEnvironment, SameService
  <2>1. ASSUME NEW x \in LiveLeases(queue)', NEW y \in LiveLeases(queue), x \in taken,
               queue = Captures \/ SameEnvironment(x, y), SameService(x, y)
        PROVE  FALSE
    <3>1. x \in Jobs /\ RoomFor(x)
      BY <1>1, <1>3, <2>1 DEF Admissible
    <3>2. IsCapture(x) <=> queue = Captures
      BY <3>1, QueueOfJob DEF LiveLeases
    <3> QED
      BY <2>1, <3>1, <3>2 DEF RoomFor, CaptureCapacity, LoadCapacity
  <2>2. CASE j \in taken /\ k \in taken
    BY <1>1, <2>2 DEF Admissible
  <2>3. CASE j \in taken /\ k \in LiveLeases(queue)
    BY <2>1, <2>3
  <2>4. CASE k \in taken /\ j \in LiveLeases(queue)
    BY <2>1, <2>4 DEF SameEnvironment, SameService
  <2>5. CASE j \in LiveLeases(queue) /\ k \in LiveLeases(queue)
    BY <1>2, <2>5 DEF OnePerPlace
  <2> QED
    BY <1>4, <2>2, <2>3, <2>4, <2>5
<1>8. Cardinality(UnfinishedIn(queue)') <= MaxQueued
  <2> DEFINE old == UnfinishedIn(queue)
             now == UnfinishedIn(queue)'
  <2>1. \E j : now \subseteq old \/ (now \subseteq old \cup {j} /\ Cardinality(old) < MaxQueued)
    <3>1. ASSUME NEW j \in now, j \notin old
          PROVE  now \subseteq old \cup {j} /\ Cardinality(old) < MaxQueued
      <4>1. gained = {j} /\ QuotaLeft(QueueOf(j)) /\ j \in Jobs
        BY <1>1, <1>3, <1>5, <3>1 DEF Admissible
      <4>2. Subject(j) \in queue
        BY <3>1 DEF UnfinishedIn
      <4>3. Cardinality(UnfinishedIn(queue)) < MaxQueued
        BY <4>1, <4>2, QueueOfJob DEF QuotaLeft, UnfinishedIn
      <4> QED
        BY <1>5, <4>1, <4>3
    <3> HIDE DEF old, now
    <3> QED
      BY <3>1
  <2>2. /\ old \in SUBSET Jobs /\ now \in SUBSET Jobs /\ MaxQueued \in Nat
        /\ Cardinality(old) <= MaxQueued
    BY <1>2, <1>3
  <2> HIDE DEF old, now
  <2>3. Cardinality(now) <= MaxQueued
    BY <2>1, <2>2, CountStays
  <2> QED
    BY <2>3 DEF now
<1> QED
  BY <1>6, <1>7, <1>8

(* Whatever expires, is renewed, fails or is claimed again, claims keep to *)
(* the leases of a tenant and of a place, and admissions to the quota.     *)
THEOREM LimitsHold == Spec => []WithinLimits
<1>1. Init => WithinLimits
  <2> SUFFICES ASSUME Init PROVE WithinLimits
    OBVIOUS
  <2>1. TypeOK
    BY InitInv DEF Inv
  <2>2. \A j \in Jobs : ~Live(j) /\ ~Unfinished(j)
    BY DEF Init, NoRow, Live, Unfinished, UnfinishedStates
  <2>3. \A queue : LiveLeases(queue) = {} /\ UnfinishedIn(queue) = {}
    BY <2>2 DEF LiveLeases, UnfinishedIn
  <2>4. Cardinality({}) = 0 /\ 0 <= MaxLeases /\ 0 <= MaxQueued
    BY FS_EmptySet, LimitAssumption
  <2> QED
    BY <2>1, <2>3, <2>4 DEF WithinLimits, UnfinishedIn
<1>2. Inv /\ Inv' /\ WithinLimits /\ [Next]_vars => WithinLimits'
  <2> SUFFICES ASSUME Inv, Inv', WithinLimits, [Next]_vars PROVE WithinLimits'
    OBVIOUS
  <2>1. TypeOK'
    BY DEF Inv
  <2> QED
    BY <2>1, LimitsStay DEF WithinLimits, OnePerPlace, UnfinishedIn
<1> QED
  BY <1>1, <1>2, VerificationInvariant, PTL DEF Spec

-----------------------------------------------------------------------------
(* The receipts.                                                           *)

LEMMA StepRecords == Inv /\ [Next]_vars => [ReceiptBook!Next]_receipt
<1> SUFFICES ASSUME Inv, [Next]_vars, receipt' # receipt
             PROVE  ReceiptBook!Next
  OBVIOUS
<1>1. PICK j \in Jobs, d \in Digests :
        /\ receipt[Subject(j)] = None /\ Rests(j)
        /\ receipt' = [receipt EXCEPT ![Subject(j)] = [root |-> JobRoot(j), digest |-> d]]
  BY StepMoves DEF ReceiptsMove
<1> DEFINE r == [root |-> JobRoot(j), digest |-> d]
<1>2. r \in Receipts /\ Subject(j) \in Captures \cup Loads
  BY <1>1, JobShape DEF Rests, Receipts, Subjects
<1>3. CASE Subject(j) \in Captures
  <2>1. ReceiptBook!RecordCapture(Subject(j), r)
    BY <1>1 DEF ReceiptBook!RecordCapture, ReceiptBook!Unverified
  <2> QED
    BY <1>2, <1>3, <2>1 DEF ReceiptBook!Next
<1>4. CASE Subject(j) \notin Captures
  <2>1. receipt[CaptureOf[Subject(j)]] # None
        /\ receipt[CaptureOf[Subject(j)]].root = JobRoot(j)
    BY <1>1, <1>4 DEF Rests, IsCapture, CaptureFor, validByteParent
  <2>2. ReceiptBook!RecordLoad(Subject(j), r)
    BY <1>1, <2>1 DEF ReceiptBook!RecordLoad, ReceiptBook!Unverified
  <2> QED
    BY <1>2, <1>4, <2>2 DEF ReceiptBook!Next
<1> QED
  BY <1>3, <1>4

(* Leases, retries, answers lost or late, and changes of configuration are *)
(* invisible in the two tables of receipts: a receipt is written once, and *)
(* a load's rests on its capture's at the same root.                       *)
THEOREM ReceiptsImplemented == Spec => ImplementsReceipts
<1>1. Init => ReceiptBook!Init
  BY DEF Init, ReceiptBook!Init, Subjects
<1> QED
  BY <1>1, StepRecords, VerificationInvariant, PTL DEF Spec, ImplementsReceipts, ReceiptBook!Spec
=============================================================================
