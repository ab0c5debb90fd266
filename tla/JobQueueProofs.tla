--------------------------- MODULE JobQueueProofs ---------------------------
(***************************************************************************)
(* JobQueue for every value of its constants: the invariants of its rows,  *)
(* and what the rest of the system relies on, which is what the            *)
(* scheduler's checkpoints want, what steps may never do (fill a scope     *)
(* beyond its limits, let a late answer of a worker move a job), and the   *)
(* transition system of the reducer, which the queue implements.           *)
(***************************************************************************)
EXTENDS JobQueue, FiniteSetTheorems, TLAPS

(* What holds of one row by itself.                                        *)
GoodRow(r) ==
  /\ r.supersededBy # NoJob => r.cancel /\ r.state \in {"leased", "superseded"}
  /\ r.state = "superseded" => r.supersededBy # NoJob
  /\ r.code # "none" => r.state \in {"retry_wait", "failed"}
  /\ r.lease > 0 => Leased(r)
  /\ r.cancel => ~Waiting(r) /\ r.state # "succeeded"
  /\ Waiting(r) => r.attempt < MaxAttempts
  /\ Leased(r) => r.attempt > 0
  /\ r.state = "absent" => r = NoRow

GoodRows == \A j \in Jobs : GoodRow(row[j])

(* The inductive invariant.                                                *)
Inv == TypeOK /\ GoodRows /\ RunsOnlyAfterPrerequisites /\ NoStrandedDependent

-----------------------------------------------------------------------------
(* The row writes stay in Rows.                                            *)

LEMMA RetryDelayType ==
  ASSUME NEW n \in 1..MaxAttempts
  PROVE  RetryDelay(n) \in 0..RetryMax
<1>1. n - 1 \in 0..MaxAttempts
  BY LimitAssumption
<1>2. 2^(n - 1) \in Nat /\ RetryBase \in Nat /\ RetryMax \in Nat
  BY <1>1, LimitAssumption
<1>3. \A d \in Nat : RetryBase * d \in Nat
  BY <1>2
<1>4. RetryBase * 2^(n - 1) \in Nat
  BY <1>2, <1>3
<1> DEFINE delay == RetryBase * 2^(n - 1)
<1>5. RetryDelay(n) = IF n > 53 \/ delay > RetryMax THEN RetryMax ELSE delay
  BY DEF RetryDelay
<1> HIDE DEF delay
<1>6. delay \in Nat
  BY <1>4 DEF delay
<1> QED
  BY <1>2, <1>5, <1>6

LEMMA NewRowType == NoRow \in Rows /\ NewRow \in Rows
<1>1. /\ 0 \in 0..MaxAttempts /\ 0 \in 0..LeaseTicks /\ 0 \in 0..RetryMax
      /\ "absent" \in JobStates /\ "queued" \in JobStates
  BY LimitAssumption DEF JobStates, WaitingStates
<1>2. NoRow \in Rows
  BY <1>1 DEF NoRow, Rows, Codes
<1> QED
  BY <1>1, <1>2 DEF NewRow, Rows

LEMMA FieldWrites ==
  /\ \A r \in Rows : \A v \in JobStates : [r EXCEPT !.state = v] \in Rows
  /\ \A r \in Rows : \A v \in 0..MaxAttempts : [r EXCEPT !.attempt = v] \in Rows
  /\ \A r \in Rows : \A v \in BOOLEAN : [r EXCEPT !.cancel = v] \in Rows
  /\ \A r \in Rows : \A v \in Jobs : [r EXCEPT !.supersededBy = v] \in Rows
  /\ \A r \in Rows : \A v \in Codes : [r EXCEPT !.code = v] \in Rows
  /\ \A r \in Rows : \A v \in 0..LeaseTicks : [r EXCEPT !.lease = v] \in Rows
  /\ \A r \in Rows : \A v \in 0..RetryMax : [r EXCEPT !.delay = v] \in Rows
BY DEF Rows

LEMMA Ranges ==
  /\ MaxAttempts \in Nat /\ LeaseTicks \in Nat /\ RetryMax \in Nat
  /\ LeaseTicks > 0 /\ MaxAttempts > 0
  /\ 0 \in 0..LeaseTicks /\ LeaseTicks \in 0..LeaseTicks /\ 0 \in 0..RetryMax
BY LimitAssumption

LEMMA StateNames ==
  /\ TerminalStates \subseteq JobStates /\ WaitingStates \subseteq JobStates
  /\ {"superseded", "cancelled", "retry_wait", "leased"} \subseteq JobStates
  /\ "none" \in Codes
BY DEF JobStates, TerminalStates, FailedStates, WaitingStates, Codes

LEMMA WriteTerminalType ==
  ASSUME NEW r \in Rows, NEW state \in TerminalStates, NEW code \in Codes
  PROVE  WriteTerminal(r, state, code) \in Rows
<1> DEFINE r1 == [r EXCEPT !.state = state]
           r2 == [r1 EXCEPT !.code = code]
           r3 == [r2 EXCEPT !.lease = 0]
<1>1. r1 \in Rows
  BY FieldWrites, StateNames
<1> HIDE DEF r1
<1>2. r2 \in Rows
  BY <1>1, FieldWrites
<1> HIDE DEF r2
<1>3. r3 \in Rows
  BY <1>2, Ranges, FieldWrites
<1> HIDE DEF r3
<1>4. [r3 EXCEPT !.delay = 0] \in Rows
  BY <1>3, Ranges, FieldWrites
<1> QED
  BY <1>4 DEF WriteTerminal, r1, r2, r3

LEMMA WriteRetryType ==
  ASSUME NEW r \in Rows, NEW code \in Codes, r.attempt > 0
  PROVE  WriteRetry(r, code) \in Rows
<1> DEFINE r1 == [r EXCEPT !.state = "retry_wait"]
           r2 == [r1 EXCEPT !.code = code]
           r3 == [r2 EXCEPT !.lease = 0]
<1>1. r1 \in Rows
  BY FieldWrites, StateNames
<1> HIDE DEF r1
<1>2. r2 \in Rows
  BY <1>1, FieldWrites
<1> HIDE DEF r2
<1>3. r3 \in Rows
  BY <1>2, Ranges, FieldWrites
<1> HIDE DEF r3
<1>4. RetryDelay(r.attempt) \in 0..RetryMax
  BY RetryDelayType, Ranges DEF Rows
<1>5. [r3 EXCEPT !.delay = RetryDelay(r.attempt)] \in Rows
  BY <1>3, <1>4, FieldWrites
<1> QED
  BY <1>5 DEF WriteRetry, r1, r2, r3

LEMMA WriteClaimType ==
  ASSUME NEW r \in Rows, r.attempt < MaxAttempts
  PROVE  WriteClaim(r) \in Rows
<1> DEFINE r1 == [r EXCEPT !.state = "leased"]
           r2 == [r1 EXCEPT !.attempt = r1.attempt + 1]
           r3 == [r2 EXCEPT !.code = "none"]
<1>1. r1 \in Rows /\ r1.attempt = r.attempt
  BY FieldWrites, StateNames DEF Rows
<1> HIDE DEF r1
<1>2. r1.attempt + 1 \in 0..MaxAttempts
  BY <1>1, Ranges DEF Rows
<1>3. r2 \in Rows
  BY <1>1, <1>2, FieldWrites
<1> HIDE DEF r2
<1>4. r3 \in Rows
  BY <1>3, StateNames, FieldWrites
<1> HIDE DEF r3
<1>5. [r3 EXCEPT !.lease = LeaseTicks] \in Rows
  BY <1>4, Ranges, FieldWrites
<1> QED
  BY <1>5 DEF WriteClaim, r1, r2, r3

LEMMA ScheduleWriteTypes ==
  ASSUME NEW r \in Rows, NEW next \in Jobs
  PROVE  /\ persistSupersede(r, next) \in Rows
         /\ persistCancel(r) \in Rows
         /\ WriteCancelRequest(r) \in Rows
<1>1. ASSUME NEW state \in JobStates
      PROVE  Write(r, state) \in Rows
  <2> DEFINE r1 == [r EXCEPT !.state = state]
  <2>1. r1 \in Rows /\ [r EXCEPT !.cancel = TRUE] \in Rows
    BY FieldWrites
  <2> HIDE DEF r1
  <2>2. [r1 EXCEPT !.delay = 0] \in Rows
    BY <2>1, Ranges, FieldWrites
  <2> QED
    BY <2>1, <2>2 DEF Write, r1
<1>2. Write(r, "superseded") \in Rows /\ Write(r, "cancelled") \in Rows
  BY <1>1, StateNames
<1> DEFINE w  == Write(r, "superseded")
           w1 == [w EXCEPT !.cancel = TRUE]
<1> HIDE DEF w
<1>3. w1 \in Rows
  BY <1>2, FieldWrites DEF w
<1> HIDE DEF w1
<1>4. [w1 EXCEPT !.supersededBy = next] \in Rows
  BY <1>3, FieldWrites
<1> QED
  BY <1>2, <1>4, FieldWrites
  DEF persistSupersede, persistCancel, WriteCancelRequest, w, w1

-----------------------------------------------------------------------------
(* The walk of planTerminalDependents.                                     *)

LEMMA WalkIsClosed ==
  ASSUME NEW roots \in SUBSET Jobs,
         NEW p \in roots \cup TerminalDependents(roots),
         p \in roots \/ Conducts(row[p]),
         NEW j \in Jobs, p \in PrerequisitesOf[j]
  PROVE  j \in roots \cup TerminalDependents(roots)
<1> SUFFICES ASSUME j \notin roots
             PROVE  j \in TerminalDependents(roots)
  OBVIOUS
<1> SUFFICES ASSUME NEW S \in SUBSET Jobs, roots \subseteq S,
                    ClosedUnderFailure(S, roots)
             PROVE  j \in S
  BY DEF TerminalDependents
<1>1. p \in S
  BY DEF TerminalDependents
<1> QED
  BY <1>1 DEF ClosedUnderFailure

LEMMA WalkFromLeaves ==
  ASSUME NEW roots \in SUBSET Jobs,
         \A p \in roots : \A j \in Jobs : p \notin PrerequisitesOf[j]
  PROVE  TerminalDependents(roots) = {}
<1>1. ClosedUnderFailure(roots, roots)
  BY DEF ClosedUnderFailure
<1> QED
  BY <1>1 DEF TerminalDependents

-----------------------------------------------------------------------------
(* What one transaction may do to the row of j: s is the row it leaves.    *)

GoodStep(j, s) ==
  /\ s \in Rows
  /\ GoodRow(s)
  /\ row[j].state \in TerminalStates => s.state = row[j].state
  /\ s.state = "absent" => row[j].state = "absent"
  /\ s.attempt > 0 \/ Leased(s) \/ s.state = "succeeded" => readyPrerequisites(j)

LEMMA NoStep ==
  ASSUME Inv, NEW j \in Jobs
  PROVE  GoodStep(j, row[j])
BY DEF Inv, TypeOK, GoodRows, RunsOnlyAfterPrerequisites, GoodStep

LEMMA InsertStep ==
  ASSUME Inv, NEW j \in Jobs, row[j].state = "absent"
  PROVE  GoodStep(j, NewRow)
<1>1. GoodRow(NewRow)
  BY LimitAssumption
  DEF GoodRow, NewRow, NoRow, Leased, Waiting, WaitingStates
<1> QED
  BY <1>1, NewRowType
  DEF GoodStep, NewRow, NoRow, Leased, TerminalStates, FailedStates

(* Ending a job without success.                                           *)
LEMMA TerminalStep ==
  ASSUME Inv, NEW j \in Jobs, Unfinished(row[j]),
         NEW state \in FailedStates, NEW code \in Codes,
         state = "superseded" <=> row[j].supersededBy # NoJob,
         code # "none" => state = "failed"
  PROVE  GoodStep(j, WriteTerminal(row[j], state, code))
<1> DEFINE r == row[j]
           s == WriteTerminal(r, state, code)
<1>1. r \in Rows /\ GoodRow(r)
  BY DEF Inv, TypeOK, GoodRows
<1>2. s \in Rows
  BY <1>1, WriteTerminalType DEF TerminalStates
<1>3. /\ s.state = state /\ s.code = code /\ s.lease = 0
      /\ s.attempt = r.attempt /\ s.cancel = r.cancel
      /\ s.supersededBy = r.supersededBy
  BY <1>1 DEF WriteTerminal, Rows
<1>4. /\ s.state \notin {"absent", "queued", "retry_wait", "leased", "succeeded"}
  BY <1>3 DEF FailedStates
<1> HIDE DEF s
<1>5. GoodRow(s)
  BY <1>1, <1>3, <1>4 DEF GoodRow, Leased, Waiting, WaitingStates
<1>6. r.attempt > 0 => readyPrerequisites(j)
  BY DEF Inv, RunsOnlyAfterPrerequisites
<1>7. r.state \notin TerminalStates
  BY DEF Unfinished, Waiting, WaitingStates, Leased, TerminalStates, FailedStates
<1>8. GoodStep(j, s)
  BY <1>2, <1>3, <1>4, <1>5, <1>6, <1>7 DEF GoodStep, Leased
<1> QED
  BY <1>8 DEF s

LEMMA RequestedStep ==
  ASSUME Inv, NEW j \in Jobs, Unfinished(row[j]), NEW d \in BOOLEAN,
         terminalState(row[j], d) # "none"
  PROVE  /\ GoodStep(j, WriteRequested(row[j], d))
         /\ WriteRequested(row[j], d).state \in FailedStates
<1> DEFINE state == terminalState(row[j], d)
           code  == IF state = "failed" THEN "dependency" ELSE "none"
<1>1. state \in FailedStates /\ code \in Codes
  BY DEF terminalState, FailedStates, Codes
<1>2. state = "superseded" <=> row[j].supersededBy # NoJob
  BY DEF terminalState
<1>3. row[j] \in Rows
  BY DEF Inv, TypeOK
<1>4. WriteRequested(row[j], d) = WriteTerminal(row[j], state, code)
  BY DEF WriteRequested
<1> HIDE DEF state
<1>5. GoodStep(j, WriteTerminal(row[j], state, code))
  BY <1>1, <1>2, TerminalStep
<1>6. WriteTerminal(row[j], state, code).state = state
  BY <1>3 DEF WriteTerminal, Rows
<1> QED
  BY <1>1, <1>4, <1>5, <1>6

LEMMA CancelRequestStep ==
  ASSUME Inv, NEW j \in Jobs, Leased(row[j])
  PROVE  /\ GoodStep(j, WriteCancelRequest(row[j]))
         /\ WriteCancelRequest(row[j]).state = "leased"
<1> DEFINE r == row[j]
           s == WriteCancelRequest(r)
<1>1. r \in Rows /\ GoodRow(r) /\ r.state = "leased"
  BY DEF Inv, TypeOK, GoodRows, Leased
<1>2. s \in Rows
  BY <1>1, FieldWrites DEF WriteCancelRequest
<1>3. /\ s.state = "leased" /\ s.code = r.code /\ s.lease = r.lease
      /\ s.attempt = r.attempt /\ s.cancel = TRUE
      /\ s.supersededBy = r.supersededBy
  BY <1>1 DEF WriteCancelRequest, Rows
<1> HIDE DEF s
<1>4. GoodRow(s)
  BY <1>1, <1>3 DEF GoodRow, Leased, Waiting, WaitingStates
<1>5. readyPrerequisites(j)
  BY <1>1 DEF Inv, RunsOnlyAfterPrerequisites, Leased
<1>6. GoodStep(j, s) /\ s.state = "leased"
  BY <1>1, <1>2, <1>3, <1>4, <1>5 DEF GoodStep, TerminalStates, FailedStates
<1> QED
  BY <1>6 DEF s

LEMMA RetryStep ==
  ASSUME Inv, NEW j \in Jobs, Leased(row[j]), NEW code \in Codes,
         terminalState(row[j], failedPrerequisite(j)) = "none", ~Exhausted(j)
  PROVE  /\ GoodStep(j, WriteRetry(row[j], code))
         /\ WriteRetry(row[j], code).state = "retry_wait"
<1> DEFINE r == row[j]
           s == WriteRetry(r, code)
<1>1. r \in Rows /\ GoodRow(r) /\ r.state = "leased"
  BY DEF Inv, TypeOK, GoodRows, Leased
<1>2. readyPrerequisites(j)
  BY <1>1 DEF Inv, RunsOnlyAfterPrerequisites, Leased
<1>3. r.attempt < MaxAttempts
  BY <1>1, Ranges DEF Exhausted, Rows
<1>4. r.attempt > 0
  BY <1>1 DEF GoodRow, Leased
<1>5. r.supersededBy = NoJob /\ r.cancel = FALSE
  BY <1>1 DEF terminalState, Rows
<1>6. s \in Rows
  BY <1>1, <1>4, WriteRetryType
<1>7. /\ s.state = "retry_wait" /\ s.code = code /\ s.lease = 0
      /\ s.attempt = r.attempt /\ s.cancel = r.cancel
      /\ s.supersededBy = r.supersededBy
  BY <1>1 DEF WriteRetry, Rows
<1> HIDE DEF s
<1>8. GoodRow(s)
  BY <1>3, <1>5, <1>7 DEF GoodRow, Leased, Waiting, WaitingStates
<1>9. GoodStep(j, s) /\ s.state = "retry_wait"
  BY <1>1, <1>2, <1>6, <1>7, <1>8 DEF GoodStep, TerminalStates, FailedStates
<1> QED
  BY <1>9 DEF s

LEMMA ClaimStep ==
  ASSUME Inv, NEW j \in Claimable
  PROVE  GoodStep(j, WriteClaim(row[j])) /\ WriteClaim(row[j]).state = "leased"
<1> DEFINE r == row[j]
           s == WriteClaim(r)
<1>1. /\ j \in Jobs /\ Waiting(r) /\ readyPrerequisites(j)
      /\ ~Requested(j) /\ ~Exhausted(j)
  BY DEF Claimable, Due, Doomed
<1>2. r \in Rows /\ GoodRow(r)
  BY <1>1 DEF Inv, TypeOK, GoodRows
<1>3. r.attempt < MaxAttempts
  BY <1>1, <1>2, Ranges DEF Exhausted, Rows
<1>4. r.supersededBy = NoJob /\ r.cancel = FALSE
  BY <1>1, <1>2 DEF Requested, terminalState, Rows
<1>5. s \in Rows
  BY <1>2, <1>3, WriteClaimType
<1>6. /\ s.state = "leased" /\ s.code = "none" /\ s.attempt = r.attempt + 1
      /\ s.cancel = r.cancel /\ s.supersededBy = r.supersededBy
  BY <1>2 DEF WriteClaim, Rows
<1>7. s.attempt > 0
  BY <1>2, <1>6, Ranges DEF Rows
<1> HIDE DEF s
<1>8. GoodRow(s)
  BY <1>4, <1>6, <1>7 DEF GoodRow, Leased, Waiting, WaitingStates
<1>9. GoodStep(j, s) /\ s.state = "leased"
  BY <1>1, <1>5, <1>6, <1>8
  DEF GoodStep, Waiting, WaitingStates, TerminalStates, FailedStates
<1> QED
  BY <1>9 DEF s

LEMMA SupersedeStep ==
  ASSUME Inv, NEW j \in Jobs, Unfinished(row[j]), NEW next \in Jobs,
         CodeCheckPasses({j})
  PROVE  /\ GoodStep(j, persistSupersede(row[j], next))
         /\ Waiting(row[j]) => persistSupersede(row[j], next).state = "superseded"
         /\ Leased(row[j]) => persistSupersede(row[j], next).state = "leased"
<1> DEFINE r == row[j]
           s == persistSupersede(r, next)
<1>1. r \in Rows /\ GoodRow(r)
  BY DEF Inv, TypeOK, GoodRows
<1>2. s \in Rows
  BY <1>1, ScheduleWriteTypes
<1>3. Waiting(r) => r.code = "none" /\ r.lease = 0 /\ ~Leased(r)
  BY <1>1, Ranges DEF CodeCheckPasses, GoodRow, Rows, Leased, Waiting, WaitingStates
<1>4. /\ s.cancel = TRUE /\ s.supersededBy = next /\ s.attempt = r.attempt
      /\ s.code = r.code /\ s.lease = r.lease
      /\ s.state = IF Leased(r) THEN "leased" ELSE "superseded"
  BY <1>1 DEF persistSupersede, Write, Rows, Leased
<1>5. next # NoJob
  BY ScopeAssumption
<1> HIDE DEF s
<1>6. GoodRow(s)
  BY <1>1, <1>3, <1>4, <1>5
  DEF GoodRow, Leased, Waiting, WaitingStates, Unfinished
<1>7. r.attempt > 0 \/ Leased(r) => readyPrerequisites(j)
  BY DEF Inv, RunsOnlyAfterPrerequisites
<1>8. r.state \notin TerminalStates
  BY DEF Unfinished, Waiting, WaitingStates, Leased, TerminalStates, FailedStates
<1>9. /\ GoodStep(j, s)
      /\ Waiting(r) => s.state = "superseded"
      /\ Leased(r) => s.state = "leased"
  BY <1>2, <1>3, <1>4, <1>6, <1>7, <1>8 DEF GoodStep, Leased
<1> QED
  BY <1>9 DEF s

(* Both cancellations: the scheduler's leaves the flag of a waiting row    *)
(* alone, the operator's sets it.                                          *)
LEMMA CancelStep ==
  ASSUME Inv, NEW j \in Jobs, Unfinished(row[j]), CodeCheckPasses({j}),
         NEW s, s \in {persistCancel(row[j]),
                      [persistCancel(row[j]) EXCEPT !.cancel = TRUE]}
  PROVE  /\ GoodStep(j, s)
         /\ Waiting(row[j]) => s.state = "cancelled"
         /\ Leased(row[j]) => s.state = "leased"
<1> DEFINE r == row[j]
<1>1. r \in Rows /\ GoodRow(r)
  BY DEF Inv, TypeOK, GoodRows
<1>2. s \in Rows
  BY <1>1, ScheduleWriteTypes, FieldWrites
<1>3. Waiting(r) => r.code = "none" /\ r.lease = 0 /\ ~Leased(r)
                    /\ r.supersededBy = NoJob
  BY <1>1, Ranges DEF CodeCheckPasses, GoodRow, Rows, Leased, Waiting, WaitingStates
<1>4. /\ s.supersededBy = r.supersededBy /\ s.attempt = r.attempt
      /\ s.code = r.code /\ s.lease = r.lease
      /\ s.state = IF Leased(r) THEN "leased" ELSE "cancelled"
      /\ Leased(r) => s.cancel = TRUE
  BY <1>1 DEF persistCancel, Write, Rows, Leased
<1>5. GoodRow(s)
  BY <1>1, <1>3, <1>4 DEF GoodRow, Leased, Waiting, WaitingStates, Unfinished
<1>6. r.attempt > 0 \/ Leased(r) => readyPrerequisites(j)
  BY DEF Inv, RunsOnlyAfterPrerequisites
<1>7. r.state \notin TerminalStates
  BY DEF Unfinished, Waiting, WaitingStates, Leased, TerminalStates, FailedStates
<1> QED
  BY <1>2, <1>3, <1>4, <1>5, <1>6, <1>7 DEF GoodStep, Leased

-----------------------------------------------------------------------------
(* From the rows a transaction leaves to the invariant.                    *)

GoodPlan(planned) ==
  /\ planned = [j \in Jobs |-> planned[j]]
  /\ \A j \in Jobs : GoodStep(j, planned[j])

LEMMA DependentsStep ==
  ASSUME Inv, NEW roots \in SUBSET Jobs, NEW planned, GoodPlan(planned)
  PROVE  GoodPlan(WithDependents(roots, planned))
<1> SUFFICES ASSUME NEW j \in Jobs
             PROVE  GoodStep(j, WithDependents(roots, planned)[j])
  BY DEF GoodPlan, WithDependents
<1>1. CASE j \in TerminalDependents(roots) /\ Waiting(row[j])
  <2>1. terminalState(row[j], TRUE) # "none"
    BY <1>1 DEF Inv, TypeOK, Rows, terminalState
  <2>2. GoodStep(j, WriteRequested(row[j], TRUE))
    BY <1>1, <2>1, RequestedStep DEF Unfinished
  <2> QED
    BY <1>1, <2>2 DEF WithDependents
<1>2. CASE j \in TerminalDependents(roots) /\ ~Waiting(row[j]) /\ Leased(row[j])
  BY <1>2, CancelRequestStep DEF WithDependents
<1>3. CASE ~(j \in TerminalDependents(roots) /\ (Waiting(row[j]) \/ Leased(row[j])))
  BY <1>3 DEF WithDependents, GoodPlan
<1> QED
  BY <1>1, <1>2, <1>3

(* Every conjunct but NoStrandedDependent follows row by row.              *)
LEMMA StepKeepsRows ==
  ASSUME Inv, GoodPlan(row')
  PROVE  /\ row' \in [Jobs -> Rows]
         /\ GoodRows'
         /\ RunsOnlyAfterPrerequisites'
<1>1. row' \in [Jobs -> Rows]
  BY DEF GoodPlan, GoodStep
<1>2. GoodRows'
  BY DEF GoodPlan, GoodStep, GoodRows, GoodRow, Leased, Waiting
<1>3. ASSUME NEW j \in Jobs, readyPrerequisites(j)
      PROVE  readyPrerequisites(j)'
  BY <1>3, DependencyAssumption
  DEF GoodPlan, GoodStep, readyPrerequisites, TerminalStates
<1>4. RunsOnlyAfterPrerequisites'
  BY <1>3 DEF GoodPlan, GoodStep, RunsOnlyAfterPrerequisites, Leased
<1> QED
  BY <1>1, <1>2, <1>4

(* The walk leaves no dependent of an ended job behind, when the roots are *)
(* the jobs the transaction itself ends and the jobs it inserts depend on  *)
(* none of them.                                                           *)
LEMMA StepKeepsDependents ==
  ASSUME Inv, NEW roots \in SUBSET Jobs, NEW planned, GoodPlan(planned),
         row' = WithDependents(roots, planned),
         \A j \in roots : planned[j].state \in FailedStates,
         \A j \in Jobs \ roots : planned[j].state \in FailedStates
                              => row[j].state \in FailedStates,
         \A j \in Jobs : row[j].state = "absent" /\ planned[j].state # "absent"
            => \A p \in PrerequisitesOf[j] : row'[p].state \notin FailedStates
  PROVE  NoStrandedDependent'
<1> SUFFICES ASSUME NEW j \in Jobs, NEW p \in PrerequisitesOf[j],
                    row'[p].state \in FailedStates, row'[j].state # "absent"
             PROVE  row'[j].state \in FailedStates
  BY DEF NoStrandedDependent, failedPrerequisite
<1> DEFINE reached == TerminalDependents(roots)
<1>0. p \in Jobs
  BY DependencyAssumption
<1>1. GoodPlan(row')
  BY DependentsStep
<1>2. GoodStep(j, row'[j]) /\ GoodStep(p, row'[p])
  BY <1>0, <1>1 DEF GoodPlan
<1>3. \A i \in Jobs : row'[i] =
        IF i \in reached /\ Waiting(row[i]) THEN WriteRequested(row[i], TRUE)
        ELSE IF i \in reached /\ Leased(row[i]) THEN WriteCancelRequest(row[i])
        ELSE planned[i]
  BY DEF WithDependents
<1>4. row[j].state # "absent"
  <2> SUFFICES ASSUME row[j].state = "absent" PROVE FALSE
    OBVIOUS
  <2>1. row'[j] = planned[j]
    BY <1>3 DEF Waiting, WaitingStates, Leased
  <2> QED
    BY <2>1
<1>5. row[j].state \in FailedStates => row'[j].state \in FailedStates
  BY <1>2 DEF GoodStep, TerminalStates
<1>6. CASE row[p].state \in FailedStates
  BY <1>4, <1>5, <1>6 DEF Inv, NoStrandedDependent, failedPrerequisite
<1>7. CASE row[p].state \notin FailedStates
  <2>1. row[p].state # "succeeded"
    BY <1>2 DEF GoodStep, TerminalStates, FailedStates
  <2>2. p \in roots \/ (p \in reached /\ Waiting(row[p]))
    <3> SUFFICES ASSUME p \notin roots, ~(p \in reached /\ Waiting(row[p]))
                 PROVE  FALSE
      OBVIOUS
    <3>1. CASE p \in reached /\ Leased(row[p])
      <4>1. row'[p] = WriteCancelRequest(row[p])
        BY <1>0, <1>3, <3>1
      <4> QED
        BY <1>0, <3>1, <4>1, CancelRequestStep DEF FailedStates
    <3>2. CASE ~(p \in reached /\ Leased(row[p]))
      BY <1>0, <1>3, <1>7, <3>2
    <3> QED
      BY <3>1, <3>2
  <2>3. p \in roots \/ Conducts(row[p])
    BY <2>2 DEF Conducts, Waiting, WaitingStates, Leased
  <2>4. j \in roots \cup reached
    BY <2>2, <2>3, WalkIsClosed
  <2>5. ~readyPrerequisites(j)
    BY <2>1 DEF readyPrerequisites
  <2>6. ~Leased(row[j]) /\ row[j].state # "succeeded"
    BY <2>5 DEF Inv, RunsOnlyAfterPrerequisites
  <2>7. row[j].state \in WaitingStates \cup FailedStates
    BY <1>4, <2>6 DEF Inv, TypeOK, Rows, JobStates, TerminalStates, Leased
  <2>8. CASE j \in roots
    BY <1>3, <2>8 DEF TerminalDependents
  <2>9. CASE j \in reached /\ Waiting(row[j])
    <3>1. terminalState(row[j], TRUE) # "none"
      BY DEF Inv, TypeOK, Rows, terminalState
    <3> QED
      BY <1>3, <2>9, <3>1, RequestedStep DEF Unfinished
  <2> QED
    BY <1>5, <2>4, <2>7, <2>8, <2>9 DEF Waiting
<1> QED
  BY <1>6, <1>7

LEMMA NoRoots ==
  ASSUME NEW planned, GoodPlan(planned)
  PROVE  WithDependents({}, planned) = planned
<1>1. TerminalDependents({}) = {}
  BY WalkFromLeaves
<1> QED
  BY <1>1 DEF WithDependents, GoodPlan

(* A transaction that ends no job without success and inserts none.        *)
LEMMA QuietStep ==
  ASSUME Inv, GoodPlan(row'),
         \A j \in Jobs : row'[j].state \in FailedStates => row[j].state \in FailedStates,
         \A j \in Jobs : row[j].state = "absent" => row'[j].state = "absent"
  PROVE  NoStrandedDependent'
<1>1. PICK planned : planned = row'
  OBVIOUS
<1>2. PICK roots : roots = {}
  OBVIOUS
<1>3. roots \in SUBSET Jobs /\ GoodPlan(planned)
  BY <1>1, <1>2
<1>4. row' = WithDependents(roots, planned)
  BY <1>1, <1>2, <1>3, NoRoots
<1>5. /\ \A j \in roots : planned[j].state \in FailedStates
      /\ \A j \in Jobs \ roots : planned[j].state \in FailedStates
                              => row[j].state \in FailedStates
      /\ \A j \in Jobs : row[j].state = "absent" /\ planned[j].state # "absent"
            => \A p \in PrerequisitesOf[j] : row'[p].state \notin FailedStates
  BY <1>1, <1>2
<1> QED
  BY <1>3, <1>4, <1>5, StepKeepsDependents

-----------------------------------------------------------------------------
(* The actions.                                                            *)

Steps == GoodPlan(row') /\ NoStrandedDependent'

LEMMA SuccessorExists ==
  ASSUME NEW new, NEW j, \E n \in new : SubjectOf[n] = SubjectOf[j]
  PROVE  Successor(new, j) \in new
BY DEF Successor

LEMMA ScheduledJobsStep ==
  ASSUME Inv,
         NEW new \in SUBSET Jobs, NEW superseded \in SUBSET Jobs,
         NEW cancelled \in SUBSET Jobs,
         persistScheduledJobs(new, superseded, cancelled),
         superseded \cap cancelled = {},
         \A n \in new : row[n].state = "absent",
         \A j \in superseded \cup cancelled : Unfinished(row[j]),
         \A j \in superseded : \E n \in new : SubjectOf[n] = SubjectOf[j],
         \A n \in new : \A p \in PrerequisitesOf[n] :
           /\ p \notin superseded \cup cancelled
           /\ p \in new \/ row[p].state = "succeeded" \/ Unfinished(row[p]),
         \/ \A n \in new : PrerequisitesOf[n] = {}
         \/ \A j \in superseded \cup cancelled : SubjectOf[j] \in ProviderSubjects
  PROVE  Steps
<1> DEFINE targets == superseded \cup cancelled
           roots == {j \in targets : Waiting(row[j])}
           planned == [j \in Jobs |->
                        CASE j \in new        -> NewRow
                          [] j \in superseded -> persistSupersede(row[j], Successor(new, j))
                          [] j \in cancelled  -> persistCancel(row[j])
                          [] OTHER            -> row[j]]
<1>1. CodeCheckPasses(targets) /\ row' = WithDependents(roots, planned)
  BY DEF persistScheduledJobs
<1>2. \A j \in targets : j \notin new
  BY DEF Unfinished, Waiting, WaitingStates, Leased
<1>3. ASSUME NEW j \in Jobs
      PROVE  /\ GoodStep(j, planned[j])
             /\ j \in roots => planned[j].state \in FailedStates
             /\ j \notin roots /\ planned[j].state \in FailedStates
                  => row[j].state \in FailedStates
             /\ row[j].state = "absent" /\ planned[j].state # "absent" => j \in new
  <2>1. CASE j \in new
    <3>1. planned[j] = NewRow /\ row[j].state = "absent" /\ j \notin roots
      BY <1>2, <2>1
    <3>2. NewRow.state = "queued"
      BY DEF NewRow, NoRow
    <3> HIDE DEF planned, roots
    <3> QED
      BY <2>1, <3>1, <3>2, InsertStep DEF FailedStates
  <2>2. CASE j \in superseded
    <3>0. j \in targets /\ j \notin new /\ j \notin cancelled
      BY <1>2, <2>2
    <3>1. Successor(new, j) \in Jobs
      BY <2>2, SuccessorExists
    <3>2. planned[j] = persistSupersede(row[j], Successor(new, j))
      BY <3>0, <2>2
    <3>3. CodeCheckPasses({j}) /\ Unfinished(row[j])
      BY <1>1, <2>2 DEF CodeCheckPasses
    <3>4. row[j].state \notin {"absent"}
      BY <3>3 DEF Unfinished, Waiting, WaitingStates, Leased
    <3> HIDE DEF planned
    <3> QED
      BY <2>2, <3>1, <3>2, <3>3, <3>4, SupersedeStep
      DEF FailedStates, Unfinished
  <2>3. CASE j \in cancelled /\ j \notin superseded
    <3>1. planned[j] = persistCancel(row[j])
      BY <1>2, <2>3
    <3>2. CodeCheckPasses({j}) /\ Unfinished(row[j])
      BY <1>1, <2>3 DEF CodeCheckPasses
    <3>3. row[j].state \notin {"absent"}
      BY <3>2 DEF Unfinished, Waiting, WaitingStates, Leased
    <3> HIDE DEF planned
    <3> QED
      BY <2>3, <3>1, <3>2, <3>3, CancelStep DEF FailedStates, Unfinished
  <2>4. CASE j \notin new /\ j \notin targets
    <3>1. planned[j] = row[j]
      BY <2>4
    <3> QED
      BY <2>4, <3>1, NoStep
  <2> QED
    BY <2>1, <2>2, <2>3, <2>4
<1>4. GoodPlan(planned)
  BY <1>3 DEF GoodPlan
<1>5. GoodPlan(row')
  BY <1>1, <1>4, DependentsStep
<1>6. ASSUME NEW n \in new, NEW p \in PrerequisitesOf[n]
      PROVE  row'[p].state \notin FailedStates
  <2>1. p \in Jobs
    BY DependencyAssumption
  <2>2. \A j \in targets : SubjectOf[j] \in ProviderSubjects
    BY <1>6
  <2>3. TerminalDependents(roots) = {}
    BY <2>2, WalkFromLeaves, DependencyAssumption
  <2>4. row'[p] = planned[p]
    BY <1>1, <2>1, <2>3 DEF WithDependents
  <2>5. CASE p \in new
    BY <2>1, <2>4, <2>5 DEF NewRow, NoRow, FailedStates
  <2>6. CASE p \notin new
    <3>1. row'[p] = row[p]
      BY <2>1, <2>4, <2>6
    <3> QED
      BY <2>6, <3>1
      DEF Unfinished, Waiting, WaitingStates, Leased, FailedStates
  <2> QED
    BY <2>5, <2>6
<1>7. NoStrandedDependent'
  <2>1. roots \in SUBSET Jobs
    OBVIOUS
  <2> HIDE DEF planned, roots
  <2>2. \A j \in roots : planned[j].state \in FailedStates
    BY <1>3, <2>1
  <2>3. \A j \in Jobs \ roots : planned[j].state \in FailedStates
                              => row[j].state \in FailedStates
    BY <1>3
  <2>4. \A j \in Jobs : row[j].state = "absent" /\ planned[j].state # "absent"
           => \A p \in PrerequisitesOf[j] : row'[p].state \notin FailedStates
    BY <1>3, <1>6
  <2> QED
    BY <1>1, <1>4, <2>1, <2>2, <2>3, <2>4, StepKeepsDependents
<1> QED
  BY <1>5, <1>7 DEF Steps

LEMMA CurrentJobs ==
  ASSUME NEW subject
  PROVE  /\ Current(subject) \in SUBSET Jobs
         /\ \A j \in Current(subject) : SubjectOf[j] = subject /\ Unfinished(row[j])
BY DEF Current, Wanted

LEMMA ScheduleStep ==
  ASSUME Inv, NEW new \in SUBSET Jobs, ScheduleJobs(new)
  PROVE  Steps
<1> DEFINE superseded == UNION {Current(SubjectOf[n]) : n \in new}
<1>1. Schedulable(new, active) /\ persistScheduledJobs(new, superseded, {})
  BY DEF ScheduleJobs
<1>2. /\ superseded \in SUBSET Jobs
      /\ \A j \in superseded : Unfinished(row[j])
      /\ \A j \in superseded : \E n \in new :
           SubjectOf[n] = SubjectOf[j] /\ j \in Current(SubjectOf[n])
  BY CurrentJobs
<1>3. \A j \in superseded : SubjectOf[j] \in ProviderSubjects
  BY <1>1, <1>2 DEF Schedulable
<1>4. \A n \in new : \A p \in PrerequisitesOf[n] :
        /\ p \notin superseded
        /\ p \in new \/ row[p].state = "succeeded" \/ Unfinished(row[p])
  <2> SUFFICES ASSUME NEW n \in new, NEW p \in PrerequisitesOf[n]
               PROVE  /\ p \notin superseded
                      /\ p \in new \/ row[p].state = "succeeded" \/ Unfinished(row[p])
    OBVIOUS
  <2>1. SubjectOf[p] \notin ProviderSubjects
    BY DependencyAssumption
  <2>2. p \notin superseded
    BY <1>3, <2>1
  <2> HIDE DEF superseded
  <2> QED
    BY <1>1, <2>2 DEF Schedulable, Wanted
<1>5. \A n \in new : row[n].state = "absent"
  BY <1>1 DEF Schedulable
<1> HIDE DEF superseded
<1>6. \A j \in superseded : \E n \in new : SubjectOf[n] = SubjectOf[j]
  BY <1>2
<1> QED
  BY <1>1, <1>2, <1>3, <1>4, <1>5, <1>6, ScheduledJobsStep

LEMMA CloseStep ==
  ASSUME Inv, NEW subject, CloseSubject(subject)
  PROVE  Steps
<1>1. persistScheduledJobs({}, {}, Current(subject))
  BY DEF CloseSubject
<1> QED
  BY <1>1, CurrentJobs, ScheduledJobsStep

LEMMA ActivateStep ==
  ASSUME Inv, NEW c, NEW new \in SUBSET Jobs, ActivateConfiguration(c, new)
  PROVE  Steps
<1> DEFINE superseded == UNION {Current(SubjectOf[n]) : n \in new}
           cancelled == {j \in Jobs : Wanted(row[j])} \ superseded
<1>1. /\ persistScheduledJobs(new, superseded, cancelled)
      /\ new = {} \/ Schedulable(new, c)
      /\ \A n \in new : PrerequisitesOf[n] = {}
  BY DEF ActivateConfiguration
<1>2. /\ superseded \in SUBSET Jobs
      /\ \A j \in superseded : Unfinished(row[j])
      /\ \A j \in superseded : \E n \in new : SubjectOf[n] = SubjectOf[j]
  BY CurrentJobs
<1>3. /\ cancelled \in SUBSET Jobs /\ superseded \cap cancelled = {}
      /\ \A j \in cancelled : Unfinished(row[j])
  BY DEF Wanted
<1>4. \A n \in new : row[n].state = "absent"
  BY <1>1 DEF Schedulable
<1> HIDE DEF superseded, cancelled
<1> QED
  BY <1>1, <1>2, <1>3, <1>4, ScheduledJobsStep

(* A transaction whose roots are the jobs it ends, and that inserts none.  *)
LEMMA TransactionStep ==
  ASSUME Inv, NEW roots \in SUBSET Jobs, NEW planned, GoodPlan(planned),
         row' = WithDependents(roots, planned),
         \A j \in roots : planned[j].state \in FailedStates,
         \A j \in Jobs \ roots :
           /\ planned[j].state \in FailedStates => row[j].state \in FailedStates
           /\ row[j].state = "absent" => planned[j].state = "absent",
         \A j \in roots : row[j].state # "absent"
  PROVE  Steps
<1>1. GoodPlan(row')
  BY DependentsStep
<1>2. \A j \in Jobs : ~(row[j].state = "absent" /\ planned[j].state # "absent")
  OBVIOUS
<1>3. NoStrandedDependent'
  BY <1>2, StepKeepsDependents
<1> QED
  BY <1>1, <1>3 DEF Steps

LEMMA CancelJobStep ==
  ASSUME Inv, NEW j \in Jobs, CancelJob(j)
  PROVE  Steps
<1> DEFINE roots == IF Waiting(row[j]) THEN {j} ELSE {}
           s == [persistCancel(row[j]) EXCEPT !.cancel = TRUE]
           planned == [row EXCEPT ![j] = s]
<1>1. /\ Unfinished(row[j]) /\ CodeCheckPasses({j})
      /\ row' = WithDependents(roots, planned)
  BY DEF CancelJob
<1>2. row = [i \in Jobs |-> row[i]]
  BY DEF Inv, TypeOK
<1>3. /\ planned[j] = s
      /\ \A i \in Jobs \ {j} : planned[i] = row[i]
      /\ planned = [i \in Jobs |-> planned[i]]
  BY <1>2
<1>4. /\ GoodStep(j, s)
      /\ Waiting(row[j]) => s.state = "cancelled"
      /\ Leased(row[j]) => s.state = "leased"
  BY <1>1, CancelStep
<1> HIDE DEF s, planned
<1>5. GoodPlan(planned)
  BY <1>3, <1>4, NoStep DEF GoodPlan
<1>6. row[j].state # "absent"
  BY <1>1 DEF Unfinished, Waiting, WaitingStates, Leased
<1>7. \A i \in roots : planned[i].state \in FailedStates /\ row[i].state # "absent"
  BY <1>3, <1>4, <1>6 DEF FailedStates
<1>8. \A i \in Jobs \ roots :
        /\ planned[i].state \in FailedStates => row[i].state \in FailedStates
        /\ row[i].state = "absent" => planned[i].state = "absent"
  BY <1>1, <1>3, <1>4, <1>6 DEF FailedStates, Unfinished
<1>9. roots \in SUBSET Jobs
  OBVIOUS
<1> HIDE DEF roots
<1> QED
  BY <1>1, <1>5, <1>7, <1>8, <1>9, TransactionStep

LEMMA WriteExpiredStep ==
  ASSUME Inv, NEW j \in Expired
  PROVE  /\ GoodStep(j, WriteExpired(j))
         /\ Requested(j) \/ Exhausted(j) => WriteExpired(j).state \in FailedStates
         /\ ~(Requested(j) \/ Exhausted(j)) => WriteExpired(j).state = "retry_wait"
<1>1. j \in Jobs /\ Leased(row[j]) /\ Unfinished(row[j])
  BY DEF Expired, Unfinished
<1>2. CASE Requested(j)
  <2>1. failedPrerequisite(j) \in BOOLEAN
    BY DEF failedPrerequisite
  <2> QED
    BY <1>1, <1>2, <2>1, RequestedStep DEF WriteExpired, Requested
<1>3. CASE ~Requested(j) /\ Exhausted(j)
  <2>1. WriteExpired(j) = WriteTerminal(row[j], "failed", "execution")
    BY <1>3 DEF WriteExpired
  <2>2. row[j].supersededBy = NoJob
    BY <1>3 DEF Requested, terminalState
  <2>3. GoodStep(j, WriteTerminal(row[j], "failed", "execution"))
    BY <1>1, <2>2, TerminalStep DEF FailedStates, Codes
  <2>4. row[j] \in Rows
    BY <1>1 DEF Inv, TypeOK
  <2>5. WriteTerminal(row[j], "failed", "execution").state = "failed"
    BY <2>4 DEF WriteTerminal, Rows
  <2> QED
    BY <1>3, <2>1, <2>3, <2>5 DEF FailedStates
<1>4. CASE ~Requested(j) /\ ~Exhausted(j)
  BY <1>1, <1>4, RetryStep DEF WriteExpired, Requested, Codes
<1> QED
  BY <1>2, <1>3, <1>4

LEMMA WriteDoomedStep ==
  ASSUME Inv, NEW j \in Doomed
  PROVE  GoodStep(j, WriteDoomed(j)) /\ WriteDoomed(j).state \in FailedStates
<1>1. j \in Jobs /\ Waiting(row[j]) /\ Unfinished(row[j])
  BY DEF Doomed, Due, Unfinished
<1>2. row[j] \in Rows /\ GoodRow(row[j])
  BY <1>1 DEF Inv, TypeOK, GoodRows
<1>3. row[j].supersededBy = NoJob
  BY <1>1, <1>2 DEF GoodRow, Waiting, WaitingStates
<1>4. ASSUME NEW state \in {"cancelled", "failed"}, NEW code \in Codes,
             code # "none" => state = "failed"
      PROVE  /\ GoodStep(j, WriteTerminal(row[j], state, code))
             /\ WriteTerminal(row[j], state, code).state \in FailedStates
  <2>1. GoodStep(j, WriteTerminal(row[j], state, code))
    BY <1>1, <1>3, <1>4, TerminalStep DEF FailedStates
  <2> QED
    BY <1>2, <2>1 DEF WriteTerminal, Rows, FailedStates
<1>5. CASE ~isAllowedByActiveConfig(j)
  BY <1>4, <1>5 DEF WriteDoomed, Codes
<1>6. CASE isAllowedByActiveConfig(j) /\ Requested(j)
  <2>1. failedPrerequisite(j) \in BOOLEAN
    BY DEF failedPrerequisite
  <2> QED
    BY <1>1, <1>6, <2>1, RequestedStep DEF WriteDoomed, Requested
<1>7. CASE isAllowedByActiveConfig(j) /\ ~Requested(j)
  BY <1>4, <1>7 DEF WriteDoomed, Codes
<1> QED
  BY <1>5, <1>6, <1>7

LEMMA ClaimJobsStep ==
  ASSUME Inv, NEW expired, NEW doomed, NEW claimed,
         claimJobs(expired, doomed, claimed)
  PROVE  Steps /\ TypeOK'
<1> DEFINE roots == Ended(expired, doomed)
           planned == [j \in Jobs |-> CASE j \in expired -> WriteExpired(j)
                                        [] j \in doomed  -> WriteDoomed(j)
                                        [] j \in claimed -> WriteClaim(row[j])
                                        [] OTHER         -> row[j]]
<1>1. /\ expired \subseteq Expired /\ doomed \subseteq Doomed
      /\ claimed \subseteq Claimable
      /\ row' = WithDependents(roots, planned)
  BY DEF claimJobs
<1>2. Claimable \subseteq Due /\ Doomed \subseteq Due
  BY DEF Claimable, Doomed
<1>3. \A j \in Due : j \notin Expired
  BY DEF Due, Expired, Leased, Waiting, WaitingStates
<1>4. \A j \in Claimable : j \notin Doomed
  BY DEF Claimable
<1>5. \A j \in Due \cup Expired : j \in Jobs /\ row[j].state # "absent"
  BY DEF Due, Expired, Leased, Waiting, WaitingStates
<1>6. \A j \in expired : planned[j] = WriteExpired(j)
  BY <1>1, <1>2, <1>3, <1>4, <1>5
<1>7. \A j \in doomed : planned[j] = WriteDoomed(j)
  BY <1>1, <1>2, <1>3, <1>4, <1>5
<1>8. \A j \in claimed : planned[j] = WriteClaim(row[j])
  BY <1>1, <1>2, <1>3, <1>4, <1>5
<1>9. \A j \in Jobs \ (expired \cup doomed \cup claimed) : planned[j] = row[j]
  OBVIOUS
<1>10. planned = [j \in Jobs |-> planned[j]]
  OBVIOUS
<1> HIDE DEF planned
<1> USE DEF Ended
<1>11. ASSUME NEW j \in Jobs
       PROVE  /\ GoodStep(j, planned[j])
              /\ j \in roots => planned[j].state \in FailedStates
              /\ j \notin roots => 
                   /\ planned[j].state \in FailedStates => row[j].state \in FailedStates
                   /\ row[j].state = "absent" => planned[j].state = "absent"
  <2>1. CASE j \in expired
    <3>1. planned[j] = WriteExpired(j) /\ j \in Expired /\ j \notin doomed
      BY <1>1, <1>2, <1>3, <1>6, <2>1
    <3>2. row[j].state # "absent"
      BY <1>5, <3>1
    <3> QED
      BY <2>1, <3>1, <3>2, WriteExpiredStep DEF FailedStates
  <2>2. CASE j \in doomed
    BY <1>1, <1>7, <2>2, WriteDoomedStep
  <2>3. CASE j \in claimed
    <3>1. planned[j] = WriteClaim(row[j]) /\ j \in Claimable /\ row[j].state # "absent"
      BY <1>1, <1>2, <1>5, <1>8, <2>3
    <3>2. j \notin roots
      BY <1>1, <1>2, <1>3, <1>4, <2>3
    <3> QED
      BY <3>1, <3>2, ClaimStep DEF FailedStates
  <2>4. CASE j \notin expired /\ j \notin doomed /\ j \notin claimed
    BY <1>9, <2>4, NoStep
  <2> QED
    BY <2>1, <2>2, <2>3, <2>4
<1>12. GoodPlan(planned)
  BY <1>10, <1>11 DEF GoodPlan
<1>13. /\ roots \in SUBSET Jobs
       /\ \A j \in roots : row[j].state # "absent"
  BY <1>1, <1>2, <1>5
<1>14. Steps
  <2> HIDE DEF roots
  <2> QED
    BY <1>1, <1>11, <1>12, <1>13, TransactionStep
<1>15. row' \in [Jobs -> Rows]
  BY <1>14, StepKeepsRows DEF Steps
<1>16. ASSUME NEW j \in claimed
       PROVE  <<j, row[j].attempt + 1>> \in Jobs \X (1..MaxAttempts)
  <2>1. j \in Jobs /\ Waiting(row[j]) /\ row[j] \in Rows /\ GoodRow(row[j])
    BY <1>1, <1>2 DEF Due, Inv, TypeOK, GoodRows
  <2>2. row[j].attempt \in 0..MaxAttempts /\ row[j].attempt < MaxAttempts
    BY <2>1 DEF GoodRow, Rows
  <2>3. row[j].attempt + 1 \in 1..MaxAttempts
    BY <2>2, LimitAssumption
  <2> QED
    BY <2>1, <2>3
<1>17. held' \subseteq Jobs \X (1..MaxAttempts)
  BY <1>16 DEF claimJobs, Inv, TypeOK
<1> QED
  BY <1>14, <1>15, <1>17 DEF claimJobs, Inv, TypeOK

LEMMA FailJobStep ==
  ASSUME Inv, NEW j \in Jobs, NEW n, failJob(j, n)
  PROVE  Steps
<1> DEFINE ends == Requested(j) \/ Exhausted(j)
           roots == IF ends THEN {j} ELSE {}
           s == IF Requested(j) THEN WriteRequested(row[j], failedPrerequisite(j))
                ELSE IF Exhausted(j) THEN WriteTerminal(row[j], "failed", "execution")
                ELSE WriteRetry(row[j], "execution")
           planned == [row EXCEPT ![j] = s]
<1>1. Leased(row[j]) /\ row' = WithDependents(roots, planned)
  BY DEF failJob, HoldsLease, LiveLease
<1>2. Unfinished(row[j]) /\ row[j].state # "absent"
  BY <1>1 DEF Unfinished, Leased
<1>3. /\ GoodStep(j, s)
      /\ ends => s.state \in FailedStates
      /\ ~ends => s.state = "retry_wait"
  <2>1. CASE Requested(j)
    <3>1. failedPrerequisite(j) \in BOOLEAN
      BY DEF failedPrerequisite
    <3> QED
      BY <1>2, <2>1, <3>1, RequestedStep DEF Requested
  <2>2. CASE ~Requested(j) /\ Exhausted(j)
    <3>1. row[j].supersededBy = NoJob
      BY <2>2 DEF Requested, terminalState
    <3>2. GoodStep(j, WriteTerminal(row[j], "failed", "execution"))
      BY <1>2, <3>1, TerminalStep DEF FailedStates, Codes
    <3>3. row[j] \in Rows
      BY DEF Inv, TypeOK
    <3>4. WriteTerminal(row[j], "failed", "execution").state = "failed"
      BY <3>3 DEF WriteTerminal, Rows
    <3> QED
      BY <2>2, <3>2, <3>4 DEF FailedStates
  <2>3. CASE ~Requested(j) /\ ~Exhausted(j)
    BY <1>1, <2>3, RetryStep DEF Requested, Codes
  <2> QED
    BY <2>1, <2>2, <2>3
<1>4. row = [i \in Jobs |-> row[i]]
  BY DEF Inv, TypeOK
<1> HIDE DEF s
<1>5. /\ planned[j] = s
      /\ \A i \in Jobs \ {j} : planned[i] = row[i]
      /\ planned = [i \in Jobs |-> planned[i]]
  BY <1>4
<1> HIDE DEF planned, ends
<1>6. GoodPlan(planned)
  BY <1>3, <1>5, NoStep DEF GoodPlan
<1>7. \A i \in roots : planned[i].state \in FailedStates /\ row[i].state # "absent"
  BY <1>2, <1>3, <1>5
<1>8. \A i \in Jobs \ roots :
        /\ planned[i].state \in FailedStates => row[i].state \in FailedStates
        /\ row[i].state = "absent" => planned[i].state = "absent"
  BY <1>2, <1>3, <1>5 DEF FailedStates
<1>9. roots \in SUBSET Jobs
  OBVIOUS
<1> HIDE DEF roots
<1> QED
  BY <1>1, <1>6, <1>7, <1>8, <1>9, TransactionStep

(* Writes of one live row that end no job without success.                 *)
LEMMA OneRowStep ==
  ASSUME Inv, NEW j \in Jobs, NEW s, row' = [row EXCEPT ![j] = s],
         GoodStep(j, s), s.state \notin FailedStates, row[j].state # "absent"
  PROVE  Steps
<1>1. row = [i \in Jobs |-> row[i]]
  BY DEF Inv, TypeOK
<1>2. /\ row'[j] = s
      /\ \A i \in Jobs \ {j} : row'[i] = row[i]
      /\ row' = [i \in Jobs |-> row'[i]]
  BY <1>1
<1>3. GoodPlan(row')
  BY <1>2, NoStep DEF GoodPlan
<1>4. NoStrandedDependent'
  BY <1>2, <1>3, QuietStep
<1> QED
  BY <1>3, <1>4 DEF Steps

LEMMA HeartbeatStep ==
  ASSUME Inv, NEW j \in Jobs, NEW n, heartbeatJob(j, n)
  PROVE  Steps
<1> DEFINE r == row[j]
           s == [r EXCEPT !.lease = LeaseTicks]
<1>1. r \in Rows /\ GoodRow(r) /\ r.state = "leased"
  BY DEF Inv, TypeOK, GoodRows, heartbeatJob, HoldsLease, LiveLease, Leased
<1>2. s \in Rows
  BY <1>1, LimitAssumption, Ranges, FieldWrites
<1>3. /\ s.state = "leased" /\ s.code = r.code /\ s.lease = LeaseTicks
      /\ s.attempt = r.attempt /\ s.cancel = r.cancel
      /\ s.supersededBy = r.supersededBy
  BY <1>1 DEF Rows
<1>4. row' = [row EXCEPT ![j] = s]
  BY DEF heartbeatJob
<1> HIDE DEF s
<1>5. GoodRow(s)
  BY <1>1, <1>3 DEF GoodRow, Leased, Waiting, WaitingStates
<1>6. readyPrerequisites(j)
  BY <1>1 DEF Inv, RunsOnlyAfterPrerequisites, Leased
<1>7. GoodStep(j, s)
  BY <1>1, <1>2, <1>3, <1>5, <1>6 DEF GoodStep, TerminalStates, FailedStates
<1> QED
  BY <1>1, <1>3, <1>4, <1>7, OneRowStep DEF FailedStates

LEMMA CompleteStep ==
  ASSUME Inv, NEW j \in Jobs, NEW n, completeJob(j, n)
  PROVE  Steps
<1> DEFINE r == row[j]
           s == WriteTerminal(r, "succeeded", "none")
<1>1. r \in Rows /\ GoodRow(r) /\ r.state = "leased"
  BY DEF Inv, TypeOK, GoodRows, completeJob, HoldsLease, LiveLease, Leased
<1>2. s \in Rows
  BY <1>1, WriteTerminalType DEF TerminalStates, Codes
<1>3. /\ s.state = "succeeded" /\ s.code = "none" /\ s.lease = 0
      /\ s.attempt = r.attempt /\ s.cancel = FALSE
      /\ s.supersededBy = NoJob
  BY <1>1 DEF Rows, WriteTerminal, completeJob
<1>4. row' = [row EXCEPT ![j] = s]
  BY DEF completeJob
<1> HIDE DEF s
<1>5. GoodRow(s)
  BY <1>1, <1>3 DEF GoodRow, Leased, Waiting, WaitingStates
<1>6. readyPrerequisites(j)
  BY <1>1 DEF Inv, RunsOnlyAfterPrerequisites, Leased
<1>7. GoodStep(j, s)
  BY <1>1, <1>2, <1>3, <1>5, <1>6 DEF GoodStep, TerminalStates, FailedStates
<1> QED
  BY <1>1, <1>3, <1>4, <1>7, OneRowStep DEF FailedStates

LEMMA TickStep ==
  ASSUME Inv, Tick
  PROVE  Steps
<1> DEFINE less(d) == IF d > 0 THEN d - 1 ELSE 0
           s(j) == [row[j] EXCEPT !.lease = less(@), !.delay = less(@)]
<1>1. row' = [j \in Jobs |-> s(j)]
  BY DEF Tick
<1>2. ASSUME NEW j \in Jobs
      PROVE  GoodStep(j, s(j)) /\ s(j).state = row[j].state
  <2>1. row[j] \in Rows /\ GoodRow(row[j])
    BY DEF Inv, TypeOK, GoodRows
  <2>2. /\ row[j].lease \in 0..LeaseTicks /\ row[j].delay \in 0..RetryMax
        /\ row[j].attempt \in 0..MaxAttempts
    BY <2>1 DEF Rows
  <2>3. less(row[j].lease) \in 0..LeaseTicks /\ less(row[j].delay) \in 0..RetryMax
    BY <2>2, LimitAssumption
  <2>4. /\ less(row[j].lease) > 0 => row[j].lease > 0
        /\ row[j].lease = 0 => less(row[j].lease) = 0
        /\ row[j].delay = 0 => less(row[j].delay) = 0
    BY <2>2
  <2> HIDE DEF less
  <2> DEFINE s1 == [row[j] EXCEPT !.lease = less(row[j].lease)]
  <2>5. s1 \in Rows /\ s1.delay = row[j].delay
    BY <2>1, <2>3, FieldWrites DEF Rows
  <2>6. s(j) = [s1 EXCEPT !.delay = less(row[j].delay)]
    BY <2>1 DEF Rows
  <2>7. s(j) \in Rows
    <3> HIDE DEF s1
    <3> QED
      BY <2>3, <2>5, <2>6, FieldWrites
  <2>8. /\ s(j).state = row[j].state /\ s(j).code = row[j].code
        /\ s(j).attempt = row[j].attempt /\ s(j).cancel = row[j].cancel
        /\ s(j).supersededBy = row[j].supersededBy
        /\ s(j).lease = less(row[j].lease)
    BY <2>1 DEF Rows
  <2>9. row[j].state = "absent" => s(j) = row[j]
    <3> SUFFICES ASSUME row[j].state = "absent" PROVE s(j) = row[j]
      OBVIOUS
    <3>1. row[j].lease = 0 /\ row[j].delay = 0
      BY <2>1 DEF GoodRow, NoRow
    <3> QED
      BY <2>1, <2>4, <3>1 DEF Rows
  <2> HIDE DEF s
  <2>10. GoodRow(s(j))
    BY <2>1, <2>4, <2>8, <2>9 DEF GoodRow, Leased, Waiting
  <2>11. row[j].attempt > 0 \/ Leased(row[j]) \/ row[j].state = "succeeded"
           => readyPrerequisites(j)
    BY DEF Inv, RunsOnlyAfterPrerequisites
  <2> QED
    BY <2>7, <2>8, <2>10, <2>11 DEF GoodStep, Leased
<1> HIDE DEF s
<1>3. /\ row' = [j \in Jobs |-> row'[j]]
      /\ \A j \in Jobs : row'[j] = s(j)
  BY <1>1
<1>4. GoodPlan(row')
  BY <1>2, <1>3 DEF GoodPlan
<1>5. NoStrandedDependent'
  BY <1>2, <1>3, <1>4, QuietStep
<1> QED
  BY <1>4, <1>5 DEF Steps

-----------------------------------------------------------------------------
(* The invariant.                                                          *)

LEMMA InitInv == Init => Inv
<1> SUFFICES ASSUME Init PROVE Inv
  OBVIOUS
<1>1. \A j \in Jobs : row[j] = NoRow
  BY DEF Init
<1>2. TypeOK
  BY NewRowType DEF Init, TypeOK
<1>3. GoodRow(NoRow)
  BY LimitAssumption DEF GoodRow, NoRow, Leased, Waiting, WaitingStates
<1>4. GoodRows
  BY <1>1, <1>3 DEF GoodRows
<1>5. RunsOnlyAfterPrerequisites
  BY <1>1 DEF NoRow, RunsOnlyAfterPrerequisites, Leased
<1>6. NoStrandedDependent
  BY <1>1 DEF NoRow, NoStrandedDependent
<1> QED
  BY <1>2, <1>4, <1>5, <1>6 DEF Inv

LEMMA StepsKeepInv ==
  ASSUME Inv, Steps,
         held' \subseteq held, active' \in Configs, policy' \in Policies \cup {DefaultPolicy}
  PROVE  Inv'
BY StepKeepsRows DEF Inv, TypeOK, Steps

LEMMA NextInv == Inv /\ [Next]_vars => Inv'
<1> SUFFICES ASSUME Inv, [Next]_vars
             PROVE  Inv'
  OBVIOUS
<1>1. active \in Configs /\ policy \in Policies \cup {DefaultPolicy}
      /\ held \subseteq Jobs \X (1..MaxAttempts)
  BY DEF Inv, TypeOK
<1>2. CASE Schedule
  <2>1. PICK new \in SUBSET Jobs : ScheduleJobs(new)
    BY <1>2 DEF Schedule
  <2> QED
    BY <1>1, <2>1, ScheduleStep, StepsKeepInv DEF ScheduleJobs
<1>3. CASE Close
  <2>1. PICK j \in Jobs : CloseSubject(SubjectOf[j])
    BY <1>3 DEF Close
  <2> QED
    BY <1>1, <2>1, CloseStep, StepsKeepInv DEF CloseSubject
<1>4. CASE Activate
  <2>1. PICK c \in Configs, new \in SUBSET Jobs : ActivateConfiguration(c, new)
    BY <1>4 DEF Activate
  <2> QED
    BY <1>1, <2>1, ActivateStep, StepsKeepInv DEF ActivateConfiguration
<1>5. CASE Cancel
  <2>1. PICK j \in Jobs : CancelJob(j)
    BY <1>5 DEF Cancel
  <2> QED
    BY <1>1, <2>1, CancelJobStep, StepsKeepInv DEF CancelJob
<1>6. CASE PutPolicy
  <2>1. PICK limits \in Policies : putConcurrencyPolicy(limits)
    BY <1>6 DEF PutPolicy
  <2> QED
    BY <1>1, <2>1
    DEF putConcurrencyPolicy, Inv, TypeOK, GoodRows, RunsOnlyAfterPrerequisites,
        NoStrandedDependent, readyPrerequisites, failedPrerequisite
<1>7. CASE Claim
  <2>1. PICK expired \in SUBSET Expired, doomed \in SUBSET Doomed,
             claimed \in SUBSET Claimable : claimJobs(expired, doomed, claimed)
    BY <1>7 DEF Claim
  <2> QED
    BY <2>1, ClaimJobsStep, StepKeepsRows DEF Inv, Steps
<1>8. CASE Heartbeat
  <2>1. PICK t \in held : heartbeatJob(t[1], t[2])
    BY <1>8 DEF Heartbeat
  <2>2. t[1] \in Jobs
    BY <1>1
  <2> QED
    BY <1>1, <2>1, <2>2, HeartbeatStep, StepsKeepInv DEF heartbeatJob
<1>9. CASE Fail
  <2>1. PICK t \in held : failJob(t[1], t[2])
    BY <1>9 DEF Fail
  <2>2. t[1] \in Jobs
    BY <1>1
  <2> QED
    BY <1>1, <2>1, <2>2, FailJobStep, StepsKeepInv DEF failJob, Drop
<1>10. CASE Complete
  <2>1. PICK t \in held : completeJob(t[1], t[2])
    BY <1>10 DEF Complete
  <2>2. t[1] \in Jobs
    BY <1>1
  <2> QED
    BY <1>1, <2>1, <2>2, CompleteStep, StepsKeepInv DEF completeJob, Drop
<1>11. CASE Lose
  <2>1. PICK t \in held : loseLease(t[1], t[2])
    BY <1>11 DEF Lose
  <2> QED
    BY <1>1, <2>1
    DEF loseLease, Drop, Inv, TypeOK, GoodRows, RunsOnlyAfterPrerequisites,
        NoStrandedDependent, readyPrerequisites, failedPrerequisite
<1>12. CASE Tick
  BY <1>1, <1>12, TickStep, StepsKeepInv DEF Tick
<1>13. CASE UNCHANGED vars
  BY <1>13
  DEF vars, Inv, TypeOK, GoodRows, RunsOnlyAfterPrerequisites,
      NoStrandedDependent, readyPrerequisites, failedPrerequisite
<1> QED
  BY <1>2, <1>3, <1>4, <1>5, <1>6, <1>7, <1>8, <1>9, <1>10, <1>11, <1>12, <1>13
  DEF Next

(* The inductive invariant holds in every reachable state.                 *)
THEOREM Invariant == Spec => []Inv
BY InitInv, NextInv, PTL DEF Spec

(* Every row stays in the ranges of its columns, tokens name an attempt    *)
(* the limit allows: no claim can take a job past max_attempts.            *)
THEOREM TypeCorrect == Spec => []TypeOK
<1>1. Inv => TypeOK
  BY DEF Inv
<1> QED
  BY <1>1, Invariant, PTL

(* No transaction is rejected by the column CHECKs of the job table, apart *)
(* from the writes of the scheduler that CodeCheckPasses names.            *)
THEOREM RowsMeetConstraints == Spec => []RowConstraints
<1>1. Inv => RowConstraints
  BY DEF Inv, GoodRows, GoodRow, RowConstraints
<1> QED
  BY <1>1, Invariant, PTL

(* claimJobs leases a preview only once its baselines succeeded, and they  *)
(* stay so: no later transaction ends a succeeded job.                     *)
THEOREM PrerequisitesFirst == Spec => []RunsOnlyAfterPrerequisites
<1>1. Inv => RunsOnlyAfterPrerequisites
  BY DEF Inv
<1> QED
  BY <1>1, Invariant, PTL

(* planTerminalDependents reaches every job that waits for one that ended  *)
(* without success, however long the chain of dependencies.                *)
THEOREM DependentsEnd == Spec => []NoStrandedDependent
<1>1. Inv => NoStrandedDependent
  BY DEF Inv
<1> QED
  BY <1>1, Invariant, PTL

(* A job that was asked to stop never returns to the queue and never       *)
(* succeeds, in spite of retries, expired leases and late completions.     *)
THEOREM StoppedStaysStopped == Spec => []StoppedWorkStaysStopped
<1>1. Inv => StoppedWorkStaysStopped
  BY DEF Inv, GoodRows, GoodRow, StoppedWorkStaysStopped, Waiting, WaitingStates
<1> QED
  BY <1>1, Invariant, PTL

-----------------------------------------------------------------------------
(* What the scheduler's checkpoints rely on: one job at most is wanted for *)
(* a subject, and it is wanted under the active configuration.  Only the   *)
(* transactions that insert jobs make a job wanted, and these give up      *)
(* whatever was wanted in its place.                                       *)

WantedInv == OneWantedJobPerSubject /\ WantedWorkIsConfigured

(* The rows a transaction plans make no job wanted but those of new.       *)
WantsOnly(rows, new) ==
  \A j \in Jobs : Wanted(rows[j]) => j \in new \/ Wanted(row[j])

LEMMA TerminalIsUnwanted ==
  ASSUME NEW r, r.state \in TerminalStates
  PROVE  ~Wanted(r)
BY DEF Wanted, Unfinished, Waiting, WaitingStates, Leased, TerminalStates, FailedStates

(* The walk over the dependents makes no job wanted that the transaction   *)
(* itself did not leave so.                                                *)
LEMMA DependentsUnwanted ==
  ASSUME Inv, NEW roots, NEW planned, NEW j \in Jobs,
         Wanted(WithDependents(roots, planned)[j])
  PROVE  Wanted(planned[j])
<1> DEFINE reached == TerminalDependents(roots)
           after == WithDependents(roots, planned)[j]
<1>1. row[j] \in Rows
  BY DEF Inv, TypeOK
<1>2. ~(j \in reached /\ Waiting(row[j]))
  <2> SUFFICES ASSUME j \in reached, Waiting(row[j]) PROVE FALSE
    OBVIOUS
  <2>1. after = WriteRequested(row[j], TRUE)
    BY DEF WithDependents
  <2>2. terminalState(row[j], TRUE) # "none"
    BY <1>1 DEF Rows, terminalState
  <2>3. WriteRequested(row[j], TRUE).state \in FailedStates
    BY <2>2, RequestedStep DEF Unfinished
  <2> QED
    BY <2>1, <2>3, TerminalIsUnwanted DEF TerminalStates
<1>3. ~(j \in reached /\ Leased(row[j]))
  <2> SUFFICES ASSUME j \in reached, Leased(row[j]) PROVE FALSE
    OBVIOUS
  <2>1. after = WriteCancelRequest(row[j])
    BY <1>2 DEF WithDependents
  <2>2. WriteCancelRequest(row[j]).cancel
    BY <1>1 DEF WriteCancelRequest, Rows
  <2> QED
    BY <2>1, <2>2 DEF Wanted
<1> QED
  BY <1>2, <1>3 DEF WithDependents

-----------------------------------------------------------------------------
(* Transactions that insert nothing.                                       *)

LEMMA ShrinkKeepsWanted ==
  ASSUME WantedInv, WantsOnly(row', {}), active' = active
  PROVE  WantedInv'
BY DEF WantedInv, WantsOnly, OneWantedJobPerSubject, WantedWorkIsConfigured, Wanted,
       Unfinished, Waiting, Leased

(* One row is rewritten, then the walk runs.                               *)
LEMMA OneWriteWanted ==
  ASSUME Inv, NEW j \in Jobs, NEW s, NEW roots,
         row' = WithDependents(roots, [row EXCEPT ![j] = s]),
         Wanted(s) => Wanted(row[j])
  PROVE  WantsOnly(row', {})
<1> DEFINE planned == [row EXCEPT ![j] = s]
<1>1. \A i \in Jobs : planned[i] = IF i = j THEN s ELSE row[i]
  BY DEF Inv, TypeOK
<1> HIDE DEF planned
<1>2. \A i \in Jobs : Wanted(row'[i]) => Wanted(planned[i])
  BY DependentsUnwanted DEF planned
<1> QED
  BY <1>1, <1>2 DEF WantsOnly

LEMMA CancelJobWanted ==
  ASSUME Inv, NEW j \in Jobs, CancelJob(j)
  PROVE  WantsOnly(row', {})
<1> DEFINE s == [persistCancel(row[j]) EXCEPT !.cancel = TRUE]
<1>1. row[j] \in Rows
  BY DEF Inv, TypeOK
<1>2. persistCancel(row[j]) \in Rows
  BY <1>1, ScheduleWriteTypes, LimitAssumption
<1>3. s.cancel
  BY <1>2 DEF Rows
<1>4. ~Wanted(s)
  BY <1>3 DEF Wanted
<1> HIDE DEF s
<1> QED
  BY <1>4, OneWriteWanted DEF CancelJob, s

LEMMA FailJobWanted ==
  ASSUME Inv, NEW j \in Jobs, NEW n, failJob(j, n)
  PROVE  WantsOnly(row', {})
<1> DEFINE ends == Requested(j) \/ Exhausted(j)
           s == IF Requested(j) THEN WriteRequested(row[j], failedPrerequisite(j))
                ELSE IF Exhausted(j) THEN WriteTerminal(row[j], "failed", "execution")
                ELSE WriteRetry(row[j], "execution")
<1>1. row[j] \in Rows /\ Leased(row[j]) /\ Unfinished(row[j])
  BY DEF Inv, TypeOK, failJob, HoldsLease, LiveLease, Unfinished
<1>2. Requested(j) => ~Wanted(s)
  <2>1. failedPrerequisite(j) \in BOOLEAN
    BY DEF failedPrerequisite
  <2> QED
    BY <1>1, <2>1, RequestedStep, TerminalIsUnwanted DEF Requested, TerminalStates
<1>3. ~Requested(j) => Wanted(row[j])
  BY <1>1 DEF Requested, terminalState, Wanted
<1>4. Wanted(s) => Wanted(row[j])
  BY <1>2, <1>3
<1> HIDE DEF s
<1> QED
  BY <1>4, OneWriteWanted DEF failJob, s

LEMMA ClaimJobsWanted ==
  ASSUME Inv, NEW expired, NEW doomed, NEW claimed,
         claimJobs(expired, doomed, claimed)
  PROVE  WantsOnly(row', {})
<1> DEFINE roots == Ended(expired, doomed)
           planned == [j \in Jobs |-> CASE j \in expired -> WriteExpired(j)
                                        [] j \in doomed  -> WriteDoomed(j)
                                        [] j \in claimed -> WriteClaim(row[j])
                                        [] OTHER         -> row[j]]
<1>1. /\ expired \subseteq Expired /\ doomed \subseteq Doomed
      /\ claimed \subseteq Claimable
      /\ row' = WithDependents(roots, planned)
  BY DEF claimJobs
<1>2. Claimable \subseteq Due /\ Doomed \subseteq Due /\ Claimable \cap Doomed = {}
  BY DEF Claimable, Doomed
<1>3. \A j \in Due : j \notin Expired
  BY DEF Due, Expired, Leased, Waiting, WaitingStates
<1> SUFFICES ASSUME NEW j \in Jobs, Wanted(planned[j])
             PROVE  Wanted(row[j])
  BY <1>1, DependentsUnwanted DEF WantsOnly
<1>4. row[j] \in Rows
  BY DEF Inv, TypeOK
<1>5. CASE j \in expired
  <2>1. planned[j] = WriteExpired(j) /\ j \in Expired /\ Leased(row[j])
    BY <1>1, <1>2, <1>3, <1>5 DEF Expired
  <2>2. ~Requested(j)
    BY <2>1, WriteExpiredStep, TerminalIsUnwanted DEF TerminalStates
  <2> QED
    BY <1>4, <2>1, <2>2 DEF Requested, terminalState, Wanted, Unfinished
<1>6. CASE j \in doomed
  <2>1. planned[j] = WriteDoomed(j)
    BY <1>1, <1>2, <1>3, <1>6
  <2> QED
    BY <1>1, <1>6, <2>1, WriteDoomedStep, TerminalIsUnwanted DEF TerminalStates
<1>7. CASE j \in claimed
  <2>1. j \in Due /\ j \notin Doomed
    BY <1>1, <1>2, <1>7
  <2>2. Waiting(row[j]) /\ ~Requested(j)
    BY <2>1 DEF Due, Doomed
  <2> QED
    BY <1>4, <2>2 DEF Requested, terminalState, Wanted, Unfinished
<1>8. CASE j \notin expired \cup doomed \cup claimed
  BY <1>8
<1> QED
  BY <1>5, <1>6, <1>7, <1>8

-----------------------------------------------------------------------------
(* Transactions that insert jobs.                                          *)

LEMMA GivenUpIsUnwanted ==
  ASSUME NEW r \in Rows, Unfinished(r), NEW next \in Jobs
  PROVE  ~Wanted(persistSupersede(r, next)) /\ ~Wanted(persistCancel(r))
<1>1. persistSupersede(r, next).cancel
  BY DEF persistSupersede, Write, Rows
<1>2. \/ persistCancel(r).cancel
      \/ persistCancel(r).state = "cancelled"
  BY DEF persistCancel, Write, Rows
<1> QED
  BY <1>1, <1>2, TerminalIsUnwanted DEF Wanted, TerminalStates, FailedStates

(* Nothing given up stays wanted.                                          *)
LEMMA ScheduledJobsWanted ==
  ASSUME Inv,
         NEW new \in SUBSET Jobs, NEW superseded \in SUBSET Jobs,
         NEW cancelled \in SUBSET Jobs,
         persistScheduledJobs(new, superseded, cancelled),
         \A n \in new : row[n].state = "absent",
         \A j \in superseded \cup cancelled : Unfinished(row[j]),
         \A j \in superseded : \E n \in new : SubjectOf[n] = SubjectOf[j],
         NEW j \in Jobs, Wanted(row'[j])
  PROVE  j \in new \/ (Wanted(row[j]) /\ j \notin superseded \cup cancelled)
<1> DEFINE targets == superseded \cup cancelled
           roots == {i \in targets : Waiting(row[i])}
           planned == [i \in Jobs |->
                        CASE i \in new        -> NewRow
                          [] i \in superseded -> persistSupersede(row[i], Successor(new, i))
                          [] i \in cancelled  -> persistCancel(row[i])
                          [] OTHER            -> row[i]]
<1>1. row' = WithDependents(roots, planned)
  BY DEF persistScheduledJobs
<1>2. \A i \in targets : i \notin new
  BY DEF Unfinished, Waiting, WaitingStates, Leased
<1>3. row[j] \in Rows
  BY DEF Inv, TypeOK
<1> HIDE DEF planned
<1>4. Wanted(planned[j])
  BY <1>1, DependentsUnwanted
<1> USE DEF planned
<1>5. CASE j \in superseded /\ j \notin cancelled
  <2>1. planned[j] = persistSupersede(row[j], Successor(new, j))
    BY <1>2, <1>5
  <2>2. Successor(new, j) \in Jobs
    BY <1>5, SuccessorExists
  <2> HIDE DEF planned
  <2> QED
    BY <1>3, <1>4, <1>5, <2>1, <2>2, GivenUpIsUnwanted
<1>6. CASE j \in cancelled
  <2>1. CASE j \in superseded
    <3>1. \/ planned[j] = persistSupersede(row[j], Successor(new, j))
          \/ planned[j] = persistCancel(row[j])
      BY <1>2, <1>6, <2>1
    <3>2. Successor(new, j) \in Jobs
      BY <2>1, SuccessorExists
    <3> HIDE DEF planned
    <3> QED
      BY <1>3, <1>4, <1>6, <3>1, <3>2, GivenUpIsUnwanted
  <2>2. CASE j \notin superseded
    <3>1. planned[j] = persistCancel(row[j])
      BY <1>2, <1>6, <2>2
    <3> HIDE DEF planned
    <3> QED
      BY <1>3, <1>4, <1>6, <3>1, GivenUpIsUnwanted
  <2> QED
    BY <2>1, <2>2
<1>7. CASE j \notin targets /\ j \notin new
  BY <1>4, <1>7
<1> QED
  BY <1>5, <1>6, <1>7

LEMMA ScheduleWanted ==
  ASSUME Inv, WantedInv, NEW new \in SUBSET Jobs, ScheduleJobs(new)
  PROVE  WantedInv'
<1> DEFINE superseded == UNION {Current(SubjectOf[n]) : n \in new}
<1>1. /\ Schedulable(new, active) /\ persistScheduledJobs(new, superseded, {})
      /\ active' = active
  BY DEF ScheduleJobs
<1>2. /\ superseded \in SUBSET Jobs
      /\ \A j \in superseded : Unfinished(row[j])
      /\ \A j \in superseded : \E n \in new : SubjectOf[n] = SubjectOf[j]
  BY CurrentJobs
<1>3. \A j \in Jobs : \A n \in new :
        Wanted(row[j]) /\ SubjectOf[j] = SubjectOf[n] => j \in superseded
  BY DEF Current
<1>4. /\ \A n \in new : row[n].state = "absent" /\ FingerprintOf[n] = active
      /\ \A m, n \in new : SubjectOf[m] = SubjectOf[n] => m = n
  BY <1>1 DEF Schedulable
<1> HIDE DEF superseded
<1>5. \A j \in Jobs : Wanted(row'[j])
        => j \in new \/ (Wanted(row[j]) /\ j \notin superseded)
  BY <1>1, <1>2, <1>4, ScheduledJobsWanted
<1>6. ASSUME NEW i \in Jobs, NEW j \in Jobs, Wanted(row'[i]), Wanted(row'[j]),
             SubjectOf[i] = SubjectOf[j]
      PROVE  i = j
  BY <1>3, <1>4, <1>5, <1>6 DEF WantedInv, OneWantedJobPerSubject
<1>7. ASSUME NEW j \in Jobs, Wanted(row'[j])
      PROVE  FingerprintOf[j] = active'
  BY <1>1, <1>4, <1>5, <1>7 DEF WantedInv, WantedWorkIsConfigured
<1> QED
  BY <1>6, <1>7
  DEF WantedInv, OneWantedJobPerSubject, WantedWorkIsConfigured, Wanted, Unfinished,
      Waiting, Leased

LEMMA CloseWanted ==
  ASSUME Inv, NEW subject, CloseSubject(subject)
  PROVE  WantsOnly(row', {})
<1>1. persistScheduledJobs({}, {}, Current(subject))
  BY DEF CloseSubject
<1> QED
  BY <1>1, CurrentJobs, ScheduledJobsWanted DEF WantsOnly

(* Nothing that was wanted before survives an activation.                  *)
LEMMA ActivateWanted ==
  ASSUME Inv, NEW c, NEW new \in SUBSET Jobs, ActivateConfiguration(c, new)
  PROVE  WantedInv'
<1> DEFINE superseded == UNION {Current(SubjectOf[n]) : n \in new}
           cancelled == {j \in Jobs : Wanted(row[j])} \ superseded
<1>1. /\ persistScheduledJobs(new, superseded, cancelled)
      /\ new = {} \/ Schedulable(new, c)
      /\ active' = c
  BY DEF ActivateConfiguration
<1>2. /\ superseded \in SUBSET Jobs
      /\ \A j \in superseded : Unfinished(row[j])
      /\ \A j \in superseded : \E n \in new : SubjectOf[n] = SubjectOf[j]
  BY CurrentJobs
<1>3. /\ cancelled \in SUBSET Jobs
      /\ \A j \in cancelled : Unfinished(row[j])
      /\ \A j \in Jobs : Wanted(row[j]) => j \in superseded \cup cancelled
  BY DEF Wanted
<1>4. /\ \A n \in new : row[n].state = "absent" /\ FingerprintOf[n] = c
      /\ \A m, n \in new : SubjectOf[m] = SubjectOf[n] => m = n
  BY <1>1 DEF Schedulable
<1> HIDE DEF superseded, cancelled
<1>5. \A j \in Jobs : Wanted(row'[j]) => j \in new
  BY <1>1, <1>2, <1>3, <1>4, ScheduledJobsWanted
<1> QED
  BY <1>1, <1>4, <1>5
  DEF WantedInv, OneWantedJobPerSubject, WantedWorkIsConfigured, Wanted, Unfinished,
      Waiting, Leased

-----------------------------------------------------------------------------
(* Writes of workers, and time.                                            *)

LEMMA PlainWriteWanted ==
  ASSUME Inv, NEW j \in Jobs, NEW s, row' = [row EXCEPT ![j] = s],
         Wanted(s) => Wanted(row[j])
  PROVE  WantsOnly(row', {})
<1>1. \A i \in Jobs : row'[i] = IF i = j THEN s ELSE row[i]
  BY DEF Inv, TypeOK
<1> QED
  BY <1>1 DEF WantsOnly

LEMMA HeartbeatWanted ==
  ASSUME Inv, NEW j \in Jobs, NEW n, heartbeatJob(j, n)
  PROVE  WantsOnly(row', {})
<1> DEFINE s == [row[j] EXCEPT !.lease = LeaseTicks]
<1>1. row[j] \in Rows
  BY DEF Inv, TypeOK
<1>2. s.state = row[j].state /\ s.cancel = row[j].cancel
  BY <1>1 DEF Rows
<1>3. row' = [row EXCEPT ![j] = s]
  BY DEF heartbeatJob
<1> HIDE DEF s
<1> QED
  BY <1>2, <1>3, PlainWriteWanted DEF Wanted, Unfinished, Waiting, Leased

LEMMA CompleteWanted ==
  ASSUME Inv, NEW j \in Jobs, NEW n, completeJob(j, n)
  PROVE  WantsOnly(row', {})
<1> DEFINE s == WriteTerminal(row[j], "succeeded", "none")
<1>1. row[j] \in Rows
  BY DEF Inv, TypeOK
<1>2. s.state = "succeeded"
  BY <1>1 DEF Rows, WriteTerminal
<1>3. row' = [row EXCEPT ![j] = s]
  BY DEF completeJob
<1> HIDE DEF s
<1> QED
  BY <1>2, <1>3, PlainWriteWanted, TerminalIsUnwanted DEF TerminalStates

LEMMA TickWanted ==
  ASSUME Inv, Tick
  PROVE  WantsOnly(row', {})
<1> SUFFICES ASSUME NEW j \in Jobs
             PROVE  row'[j].state = row[j].state /\ row'[j].cancel = row[j].cancel
  BY DEF WantsOnly, Wanted, Unfinished, Waiting, Leased
<1> QED
  BY DEF Tick, Inv, TypeOK, Rows

-----------------------------------------------------------------------------
LEMMA InitWanted == Init => WantedInv
BY DEF Init, NoRow, WantedInv, OneWantedJobPerSubject, WantedWorkIsConfigured, Wanted,
       Unfinished, Waiting, WaitingStates, Leased

LEMMA NextWanted == Inv /\ WantedInv /\ [Next]_vars => WantedInv'
<1> SUFFICES ASSUME Inv, WantedInv, [Next]_vars
             PROVE  WantedInv'
  OBVIOUS
<1>1. \A t \in held : t[1] \in Jobs
  BY DEF Inv, TypeOK
<1>2. CASE Schedule
  BY <1>2, ScheduleWanted DEF Schedule
<1>3. CASE Close
  BY <1>3, CloseWanted, ShrinkKeepsWanted DEF Close, CloseSubject
<1>4. CASE Activate
  BY <1>4, ActivateWanted DEF Activate
<1>5. CASE Cancel
  BY <1>5, CancelJobWanted, ShrinkKeepsWanted DEF Cancel, CancelJob
<1>6. CASE Claim
  <2>1. PICK expired \in SUBSET Expired, doomed \in SUBSET Doomed,
             claimed \in SUBSET Claimable : claimJobs(expired, doomed, claimed)
    BY <1>6 DEF Claim
  <2> QED
    BY <2>1, ClaimJobsWanted, ShrinkKeepsWanted DEF claimJobs
<1>7. CASE Heartbeat
  BY <1>1, <1>7, HeartbeatWanted, ShrinkKeepsWanted DEF Heartbeat, heartbeatJob
<1>8. CASE Fail
  BY <1>1, <1>8, FailJobWanted, ShrinkKeepsWanted DEF Fail, failJob
<1>9. CASE Complete
  BY <1>1, <1>9, CompleteWanted, ShrinkKeepsWanted DEF Complete, completeJob
<1>10. CASE Tick
  BY <1>10, TickWanted, ShrinkKeepsWanted DEF Tick
<1>11. CASE PutPolicy \/ Lose \/ UNCHANGED vars
  <2>1. row' = row /\ active' = active
    BY <1>11 DEF PutPolicy, putConcurrencyPolicy, Lose, loseLease, vars
  <2> QED
    BY <2>1 DEF WantedInv, OneWantedJobPerSubject, WantedWorkIsConfigured, Wanted,
                Unfinished, Waiting, Leased
<1> QED
  BY <1>2, <1>3, <1>4, <1>5, <1>6, <1>7, <1>8, <1>9, <1>10, <1>11 DEF Next

(* Two transactions, an event and a configuration change say, never leave  *)
(* two jobs at work for one checkpoint: the pointer the scheduler keeps to *)
(* its current job is enough to give up all that is wanted.                *)
THEOREM OneWantedJob == Spec => []OneWantedJobPerSubject
<1>1. Inv /\ WantedInv /\ [Next]_vars => (Inv /\ WantedInv)'
  BY NextInv, NextWanted
<1>2. WantedInv => OneWantedJobPerSubject
  BY DEF WantedInv
<1> QED
  BY <1>1, <1>2, InitInv, InitWanted, PTL DEF Spec

(* Activating a configuration gives up, in the same transaction, all the   *)
(* work that was wanted under another one.                                 *)
THEOREM WantedIsConfigured == Spec => []WantedWorkIsConfigured
<1>1. Inv /\ WantedInv /\ [Next]_vars => (Inv /\ WantedInv)'
  BY NextInv, NextWanted
<1>2. WantedInv => WantedWorkIsConfigured
  BY DEF WantedInv
<1> QED
  BY <1>1, <1>2, InitInv, InitWanted, PTL DEF Spec

-----------------------------------------------------------------------------
(* Late answers.                                                           *)

(* A token leaves the workers' memory together with its row's change only  *)
(* in failJob and completeJob, which check it under the lock.              *)
LateAnswers == \A t \in held : LET j == t[1] IN
  (t \notin held' /\ row'[j] # row[j]) => LiveLease(row[j]) /\ row[j].attempt = t[2]

LEMMA DroppedToken ==
  ASSUME NEW j, NEW n, NEW t \in held, held \subseteq Jobs \X (1..MaxAttempts),
         Drop(j, n), t \notin held'
  PROVE  t[1] = j /\ t[2] = n
<1>1. t = <<j, n>>
  BY DEF Drop
<1> QED
  BY <1>1

LEMMA NextLateAnswers == Inv /\ [Next]_vars => LateAnswers
<1> SUFFICES ASSUME Inv, [Next]_vars, NEW t \in held, t \notin held',
                    row'[t[1]] # row[t[1]]
             PROVE  LiveLease(row[t[1]]) /\ row[t[1]].attempt = t[2]
  BY DEF LateAnswers
<1>1. held \subseteq Jobs \X (1..MaxAttempts)
  BY DEF Inv, TypeOK
<1>2. Fail \/ Complete
  BY DEF Next, vars, Schedule, ScheduleJobs, Close, CloseSubject, Activate,
         ActivateConfiguration, Cancel, CancelJob, PutPolicy, putConcurrencyPolicy,
         Claim, claimJobs, Heartbeat, heartbeatJob, Lose, loseLease, Tick
<1>3. PICK u \in held : HoldsLease(u[1], u[2]) /\ Drop(u[1], u[2])
  BY <1>2 DEF Fail, failJob, Complete, completeJob
<1>4. t[1] = u[1] /\ t[2] = u[2]
  BY <1>1, <1>3, DroppedToken
<1> QED
  BY <1>3, <1>4 DEF HoldsLease

(* No answer given for an expired lease or an earlier claim changes a job. *)
THEOREM LateAnswersIgnored == Spec => LateAnswersChangeNothing
<1>1. Inv /\ [Next]_vars => [LateAnswers]_vars
  BY NextLateAnswers
<1> QED
  BY <1>1, Invariant, PTL DEF Spec, LateAnswersChangeNothing, LateAnswers

-----------------------------------------------------------------------------
(* Capacity.                                                               *)

(* The leases a transaction makes live are all in claimed.                 *)
LeasesOnly(rows, claimed) ==
  \A j \in Jobs : LiveLease(rows[j]) => j \in claimed \/ LiveLease(row[j])

LEMMA DependentsLease ==
  ASSUME Inv, NEW roots, NEW planned, NEW claimed, LeasesOnly(planned, claimed)
  PROVE  LeasesOnly(WithDependents(roots, planned), claimed)
<1> SUFFICES ASSUME NEW j \in Jobs, LiveLease(WithDependents(roots, planned)[j])
             PROVE  j \in claimed \/ LiveLease(row[j])
  BY DEF LeasesOnly
<1> DEFINE reached == TerminalDependents(roots)
<1>1. row[j] \in Rows
  BY DEF Inv, TypeOK
<1>2. CASE j \in reached /\ Waiting(row[j])
  <2>1. terminalState(row[j], TRUE) # "none"
    BY <1>1 DEF Rows, terminalState
  <2>2. WriteRequested(row[j], TRUE).state \in FailedStates
    BY <1>2, <2>1, RequestedStep DEF Unfinished
  <2> QED
    BY <1>2, <2>2 DEF WithDependents, LiveLease, Leased, FailedStates
<1>3. CASE j \in reached /\ ~Waiting(row[j]) /\ Leased(row[j])
  <2>1. WriteCancelRequest(row[j]).lease = row[j].lease
    BY <1>1 DEF WriteCancelRequest, Rows
  <2> QED
    BY <1>3, <2>1 DEF WithDependents, LiveLease
<1>4. CASE ~(j \in reached /\ (Waiting(row[j]) \/ Leased(row[j])))
  BY <1>4 DEF WithDependents, LeasesOnly
<1> QED
  BY <1>2, <1>3, <1>4

LEMMA OneWriteLease ==
  ASSUME Inv, NEW j \in Jobs, NEW s, LiveLease(s) => LiveLease(row[j])
  PROVE  LeasesOnly([row EXCEPT ![j] = s], {})
<1>1. \A i \in Jobs : [row EXCEPT ![j] = s][i] = IF i = j THEN s ELSE row[i]
  BY DEF Inv, TypeOK
<1> QED
  BY <1>1 DEF LeasesOnly

LEMMA TerminalWriteLease ==
  ASSUME NEW r \in Rows, NEW state, NEW code
  PROVE  ~LiveLease(WriteTerminal(r, state, code)) /\ ~LiveLease(WriteRetry(r, code))
<1>1. WriteTerminal(r, state, code).lease = 0 /\ WriteRetry(r, code).lease = 0
  BY DEF WriteTerminal, WriteRetry, Rows
<1> QED
  BY <1>1 DEF LiveLease

LEMMA PersistLease ==
  ASSUME NEW r \in Rows, NEW next \in Jobs
  PROVE  /\ LiveLease(persistSupersede(r, next)) => LiveLease(r)
         /\ LiveLease(persistCancel(r)) => LiveLease(r)
         /\ LiveLease([persistCancel(r) EXCEPT !.cancel = TRUE]) => LiveLease(r)
<1> DEFINE s == persistSupersede(r, next)
           c == persistCancel(r)
           o == [c EXCEPT !.cancel = TRUE]
<1>1. s.state = (IF Leased(r) THEN "leased" ELSE "superseded") /\ s.lease = r.lease
  BY DEF persistSupersede, Write, Rows, Leased
<1>2. /\ c.state = (IF Leased(r) THEN "leased" ELSE "cancelled") /\ c.lease = r.lease
      /\ o.state = c.state /\ o.lease = c.lease
  BY DEF persistCancel, Write, Rows, Leased
<1> HIDE DEF s, c, o
<1>3. LiveLease(s) => LiveLease(r)
  BY <1>1 DEF LiveLease, Leased
<1>4. (LiveLease(c) => LiveLease(r)) /\ (LiveLease(o) => LiveLease(r))
  BY <1>2 DEF LiveLease, Leased
<1> QED
  BY <1>3, <1>4 DEF s, c, o

LEMMA ScheduledJobsLease ==
  ASSUME Inv,
         NEW new \in SUBSET Jobs, NEW superseded \in SUBSET Jobs,
         NEW cancelled \in SUBSET Jobs,
         persistScheduledJobs(new, superseded, cancelled),
         \A j \in superseded : \E n \in new : SubjectOf[n] = SubjectOf[j]
  PROVE  LeasesOnly(row', {})
<1> DEFINE roots == {j \in superseded \cup cancelled : Waiting(row[j])}
           planned == [j \in Jobs |->
                        CASE j \in new        -> NewRow
                          [] j \in superseded -> persistSupersede(row[j], Successor(new, j))
                          [] j \in cancelled  -> persistCancel(row[j])
                          [] OTHER            -> row[j]]
<1>1. row' = WithDependents(roots, planned)
  BY DEF persistScheduledJobs
<1>2. ASSUME NEW j \in Jobs, LiveLease(planned[j])
      PROVE  LiveLease(row[j])
  <2>1. row[j] \in Rows
    BY DEF Inv, TypeOK
  <2>2. \/ planned[j] = NewRow
        \/ j \in superseded /\ planned[j] = persistSupersede(row[j], Successor(new, j))
        \/ planned[j] = persistCancel(row[j])
        \/ planned[j] = row[j]
    OBVIOUS
  <2>3. j \in superseded => Successor(new, j) \in Jobs
    BY SuccessorExists
  <2>4. ~LiveLease(NewRow)
    BY DEF NewRow, NoRow, LiveLease, Leased
  <2> HIDE DEF planned
  <2> QED
    BY <1>2, <2>1, <2>2, <2>3, <2>4, PersistLease
<1> HIDE DEF planned, roots
<1>3. LeasesOnly(planned, {})
  BY <1>2 DEF LeasesOnly
<1> QED
  BY <1>1, <1>3, DependentsLease

LEMMA ClaimJobsLease ==
  ASSUME Inv, NEW expired, NEW doomed, NEW claimed,
         claimJobs(expired, doomed, claimed)
  PROVE  LeasesOnly(row', claimed)
<1> DEFINE roots == Ended(expired, doomed)
           planned == [j \in Jobs |-> CASE j \in expired -> WriteExpired(j)
                                        [] j \in doomed  -> WriteDoomed(j)
                                        [] j \in claimed -> WriteClaim(row[j])
                                        [] OTHER         -> row[j]]
<1>1. row' = WithDependents(roots, planned)
  BY DEF claimJobs
<1>2. ASSUME NEW j \in Jobs, LiveLease(planned[j])
      PROVE  j \in claimed \/ LiveLease(row[j])
  <2>1. row[j] \in Rows
    BY DEF Inv, TypeOK
  <2>2. \/ planned[j] = WriteExpired(j)
        \/ planned[j] = WriteDoomed(j)
        \/ j \in claimed
        \/ planned[j] = row[j]
    OBVIOUS
  <2>3. ~LiveLease(WriteExpired(j)) /\ ~LiveLease(WriteDoomed(j))
    BY <2>1, TerminalWriteLease DEF WriteExpired, WriteDoomed, WriteRequested
  <2> HIDE DEF planned
  <2> QED
    BY <1>2, <2>2, <2>3
<1> HIDE DEF planned, roots
<1>3. LeasesOnly(planned, claimed)
  BY <1>2 DEF LeasesOnly
<1> QED
  BY <1>1, <1>3, DependentsLease

LEMMA NewLeases ==
  ASSUME Inv, [Next]_vars, ~Claim
  PROVE  LeasesOnly(row', {})
<1>1. \A t \in held : t[1] \in Jobs
  BY DEF Inv, TypeOK
<1>2. \A j \in Jobs : row[j] \in Rows
  BY DEF Inv, TypeOK
<1>3. CASE Schedule
  <2>1. PICK new \in SUBSET Jobs : ScheduleJobs(new)
    BY <1>3 DEF Schedule
  <2> DEFINE superseded == UNION {Current(SubjectOf[n]) : n \in new}
  <2>2. persistScheduledJobs(new, superseded, {})
    BY <2>1 DEF ScheduleJobs
  <2>3. superseded \in SUBSET Jobs
        /\ \A j \in superseded : \E n \in new : SubjectOf[n] = SubjectOf[j]
    BY CurrentJobs
  <2> HIDE DEF superseded
  <2> QED
    BY <2>2, <2>3, ScheduledJobsLease
<1>4. CASE Close
  <2>1. PICK subject : persistScheduledJobs({}, {}, Current(subject))
    BY <1>4 DEF Close, CloseSubject
  <2> QED
    BY <2>1, CurrentJobs, ScheduledJobsLease
<1>5. CASE Activate
  <2>1. PICK c \in Configs, new \in SUBSET Jobs : ActivateConfiguration(c, new)
    BY <1>5 DEF Activate
  <2> DEFINE superseded == UNION {Current(SubjectOf[n]) : n \in new}
             cancelled == {j \in Jobs : Wanted(row[j])} \ superseded
  <2>2. persistScheduledJobs(new, superseded, cancelled)
    BY <2>1 DEF ActivateConfiguration
  <2>3. superseded \in SUBSET Jobs /\ cancelled \in SUBSET Jobs
        /\ \A j \in superseded : \E n \in new : SubjectOf[n] = SubjectOf[j]
    BY CurrentJobs
  <2> HIDE DEF superseded, cancelled
  <2> QED
    BY <2>2, <2>3, ScheduledJobsLease
<1>6. CASE Cancel
  <2>1. PICK j \in Jobs : CancelJob(j)
    BY <1>6 DEF Cancel
  <2> DEFINE s == [persistCancel(row[j]) EXCEPT !.cancel = TRUE]
  <2>2. LiveLease(s) => LiveLease(row[j])
    BY <1>2, PersistLease
  <2> HIDE DEF s
  <2> QED
    BY <2>1, <2>2, OneWriteLease, DependentsLease DEF CancelJob, s
<1>7. CASE Heartbeat
  <2>1. PICK t \in held : heartbeatJob(t[1], t[2])
    BY <1>7 DEF Heartbeat
  <2> DEFINE s == [row[t[1]] EXCEPT !.lease = LeaseTicks]
  <2>2. row' = [row EXCEPT ![t[1]] = s] /\ LiveLease(row[t[1]])
    BY <2>1 DEF heartbeatJob, HoldsLease
  <2> HIDE DEF s
  <2> QED
    BY <1>1, <2>2, OneWriteLease
<1>8. CASE Fail
  <2>1. PICK t \in held : failJob(t[1], t[2])
    BY <1>8 DEF Fail
  <2>2. PICK s, roots : row' = WithDependents(roots, [row EXCEPT ![t[1]] = s])
                        /\ LiveLease(row[t[1]])
    BY <2>1 DEF failJob, HoldsLease
  <2> QED
    BY <1>1, <2>2, OneWriteLease, DependentsLease
<1>9. CASE Complete
  <2>1. PICK t \in held : completeJob(t[1], t[2])
    BY <1>9 DEF Complete
  <2> DEFINE s == WriteTerminal(row[t[1]], "succeeded", "none")
  <2>2. row' = [row EXCEPT ![t[1]] = s] /\ LiveLease(row[t[1]])
    BY <2>1 DEF completeJob, HoldsLease
  <2> HIDE DEF s
  <2> QED
    BY <1>1, <2>2, OneWriteLease
<1>10. CASE Tick
  <2> SUFFICES ASSUME NEW j \in Jobs, LiveLease(row'[j])
               PROVE  LiveLease(row[j])
    BY DEF LeasesOnly
  <2>1. /\ row'[j].state = row[j].state
        /\ row'[j].lease = IF row[j].lease > 0 THEN row[j].lease - 1 ELSE 0
    BY <1>2, <1>10 DEF Tick, Rows
  <2>2. row[j].lease \in 0..LeaseTicks
    BY <1>2 DEF Rows
  <2> QED
    BY <2>1, <2>2 DEF LiveLease, Leased
<1>11. CASE PutPolicy \/ Lose \/ UNCHANGED vars
  <2>1. row' = row
    BY <1>11 DEF PutPolicy, putConcurrencyPolicy, Lose, loseLease, vars
  <2> QED
    BY <2>1 DEF LeasesOnly
<1> QED
  BY <1>3, <1>4, <1>5, <1>6, <1>7, <1>8, <1>9, <1>10, <1>11 DEF Next

(* What CapacityRespected says of one step.                                *)
WithinLimits ==
  /\ Cardinality(Live') > Cardinality(Live) => Cardinality(Live') <= policy'.global
  /\ \A r \in Repositories :
       Cardinality(OfRepository(Live', r)) > Cardinality(OfRepository(Live, r))
         => Cardinality(OfRepository(Live', r)) <= policy'.repository
  /\ \A s \in Services :
       Cardinality(OfService(Live', s)) > Cardinality(OfService(Live, s))
         => Cardinality(OfService(Live', s)) <= policy'.service

(* A set that gains nothing does not grow; one that gains a claim has the  *)
(* limit capacityAvailable counted it against.                             *)
LEMMA GrowthIsCounted ==
  ASSUME NEW old \in SUBSET Jobs, NEW now \in SUBSET Jobs, NEW gain \in SUBSET Jobs,
         now \subseteq old \cup gain, NEW limit \in Nat,
         gain # {} => Cardinality(old \cup gain) <= limit,
         Cardinality(now) > Cardinality(old)
  PROVE  Cardinality(now) <= limit
<1>1. IsFiniteSet(old) /\ IsFiniteSet(old \cup gain) /\ IsFiniteSet(now)
  BY ScopeAssumption, FS_Subset
<1>2. /\ Cardinality(old) \in Nat /\ Cardinality(now) \in Nat
      /\ Cardinality(old \cup gain) \in Nat
  BY <1>1, FS_CardinalityType
<1>3. gain # {}
  <2> SUFFICES ASSUME gain = {} PROVE FALSE
    OBVIOUS
  <2>1. now \subseteq old
    OBVIOUS
  <2>2. Cardinality(now) <= Cardinality(old)
    BY <1>1, <2>1, FS_Subset
  <2> QED
    BY <1>2, <2>2
<1>4. Cardinality(now) <= Cardinality(old \cup gain)
  BY <1>1, FS_Subset
<1> QED
  BY <1>2, <1>3, <1>4

LEMMA NextWithinLimits == Inv /\ [Next]_vars => WithinLimits
<1> SUFFICES ASSUME Inv, [Next]_vars
             PROVE  WithinLimits
  OBVIOUS
<1>1. PICK claimed \in SUBSET Jobs :
        /\ LeasesOnly(row', claimed)
        /\ claimed # {} => capacityAvailable(claimed) /\ policy' = policy
  <2>1. CASE ~Claim
    <3>1. {} \in SUBSET Jobs
      OBVIOUS
    <3> QED
      BY <2>1, <3>1, NewLeases
  <2>2. CASE Claim
    <3>1. PICK expired \in SUBSET Expired, doomed \in SUBSET Doomed,
               claimed \in SUBSET Claimable : claimJobs(expired, doomed, claimed)
      BY <2>2 DEF Claim
    <3>2. claimed \in SUBSET Jobs
      BY DEF Claimable, Due
    <3> QED
      BY <3>1, <3>2, ClaimJobsLease DEF claimJobs
  <2> QED
    BY <2>1, <2>2
<1>2. policy' \in PolicyLimits
  BY NextInv, LimitAssumption DEF Inv, TypeOK
<1>3. policy'.global \in Nat /\ policy'.repository \in Nat /\ policy'.service \in Nat
  BY <1>2 DEF PolicyLimits
<1>4. /\ Live \in SUBSET Jobs /\ Live' \in SUBSET Jobs
      /\ Live' \subseteq Live \cup claimed
  BY <1>1 DEF Live, LeasesOnly, LiveLease, Leased
<1>5. Cardinality(Live') > Cardinality(Live) => Cardinality(Live') <= policy'.global
  <2>1. claimed # {} => Cardinality(Live \cup claimed) <= policy'.global
    BY <1>1 DEF capacityAvailable
  <2> QED
    BY <1>3, <1>4, <2>1, GrowthIsCounted
<1>6. ASSUME NEW r \in Repositories,
             Cardinality(OfRepository(Live', r)) > Cardinality(OfRepository(Live, r))
      PROVE  Cardinality(OfRepository(Live', r)) <= policy'.repository
  <2> DEFINE old == OfRepository(Live, r)
             now == OfRepository(Live', r)
             gain == OfRepository(claimed, r)
  <2>1. /\ old \in SUBSET Jobs /\ now \in SUBSET Jobs /\ gain \in SUBSET Jobs
        /\ now \subseteq old \cup gain
        /\ old \cup gain = OfRepository(Live \cup claimed, r)
    BY <1>4 DEF OfRepository
  <2>2. gain # {} => Cardinality(OfRepository(Live \cup claimed, r)) <= policy'.repository
    BY <1>1 DEF capacityAvailable, OfRepository
  <2> HIDE DEF old, now, gain
  <2>3. Cardinality(now) > Cardinality(old)
    BY <1>6 DEF old, now
  <2>4. Cardinality(now) <= policy'.repository
    BY <1>3, <2>1, <2>2, <2>3, GrowthIsCounted
  <2> QED
    BY <2>4 DEF now
<1>7. ASSUME NEW s \in Services,
             Cardinality(OfService(Live', s)) > Cardinality(OfService(Live, s))
      PROVE  Cardinality(OfService(Live', s)) <= policy'.service
  <2> DEFINE old == OfService(Live, s)
             now == OfService(Live', s)
             gain == OfService(claimed, s)
  <2>1. /\ old \in SUBSET Jobs /\ now \in SUBSET Jobs /\ gain \in SUBSET Jobs
        /\ now \subseteq old \cup gain
        /\ old \cup gain = OfService(Live \cup claimed, s)
    BY <1>4 DEF OfService
  <2>2. gain # {} => Cardinality(OfService(Live \cup claimed, s)) <= policy'.service
    BY <1>1 DEF capacityAvailable, OfService
  <2> HIDE DEF old, now, gain
  <2>3. Cardinality(now) > Cardinality(old)
    BY <1>7 DEF old, now
  <2>4. Cardinality(now) <= policy'.service
    BY <1>3, <2>1, <2>2, <2>3, GrowthIsCounted
  <2> QED
    BY <2>4 DEF now
<1> QED
  BY <1>5, <1>6, <1>7 DEF WithinLimits

(* claimJobs keeps every scope within the limits it reads under the lock,  *)
(* whatever the batch, the expired leases it returns to the queue and the  *)
(* policies stored before.                                                 *)
THEOREM LimitsHold == Spec => CapacityRespected
<1>1. Inv /\ [Next]_vars => [WithinLimits]_vars
  BY NextWithinLimits
<1>2. WithinLimits =>
        LET Grows(S) == Cardinality(S') > Cardinality(S)
        IN  /\ Grows(Live) => Cardinality(Live') <= policy'.global
            /\ \A r \in Repositories : Grows(OfRepository(Live, r))
                 => Cardinality(OfRepository(Live, r)') <= policy'.repository
            /\ \A s \in Services : Grows(OfService(Live, s))
                 => Cardinality(OfService(Live, s)') <= policy'.service
  BY DEF WithinLimits, OfRepository, OfService
<1> QED
  BY <1>1, <1>2, Invariant, PTL DEF Spec, CapacityRespected

-----------------------------------------------------------------------------
(* JobQueue implements JobLifecycle: the transactions of the workers and   *)
(* of the scheduler, each with SQL of its own, move every job by one       *)
(* transition of the reducer or not at all.                                *)

(* The refinement mapping, of one row.                                     *)
StatusOf(r) == [state |-> r.state, code |-> IF r.state = "failed" THEN r.code ELSE "none"]

(* The moves of the reducer, from the row of j to the row s.               *)
Moves(j, s) ==
  LET r == row[j]
  IN  \/ StatusOf(s) = StatusOf(r)
      \/ r.state = "absent" /\ s.state = "queued"
      \/ Waiting(r) /\ s.state = "leased"
      \/ Waiting(r) /\ s.state = "failed" /\ s.code = "dependency"
      \/ Leased(r) /\ s.state \in {"succeeded", "retry_wait"}
      \/ Leased(r) /\ s.state = "failed" /\ s.code = "execution"
      \/ Unfinished(r) /\ s.state \in {"cancelled", "superseded"}

LEMMA Reductions ==
  /\ \A c \in {"queued", "retry_wait"} : \A code :
       /\ Lifecycle!Plain("leased") \in
            Lifecycle!reduceJobState([state |-> c, code |-> code], "lease")
       /\ Lifecycle!Failed("dependency") \in
            Lifecycle!reduceJobState([state |-> c, code |-> code], "dependency_failed")
  /\ \A code :
       /\ Lifecycle!Plain("succeeded") \in
            Lifecycle!reduceJobState([state |-> "leased", code |-> code], "succeed")
       /\ Lifecycle!Plain("retry_wait") \in
            Lifecycle!reduceJobState([state |-> "leased", code |-> code], "retry")
       /\ Lifecycle!Failed("execution") \in
            Lifecycle!reduceJobState([state |-> "leased", code |-> code], "fail")
  /\ \A c \in {"queued", "retry_wait", "leased"} : \A code :
       /\ Lifecycle!Plain("cancelled") \in
            Lifecycle!reduceJobState([state |-> c, code |-> code], "cancel")
       /\ Lifecycle!Plain("superseded") \in
            Lifecycle!reduceJobState([state |-> c, code |-> code], "supersede")
BY DEF Lifecycle!reduceJobState, Lifecycle!TerminalStates, Lifecycle!Plain, Lifecycle!Failed

(* One move of a row is one step of the reducer.                           *)
Reduced(r, s) == \E t \in Lifecycle!Transitions :
                   StatusOf(s) \in Lifecycle!reduceJobState(StatusOf(r), t)

LEMMA MovesAreReductions ==
  ASSUME NEW j \in Jobs, NEW s, Moves(j, s)
  PROVE  \/ StatusOf(s) = StatusOf(row[j])
         \/ row[j].state = "absent" /\ s.state = "queued"
         \/ row[j].state # "absent" /\ Reduced(row[j], s)
<1> DEFINE r == row[j]
           code == IF r.state = "failed" THEN r.code ELSE "none"
<1>1. StatusOf(r) = [state |-> r.state, code |-> code]
  BY DEF StatusOf
<1>2. s.state # "failed" => StatusOf(s) = Lifecycle!Plain(s.state)
  BY DEF StatusOf, Lifecycle!Plain
<1>3. s.state = "failed" => StatusOf(s) = Lifecycle!Failed(s.code)
  BY DEF StatusOf, Lifecycle!Failed
<1> HIDE DEF code
<1>4. {"lease", "succeed", "retry", "fail", "cancel", "supersede", "dependency_failed"}
        = Lifecycle!Transitions
  BY DEF Lifecycle!Transitions
<1>5. CASE Waiting(r) /\ s.state = "leased"
  BY <1>1, <1>2, <1>4, <1>5, Reductions DEF Reduced, Waiting, WaitingStates
<1>6. CASE Waiting(r) /\ s.state = "failed" /\ s.code = "dependency"
  BY <1>1, <1>3, <1>4, <1>6, Reductions DEF Reduced, Waiting, WaitingStates
<1>7. CASE Leased(r) /\ s.state = "succeeded"
  BY <1>1, <1>2, <1>4, <1>7, Reductions DEF Reduced, Leased
<1>8. CASE Leased(r) /\ s.state = "retry_wait"
  BY <1>1, <1>2, <1>4, <1>8, Reductions DEF Reduced, Leased
<1>9. CASE Leased(r) /\ s.state = "failed" /\ s.code = "execution"
  BY <1>1, <1>3, <1>4, <1>9, Reductions DEF Reduced, Leased
<1>10. CASE Unfinished(r) /\ s.state = "cancelled"
  BY <1>1, <1>2, <1>4, <1>10, Reductions
  DEF Reduced, Unfinished, Waiting, WaitingStates, Leased
<1>11. CASE Unfinished(r) /\ s.state = "superseded"
  BY <1>1, <1>2, <1>4, <1>11, Reductions
  DEF Reduced, Unfinished, Waiting, WaitingStates, Leased
<1> QED
  BY <1>5, <1>6, <1>7, <1>8, <1>9, <1>10, <1>11 DEF Moves

(* A transaction whose every row moves is a step of the lifecycle.         *)
LEMMA LifecycleStep ==
  ASSUME \A j \in Jobs : Moves(j, row'[j])
  PROVE  Lifecycle!Next
<1> SUFFICES ASSUME NEW j \in Jobs
             PROVE  \/ Lifecycle!Insert(j)
                    \/ Lifecycle!Reduce(j)
                    \/ StatusOf(row'[j]) = StatusOf(row[j])
  BY DEF Lifecycle!Next, StatusOf
<1>1. CASE row[j].state = "absent" /\ row'[j].state = "queued"
  BY <1>1 DEF Lifecycle!Insert, Lifecycle!Plain
<1>2. CASE row[j].state # "absent" /\ Reduced(row[j], row'[j])
  BY <1>2 DEF Lifecycle!Reduce, Reduced, StatusOf
<1> QED
  BY <1>1, <1>2, MovesAreReductions

-----------------------------------------------------------------------------
(* The row writes.                                                         *)

LEMMA NoMove ==
  ASSUME NEW j \in Jobs
  PROVE  Moves(j, row[j])
BY DEF Moves

(* A dependency ends waiting jobs only: a leased one has its prerequisites *)
(* done, so that the reducer's refusal to fail it is never met.            *)
LEMMA RequestedMove ==
  ASSUME Inv, NEW j \in Jobs, Unfinished(row[j]), NEW d \in BOOLEAN,
         terminalState(row[j], d) # "none", Leased(row[j]) => ~d
  PROVE  Moves(j, WriteRequested(row[j], d))
<1> DEFINE state == terminalState(row[j], d)
           code  == IF state = "failed" THEN "dependency" ELSE "none"
           s == WriteTerminal(row[j], state, code)
<1>1. state \in {"superseded", "cancelled", "failed"} /\ (state = "failed" => d)
  BY DEF terminalState
<1>2. WriteRequested(row[j], d) = s
  BY DEF WriteRequested
<1>3. row[j] \in Rows
  BY DEF Inv, TypeOK
<1> HIDE DEF state
<1>4. s.state = state /\ s.code = code
  BY <1>3 DEF WriteTerminal, Rows
<1> HIDE DEF s
<1>5. Moves(j, s)
  BY <1>1, <1>4 DEF Moves, Unfinished
<1> QED
  BY <1>2, <1>5

LEMMA LeasedHasNoFailedPrerequisite ==
  ASSUME Inv, NEW j \in Jobs, Leased(row[j])
  PROVE  ~failedPrerequisite(j)
BY DEF Inv, RunsOnlyAfterPrerequisites, readyPrerequisites, failedPrerequisite, FailedStates

LEMMA DependentsMove ==
  ASSUME Inv, NEW roots, NEW planned, \A j \in Jobs : Moves(j, planned[j])
  PROVE  \A j \in Jobs : Moves(j, WithDependents(roots, planned)[j])
<1> SUFFICES ASSUME NEW j \in Jobs
             PROVE  Moves(j, WithDependents(roots, planned)[j])
  OBVIOUS
<1> DEFINE reached == TerminalDependents(roots)
<1>1. row[j] \in Rows
  BY DEF Inv, TypeOK
<1>2. CASE j \in reached /\ Waiting(row[j])
  <2>1. terminalState(row[j], TRUE) # "none"
    BY <1>1 DEF Rows, terminalState
  <2>2. ~Leased(row[j])
    BY <1>2 DEF Waiting, WaitingStates, Leased
  <2>3. Moves(j, WriteRequested(row[j], TRUE))
    BY <1>2, <2>1, <2>2, RequestedMove DEF Unfinished
  <2> QED
    BY <1>2, <2>3 DEF WithDependents
<1>3. CASE j \in reached /\ ~Waiting(row[j]) /\ Leased(row[j])
  <2>1. StatusOf(WriteCancelRequest(row[j])) = StatusOf(row[j])
    BY <1>1 DEF StatusOf, WriteCancelRequest, Rows
  <2> QED
    BY <1>3, <2>1 DEF WithDependents, Moves
<1>4. CASE ~(j \in reached /\ (Waiting(row[j]) \/ Leased(row[j])))
  BY <1>4 DEF WithDependents
<1> QED
  BY <1>2, <1>3, <1>4

(* A write that leaves the rest of the table alone, before the walk.       *)
LEMMA OneWriteMove ==
  ASSUME Inv, NEW j \in Jobs, NEW s, NEW roots, Moves(j, s),
         row' = WithDependents(roots, [row EXCEPT ![j] = s])
  PROVE  Lifecycle!Next
<1> DEFINE planned == [row EXCEPT ![j] = s]
<1>1. \A i \in Jobs : planned[i] = IF i = j THEN s ELSE row[i]
  BY DEF Inv, TypeOK
<1> HIDE DEF planned
<1>2. \A i \in Jobs : Moves(i, planned[i])
  BY <1>1, NoMove
<1>3. \A i \in Jobs : Moves(i, row'[i])
  BY <1>2, DependentsMove DEF planned
<1> QED
  BY <1>3, LifecycleStep

LEMMA PlainWriteMove ==
  ASSUME Inv, NEW j \in Jobs, NEW s, Moves(j, s), row' = [row EXCEPT ![j] = s]
  PROVE  Lifecycle!Next
<1>1. \A i \in Jobs : row'[i] = IF i = j THEN s ELSE row[i]
  BY DEF Inv, TypeOK
<1>2. \A i \in Jobs : Moves(i, row'[i])
  BY <1>1, NoMove
<1> QED
  BY <1>2, LifecycleStep

-----------------------------------------------------------------------------
(* The actions.                                                            *)

LEMMA GivenUpMoves ==
  ASSUME Inv, NEW j \in Jobs, Unfinished(row[j]), NEW next \in Jobs
  PROVE  /\ Moves(j, persistSupersede(row[j], next))
         /\ Moves(j, persistCancel(row[j]))
         /\ Moves(j, [persistCancel(row[j]) EXCEPT !.cancel = TRUE])
<1> DEFINE r == row[j]
           s == persistSupersede(r, next)
           c == persistCancel(r)
           o == [c EXCEPT !.cancel = TRUE]
<1>1. r \in Rows
  BY DEF Inv, TypeOK
<1>2. s.state = IF Leased(r) THEN "leased" ELSE "superseded"
  BY <1>1 DEF persistSupersede, Write, Rows, Leased
<1>3. c.state = (IF Leased(r) THEN "leased" ELSE "cancelled") /\ o.state = c.state
  BY <1>1 DEF persistCancel, Write, Rows, Leased
<1> HIDE DEF s, c, o
<1>4. Moves(j, s)
  BY <1>2 DEF Moves, StatusOf, Leased
<1>5. Moves(j, c) /\ Moves(j, o)
  BY <1>3 DEF Moves, StatusOf, Leased
<1> QED
  BY <1>4, <1>5 DEF s, c, o

LEMMA ScheduledJobsMove ==
  ASSUME Inv,
         NEW new \in SUBSET Jobs, NEW superseded \in SUBSET Jobs,
         NEW cancelled \in SUBSET Jobs,
         persistScheduledJobs(new, superseded, cancelled),
         \A n \in new : row[n].state = "absent",
         \A j \in superseded \cup cancelled : Unfinished(row[j]),
         \A j \in superseded : \E n \in new : SubjectOf[n] = SubjectOf[j]
  PROVE  Lifecycle!Next
<1> DEFINE roots == {j \in superseded \cup cancelled : Waiting(row[j])}
           planned == [j \in Jobs |->
                        CASE j \in new        -> NewRow
                          [] j \in superseded -> persistSupersede(row[j], Successor(new, j))
                          [] j \in cancelled  -> persistCancel(row[j])
                          [] OTHER            -> row[j]]
<1>1. row' = WithDependents(roots, planned)
  BY DEF persistScheduledJobs
<1>2. \A j \in superseded \cup cancelled : j \notin new
  BY DEF Unfinished, Waiting, WaitingStates, Leased
<1>3. ASSUME NEW j \in Jobs
      PROVE  Moves(j, planned[j])
  <2>1. CASE j \in new
    <3>1. planned[j] = NewRow
      BY <1>2, <2>1
    <3>2. NewRow.state = "queued"
      BY DEF NewRow, NoRow
    <3> HIDE DEF planned
    <3> QED
      BY <2>1, <3>1, <3>2 DEF Moves
  <2>2. CASE j \in superseded
    <3>1. \/ planned[j] = persistSupersede(row[j], Successor(new, j))
          \/ planned[j] = persistCancel(row[j])
      BY <1>2, <2>2
    <3>2. Successor(new, j) \in Jobs
      BY <2>2, SuccessorExists
    <3> HIDE DEF planned
    <3> QED
      BY <2>2, <3>1, <3>2, GivenUpMoves
  <2>3. CASE j \in cancelled /\ j \notin superseded
    <3>1. planned[j] = persistCancel(row[j])
      BY <1>2, <2>3
    <3> HIDE DEF planned
    <3> QED
      BY <2>3, <3>1, GivenUpMoves
  <2>4. CASE j \notin new /\ j \notin superseded \cup cancelled
    <3>1. planned[j] = row[j]
      BY <2>4
    <3> QED
      BY <3>1, NoMove
  <2> QED
    BY <2>1, <2>2, <2>3, <2>4
<1> HIDE DEF planned, roots
<1>4. \A j \in Jobs : Moves(j, row'[j])
  BY <1>1, <1>3, DependentsMove
<1> QED
  BY <1>4, LifecycleStep

LEMMA ScheduleMove ==
  ASSUME Inv, NEW new \in SUBSET Jobs, ScheduleJobs(new)
  PROVE  Lifecycle!Next
<1> DEFINE superseded == UNION {Current(SubjectOf[n]) : n \in new}
<1>1. Schedulable(new, active) /\ persistScheduledJobs(new, superseded, {})
  BY DEF ScheduleJobs
<1>2. /\ superseded \in SUBSET Jobs
      /\ \A j \in superseded : Unfinished(row[j])
      /\ \A j \in superseded : \E n \in new : SubjectOf[n] = SubjectOf[j]
  BY CurrentJobs
<1>3. \A n \in new : row[n].state = "absent"
  BY <1>1 DEF Schedulable
<1> HIDE DEF superseded
<1> QED
  BY <1>1, <1>2, <1>3, ScheduledJobsMove

LEMMA CloseMove ==
  ASSUME Inv, NEW subject, CloseSubject(subject)
  PROVE  Lifecycle!Next
<1>1. persistScheduledJobs({}, {}, Current(subject))
  BY DEF CloseSubject
<1> QED
  BY <1>1, CurrentJobs, ScheduledJobsMove

LEMMA ActivateMove ==
  ASSUME Inv, NEW c, NEW new \in SUBSET Jobs, ActivateConfiguration(c, new)
  PROVE  Lifecycle!Next
<1> DEFINE superseded == UNION {Current(SubjectOf[n]) : n \in new}
           cancelled == {j \in Jobs : Wanted(row[j])} \ superseded
<1>1. persistScheduledJobs(new, superseded, cancelled) /\ (new = {} \/ Schedulable(new, c))
  BY DEF ActivateConfiguration
<1>2. /\ superseded \in SUBSET Jobs
      /\ \A j \in superseded : Unfinished(row[j])
      /\ \A j \in superseded : \E n \in new : SubjectOf[n] = SubjectOf[j]
  BY CurrentJobs
<1>3. cancelled \in SUBSET Jobs /\ \A j \in cancelled : Unfinished(row[j])
  BY DEF Wanted
<1>4. \A n \in new : row[n].state = "absent"
  BY <1>1 DEF Schedulable
<1> HIDE DEF superseded, cancelled
<1> QED
  BY <1>1, <1>2, <1>3, <1>4, ScheduledJobsMove

LEMMA CancelJobMove ==
  ASSUME Inv, NEW j \in Jobs, CancelJob(j)
  PROVE  Lifecycle!Next
<1> DEFINE s == [persistCancel(row[j]) EXCEPT !.cancel = TRUE]
<1>1. Moves(j, s)
  BY GivenUpMoves DEF CancelJob
<1> HIDE DEF s
<1> QED
  BY <1>1, OneWriteMove DEF CancelJob, s

(* The end of a leased job whose attempts are spent, and its retry.        *)
LEMMA LeasedWritesMove ==
  ASSUME Inv, NEW j \in Jobs, Leased(row[j]), NEW code
  PROVE  /\ Requested(j) => Moves(j, WriteRequested(row[j], failedPrerequisite(j)))
         /\ Moves(j, WriteTerminal(row[j], "failed", "execution"))
         /\ Moves(j, WriteTerminal(row[j], "succeeded", "none"))
         /\ Moves(j, WriteRetry(row[j], code))
<1> DEFINE f == WriteTerminal(row[j], "failed", "execution")
           c == WriteTerminal(row[j], "succeeded", "none")
           w == WriteRetry(row[j], code)
<1>1. row[j] \in Rows
  BY DEF Inv, TypeOK
<1>2. /\ f.state = "failed" /\ f.code = "execution"
      /\ c.state = "succeeded" /\ w.state = "retry_wait"
  BY <1>1 DEF WriteTerminal, WriteRetry, Rows
<1>3. Requested(j) => Moves(j, WriteRequested(row[j], failedPrerequisite(j)))
  <2>1. failedPrerequisite(j) \in BOOLEAN
    BY DEF failedPrerequisite
  <2> QED
    BY <2>1, LeasedHasNoFailedPrerequisite, RequestedMove DEF Requested, Unfinished
<1> HIDE DEF f, c, w
<1>4. Moves(j, f) /\ Moves(j, c) /\ Moves(j, w)
  BY <1>2 DEF Moves
<1> QED
  BY <1>3, <1>4 DEF f, c, w

LEMMA FailJobMove ==
  ASSUME Inv, NEW j \in Jobs, NEW n, failJob(j, n)
  PROVE  Lifecycle!Next
<1> DEFINE s == IF Requested(j) THEN WriteRequested(row[j], failedPrerequisite(j))
                ELSE IF Exhausted(j) THEN WriteTerminal(row[j], "failed", "execution")
                ELSE WriteRetry(row[j], "execution")
<1>1. Leased(row[j])
  BY DEF failJob, HoldsLease, LiveLease
<1>2. Moves(j, s)
  BY <1>1, LeasedWritesMove
<1> HIDE DEF s
<1> QED
  BY <1>2, OneWriteMove DEF failJob, s

LEMMA WriteDoomedMove ==
  ASSUME Inv, NEW j \in Doomed
  PROVE  Moves(j, WriteDoomed(j))
<1> DEFINE s == WriteTerminal(row[j], "cancelled", "none")
<1>1. /\ j \in Jobs /\ Waiting(row[j]) /\ Unfinished(row[j])
      /\ ~isAllowedByActiveConfig(j) \/ Requested(j) \/ Exhausted(j)
  BY DEF Doomed, Due, Unfinished
<1>2. row[j] \in Rows /\ GoodRow(row[j])
  BY <1>1 DEF Inv, TypeOK, GoodRows
<1>3. ~Exhausted(j) /\ ~Leased(row[j])
  BY <1>1, <1>2, Ranges DEF GoodRow, Exhausted, Rows, Waiting, WaitingStates, Leased
<1>4. Moves(j, s)
  <2>1. s.state = "cancelled"
    BY <1>2 DEF WriteTerminal, Rows
  <2> HIDE DEF s
  <2> QED
    BY <1>1, <2>1 DEF Moves
<1>5. Requested(j) => Moves(j, WriteRequested(row[j], failedPrerequisite(j)))
  <2>1. failedPrerequisite(j) \in BOOLEAN
    BY DEF failedPrerequisite
  <2> QED
    BY <1>1, <1>3, <2>1, RequestedMove DEF Requested
<1> QED
  BY <1>1, <1>3, <1>4, <1>5 DEF WriteDoomed

LEMMA ClaimJobsMove ==
  ASSUME Inv, NEW expired, NEW doomed, NEW claimed,
         claimJobs(expired, doomed, claimed)
  PROVE  Lifecycle!Next
<1> DEFINE roots == Ended(expired, doomed)
           planned == [j \in Jobs |-> CASE j \in expired -> WriteExpired(j)
                                        [] j \in doomed  -> WriteDoomed(j)
                                        [] j \in claimed -> WriteClaim(row[j])
                                        [] OTHER         -> row[j]]
<1>1. /\ expired \subseteq Expired /\ doomed \subseteq Doomed
      /\ claimed \subseteq Claimable
      /\ row' = WithDependents(roots, planned)
  BY DEF claimJobs
<1>2. Claimable \subseteq Due /\ Doomed \subseteq Due /\ Claimable \cap Doomed = {}
  BY DEF Claimable, Doomed
<1>3. \A j \in Due : j \notin Expired
  BY DEF Due, Expired, Leased, Waiting, WaitingStates
<1>4. ASSUME NEW j \in Jobs
      PROVE  Moves(j, planned[j])
  <2>1. row[j] \in Rows
    BY DEF Inv, TypeOK
  <2>2. CASE j \in expired
    <3>1. planned[j] = WriteExpired(j) /\ Leased(row[j])
      BY <1>1, <1>2, <1>3, <2>2 DEF Expired
    <3> HIDE DEF planned
    <3> QED
      BY <3>1, LeasedWritesMove DEF WriteExpired
  <2>3. CASE j \in doomed
    <3>1. planned[j] = WriteDoomed(j)
      BY <1>1, <1>2, <1>3, <2>3
    <3> HIDE DEF planned
    <3> QED
      BY <1>1, <2>3, <3>1, WriteDoomedMove
  <2>4. CASE j \in claimed
    <3>1. planned[j] = WriteClaim(row[j]) /\ Waiting(row[j])
      BY <1>1, <1>2, <1>3, <2>4 DEF Due
    <3>2. WriteClaim(row[j]).state = "leased"
      BY <2>1 DEF WriteClaim, Rows
    <3> HIDE DEF planned
    <3> QED
      BY <3>1, <3>2 DEF Moves
  <2>5. CASE j \notin expired \cup doomed \cup claimed
    <3>1. planned[j] = row[j]
      BY <2>5
    <3> QED
      BY <3>1, NoMove
  <2> QED
    BY <2>2, <2>3, <2>4, <2>5
<1> HIDE DEF planned, roots
<1>5. \A j \in Jobs : Moves(j, row'[j])
  BY <1>1, <1>4, DependentsMove
<1> QED
  BY <1>5, LifecycleStep

LEMMA HeartbeatMove ==
  ASSUME Inv, NEW j \in Jobs, NEW n, heartbeatJob(j, n)
  PROVE  Lifecycle!Next
<1> DEFINE s == [row[j] EXCEPT !.lease = LeaseTicks]
<1>1. StatusOf(s) = StatusOf(row[j])
  BY DEF Inv, TypeOK, Rows, StatusOf
<1>2. row' = [row EXCEPT ![j] = s]
  BY DEF heartbeatJob
<1> HIDE DEF s
<1> QED
  BY <1>1, <1>2, PlainWriteMove DEF Moves

LEMMA CompleteMove ==
  ASSUME Inv, NEW j \in Jobs, NEW n, completeJob(j, n)
  PROVE  Lifecycle!Next
<1> DEFINE s == WriteTerminal(row[j], "succeeded", "none")
<1>1. Moves(j, s)
  BY LeasedWritesMove DEF completeJob, HoldsLease, LiveLease
<1>2. row' = [row EXCEPT ![j] = s]
  BY DEF completeJob
<1> HIDE DEF s
<1> QED
  BY <1>1, <1>2, PlainWriteMove

LEMMA TickMove ==
  ASSUME Inv, Tick
  PROVE  Lifecycle!Next
<1>1. \A j \in Jobs : row'[j].state = row[j].state /\ row'[j].code = row[j].code
  BY DEF Tick, Inv, TypeOK, Rows
<1> QED
  BY <1>1, LifecycleStep DEF Moves, StatusOf

-----------------------------------------------------------------------------
(* The mapping as FollowsLifecycle writes it.                              *)
Status == [j \in Jobs |-> [state |-> row[j].state,
             code |-> IF row[j].state = "failed" THEN row[j].code ELSE "none"]]

LEMMA InitLifecycle == Init => Lifecycle!Init
BY DEF Init, NoRow, Lifecycle!Init, Lifecycle!Plain

LEMMA NextLifecycle == Inv /\ [Next]_vars => Lifecycle!Next \/ UNCHANGED Status
<1> SUFFICES ASSUME Inv, [Next]_vars
             PROVE  Lifecycle!Next \/ UNCHANGED Status
  OBVIOUS
<1>1. \A t \in held : t[1] \in Jobs
  BY DEF Inv, TypeOK
<1>2. CASE Schedule
  BY <1>2, ScheduleMove DEF Schedule
<1>3. CASE Close
  BY <1>3, CloseMove DEF Close
<1>4. CASE Activate
  BY <1>4, ActivateMove DEF Activate
<1>5. CASE Cancel
  BY <1>5, CancelJobMove DEF Cancel
<1>6. CASE Claim
  BY <1>6, ClaimJobsMove DEF Claim
<1>7. CASE Heartbeat
  BY <1>1, <1>7, HeartbeatMove DEF Heartbeat
<1>8. CASE Fail
  BY <1>1, <1>8, FailJobMove DEF Fail
<1>9. CASE Complete
  BY <1>1, <1>9, CompleteMove DEF Complete
<1>10. CASE Tick
  BY <1>10, TickMove
<1>11. CASE PutPolicy \/ Lose \/ UNCHANGED vars
  BY <1>11 DEF PutPolicy, putConcurrencyPolicy, Lose, loseLease, vars, Status
<1> QED
  BY <1>2, <1>3, <1>4, <1>5, <1>6, <1>7, <1>8, <1>9, <1>10, <1>11 DEF Next

(* Every transaction of the queue is, seen through the state column, a     *)
(* transition reduceJobState allows: the SQL of the workers and of the     *)
(* scheduler and the exported reducer never disagree.                      *)
THEOREM ImplementsLifecycle == Spec => FollowsLifecycle
<1>1. Inv /\ [Next]_vars => [Lifecycle!Next]_Status
  BY NextLifecycle
<1> QED
  BY <1>1, InitLifecycle, Invariant, PTL DEF Spec, FollowsLifecycle, Lifecycle!Spec, Status

-----------------------------------------------------------------------------
(* The properties of the queue as they are checked together.               *)

(* Every row is one the schema and its CHECK constraints admit.            *)
THEOREM RowsSound == Spec => []RowsAreSound
BY TypeCorrect, RowsMeetConstraints, PTL DEF RowsAreSound

(* claimJobs and the transitions of a prerequisite: a dependent runs only  *)
(* after all it waits for, and ends when that cannot be done any more.     *)
THEOREM DependenciesKept == Spec => []DependenciesHold
BY PrerequisitesFirst, DependentsEnd, PTL DEF DependenciesHold

(* Scheduling and activation: one wanted job for a subject, and only of    *)
(* the active configuration.                                               *)
THEOREM WantedIsKnown == Spec => []OnlyKnownWorkIsWanted
BY OneWantedJob, WantedIsConfigured, PTL DEF OnlyKnownWorkIsWanted
=============================================================================
