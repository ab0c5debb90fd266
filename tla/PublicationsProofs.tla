------------------------- MODULE PublicationsProofs -------------------------
(***************************************************************************)
(* What an environment is said to serve and what is published of it, for   *)
(* every value of the constants of EnvironmentServing and Publications.    *)
(*                                                                         *)
(* The inductive invariant ties what each drain remembers to the tables.   *)
(* Its core is Unbeaten: a session that holds an answer under a ticket     *)
(* that is still good holds one no recorded observation is newer than,     *)
(* because the answer was of the provider's state at a time after all of   *)
(* them, and a recording that moves the checkpoint spoils the ticket.      *)
(***************************************************************************)
EXTENDS Publications, FiniteSetTheorems, TLAPS

-----------------------------------------------------------------------------
(* The inductive invariant of EnvironmentServing.                          *)

OnRecord(e) == IF e \in AttemptEvents THEN e \in attempts ELSE disposition[e] # "none"
Observed(f) == disposition[f] # "none"

(* The ledger, the inbox and what was recorded from it.                    *)
LedgerInv ==
  /\ \A e \in Events : ingested[e] <= epoch
  /\ \A e \in Events : inbox[e].state # "absent" => ingested[e] # 0
  /\ \A e \in Events : inbox[e].state = "delivered" => OnRecord(e)
  /\ \A e \in ServingEvents : ingested[e] # 0 => e.change <= world
  /\ \A e \in ServingEvents : Observed(e) => ingested[e] # 0

(* A binding and the attempts that claim it.                               *)
BindingInv ==
  /\ \A e \in attempts : binding[e.artifact] = e.revision
  /\ \A a \in Artifacts : binding[a] # None =>
       [artifact |-> a, revision |-> binding[a]] \in attempts

(* The checkpoint rests on records, and keeps an explicit request.         *)
CheckpointInv ==
  /\ \A e \in {checkpoint.current, checkpoint.pending} \ {None} :
       disposition[e] \in {"applied", "reconciliation_required"}
  /\ checkpoint.current # None => checkpoint.exists
  /\ request = "open" => checkpoint.exists /\ checkpoint.required /\ checkpoint.explicit

(* Where orders decide, what was recorded under the active configuration   *)
(* is at most as new as the current event; where they do not, a newer one  *)
(* is waited for.                                                          *)
Behind(f) == /\ checkpoint.current # None
             /\ f.change <= checkpoint.current.change
Ordered ==
  /\ ~bound.opaque
  /\ \/ checkpoint.current = None
     \/ AuthorityOf[ingested[checkpoint.current]] = AuthorityOf[epoch]
EvidenceInv ==
  Ordered \/ (~checkpoint.required /\ ObservationCurrent) =>
    \A f \in ServingEvents : Observed(f) /\ ingested[f] = epoch => Behind(f)

(* What a drain remembers.                                                 *)
Answering(s) == session[s].pc \in {"ingesting", "confirming"}
Remembers(s) ==
  LET e == session[s].event IN
  /\ session[s].pc \in InboxSessions => e \in Events /\ ingested[e] # 0
  /\ session[s].pc = "delivering" /\ session[s].outcome = "success" => OnRecord(e)
  /\ Answering(s) => e \in ServingEvents /\ e.change <= world
  /\ session[s].pc = "confirming" => ingested[e] # 0

Unbeaten(s) ==
  Answering(s) /\ session[s].fresh =>
    \A f \in ServingEvents : Observed(f) => f.change <= session[s].event.change

SessionInv == \A s \in Sessions : Remembers(s) /\ Unbeaten(s)

ServingInv ==
  /\ TypeOK
  /\ LedgerInv /\ BindingInv
  /\ CheckpointInv /\ EvidenceInv
  /\ SessionInv

-----------------------------------------------------------------------------
(* Types.                                                                  *)

LEMMA EventTypes ==
  /\ Events = ServingEvents \cup AttemptEvents
  /\ \A e \in ServingEvents : /\ e.change \in Nat /\ e.change <= MaxChange
                              /\ e.complete \in BOOLEAN /\ e.pushed \in BOOLEAN
                              /\ e \in Events /\ e \notin AttemptEvents /\ e # None
  /\ \A e \in AttemptEvents : /\ e.artifact \in Artifacts /\ e.revision \in Revisions
                              /\ e = [artifact |-> e.artifact, revision |-> e.revision]
                              /\ e \in Events /\ e \notin ServingEvents /\ e # None
  /\ None \notin Events /\ None \notin Revisions
  /\ MaxChange \in Nat /\ MaxEpoch \in Nat /\ MaxAttempts \in Nat /\ MaxAttempts > 0
  /\ Epochs \subseteq Nat /\ 0 \notin Epochs
BY EventAssumption DEF Events, Changes, Epochs

LEMMA BoundTypes ==
  ASSUME TypeOK
  PROVE  /\ bound.events \subseteq Events /\ bound.epochs \in Epochs
         /\ bound.opaque \in BOOLEAN
BY EventAssumption DEF TypeOK

(* The parts of the type invariant, by what the actions write together.    *)
InboxType ==
  /\ ingested \in [Events -> {0} \cup Epochs]
  /\ inbox \in [Events -> InboxRows]
RecordsType ==
  /\ attempts \subseteq AttemptEvents
  /\ binding \in [Artifacts -> Revisions \cup {None}]
  /\ disposition \in [ServingEvents -> Dispositions]
CheckpointType ==
  /\ checkpoint \in Checkpoints
  /\ checkpoint.required \/ checkpoint.pending = None
WorkersType ==
  /\ task \in TaskRows
  /\ session \in [Sessions -> SessionRecords]

LEMMA RowTypes ==
  /\ \A r \in InboxRows : \A state \in InboxStates :
       /\ Lease(r) \in InboxRows /\ End(r, state) \in InboxRows
       /\ [r EXCEPT !.state = state] \in InboxRows
       /\ Lease(r).state = "leased" /\ End(r, state).state = state
       /\ [r EXCEPT !.state = state].state = state
  /\ \A t \in TaskRows : \A state \in TaskStates :
       /\ Lease(t) \in TaskRows /\ End(t, state) \in TaskRows
       /\ \A b \in BOOLEAN : [t EXCEPT !.fresh = b] \in TaskRows
  /\ \A t \in TaskRows : [t EXCEPT !.fresh = FALSE] \in TaskRows
  /\ NoInboxRow \in InboxRows /\ NoTask \in TaskRows /\ Queued \in TaskRows
<1> USE EventTypes
<1>1. ASSUME NEW r \in InboxRows, NEW state \in InboxStates
      PROVE  /\ Lease(r) \in InboxRows /\ End(r, state) \in InboxRows
             /\ [r EXCEPT !.state = state] \in InboxRows
             /\ Lease(r).state = "leased" /\ End(r, state).state = state
             /\ [r EXCEPT !.state = state].state = state
  <2>1. "leased" \in InboxStates /\ 0 \in 0 .. MaxAttempts
    BY DEF InboxStates
  <2>2. r.attempts \in 0 .. MaxAttempts /\ r.state \in InboxStates
    BY DEF InboxRows
  <2>3. (IF OutOfAttempts(r) THEN r.attempts ELSE r.attempts + 1) \in 0 .. MaxAttempts
    BY <2>2 DEF OutOfAttempts
  <2>4. Lease(r) \in InboxRows /\ Lease(r).state = "leased"
    BY <2>1, <2>3 DEF Lease, InboxRows
  <2>5. End(r, state) \in InboxRows /\ End(r, state).state = state
    BY <2>1, <2>2 DEF End, InboxRows
  <2> QED
    BY <2>4, <2>5 DEF InboxRows
<1>2. ASSUME NEW t \in TaskRows, NEW state \in TaskStates
      PROVE  /\ Lease(t) \in TaskRows /\ End(t, state) \in TaskRows
             /\ \A b \in BOOLEAN : [t EXCEPT !.fresh = b] \in TaskRows
  <2>1. "leased" \in TaskStates /\ 0 \in 0 .. MaxAttempts
    BY DEF TaskStates
  <2>2. t.attempts \in 0 .. MaxAttempts /\ t.state \in TaskStates
    BY DEF TaskRows
  <2>3. (IF OutOfAttempts(t) THEN t.attempts ELSE t.attempts + 1) \in 0 .. MaxAttempts
    BY <2>2 DEF OutOfAttempts
  <2>4. Lease(t) \in TaskRows
    BY <2>1, <2>3 DEF Lease, TaskRows
  <2>5. End(t, state) \in TaskRows
    BY <2>1, <2>2 DEF End, TaskRows
  <2> QED
    BY <2>4, <2>5 DEF TaskRows
<1>3. NoInboxRow \in InboxRows
  BY DEF NoInboxRow, InboxRows, InboxStates
<1>4. NoTask \in TaskRows
  BY DEF NoTask, TaskRows, TaskStates
<1>5. Queued \in TaskRows
  BY <1>4 DEF NoTask, TaskRows, TaskStates, Queued
<1>6. \A t \in TaskRows : [t EXCEPT !.fresh = FALSE] \in TaskRows
  BY DEF TaskRows
<1> QED
  BY <1>1, <1>2, <1>3, <1>4, <1>5, <1>6

(* What the helpers make of the sessions.                                  *)
LEMMA SessionTypes ==
  ASSUME NEW f \in [Sessions -> SessionRecords]
  PROVE  /\ Outdated(f) \in [Sessions -> SessionRecords]
         /\ \A taken : WithoutTokens(f, taken) \in [Sessions -> SessionRecords]
         /\ [s \in Sessions |-> [f[s] EXCEPT !.asked = TRUE]] \in [Sessions -> SessionRecords]
         /\ \A s \in Sessions, r \in SessionRecords :
              [f EXCEPT ![s] = r] \in [Sessions -> SessionRecords]
         /\ \A s \in Sessions, o \in Outcomes, p \in SessionStates :
              /\ [f EXCEPT ![s].pc = p] \in [Sessions -> SessionRecords]
              /\ [f EXCEPT ![s].pc = p, ![s].outcome = o] \in [Sessions -> SessionRecords]
         /\ Idle \in SessionRecords
<1>1. Idle \in SessionRecords
  BY DEF Idle, SessionRecords, SessionStates, Outcomes
<1>2. \A s \in Sessions, o \in Outcomes, p \in SessionStates :
              /\ [f[s] EXCEPT !.pc = p] \in SessionRecords
              /\ [f[s] EXCEPT !.pc = p, !.outcome = o] \in SessionRecords
  BY DEF SessionRecords
<1>3. \A s \in Sessions : /\ [f[s] EXCEPT !.fresh = FALSE] \in SessionRecords
                          /\ [f[s] EXCEPT !.token = FALSE] \in SessionRecords
                          /\ [f[s] EXCEPT !.asked = TRUE] \in SessionRecords
  BY DEF SessionRecords
<1>4. \A s \in Sessions, o \in Outcomes, p \in SessionStates :
              /\ [f EXCEPT ![s].pc = p] \in [Sessions -> SessionRecords]
              /\ [f EXCEPT ![s].pc = p, ![s].outcome = o] \in [Sessions -> SessionRecords]
  BY <1>2
<1> QED
  BY <1>1, <1>3, <1>4 DEF Outdated, WithoutTokens

-----------------------------------------------------------------------------
(* The values of the helpers.                                              *)

LEMMA CheckpointValues ==
  ASSUME NEW c \in Checkpoints, NEW e \in ServingEvents
  PROVE  /\ Applied(c, e) \in Checkpoints
         /\ Applied(c, e).current = e /\ Applied(c, e).exists
         /\ Applied(c, e).pending \in {e, None}
         /\ Applied(c, e).required <=> (~e.complete \/ c.explicit)
         /\ Applied(c, e).required \/ Applied(c, e).pending = None
         /\ Applied(c, e).explicit <=> c.explicit
         /\ ReconcileLater(c, e) \in Checkpoints
         /\ ReconcileLater(c, e).current = c.current /\ ReconcileLater(c, e).exists
         /\ ReconcileLater(c, e).pending = e /\ ReconcileLater(c, e).required
         /\ ReconcileLater(c, e).explicit <=> c.explicit
         /\ [c EXCEPT !.explicit = FALSE] \in Checkpoints
         /\ ~[c EXCEPT !.explicit = FALSE].explicit
BY EventTypes DEF Applied, ReconcileLater, Checkpoints

(* What the reconciliation worker's claim makes of the checkpoint.         *)
LEMMA ClaimedCheckpoint ==
  ASSUME NEW c \in Checkpoints, NEW aged \in BOOLEAN, TypeOK
  PROVE  LET d == Refreshed(Discovered(c), aged) IN
         /\ d \in Checkpoints
         /\ \/ d = c
            \/ /\ ~c.exists
               /\ d.exists /\ d.required /\ d.current = None /\ d.pending = None
               /\ ~d.explicit
            \/ /\ d.current = c.current /\ d.pending = c.pending
               /\ d.exists = c.exists /\ d.explicit = c.explicit /\ d.required
<1> DEFINE d == Refreshed(Discovered(c), aged)
           new == [NoCheckpoint EXCEPT !.exists = TRUE, !.required = TRUE]
<1>1. /\ new \in Checkpoints /\ new.exists /\ new.required /\ new.current = None
      /\ new.pending = None /\ ~new.explicit
  BY DEF NoCheckpoint, Checkpoints
<1>2. ~Outlived(new, aged)
  BY <1>1 DEF Outlived
<1>3. Discovered(c) = c \/ (~c.exists /\ Discovered(c) = new)
  BY DEF Discovered
<1> HIDE DEF new
<1>4. CASE Discovered(c) = new /\ ~c.exists
  BY <1>1, <1>2, <1>4 DEF Refreshed
<1>5. CASE Discovered(c) = c
  BY <1>5 DEF Refreshed, Checkpoints
<1> QED
  BY <1>3, <1>4, <1>5

(* The four ways of recording a serving observation.                       *)
Repeated(s) ==
  /\ Observed(session[s].event)
  /\ UNCHANGED <<disposition, checkpoint, task>>
  /\ session' = Recorded(s, "success")
AppliedNow(s) ==
  LET e == session[s].event IN
  /\ ~Observed(e) /\ ingested[e] = epoch /\ ~bound.opaque
  /\ \/ checkpoint.current = None
     \/ SameAuthority(checkpoint.current, e) /\ checkpoint.current.change < e.change
  /\ disposition' = [disposition EXCEPT ![e] = "applied"]
  /\ MoveCheckpoint(Applied(checkpoint, e), Recorded(s, "success"))
LeftToReconcile(s) ==
  LET e == session[s].event IN
  /\ ~Observed(e)
  /\ \/ ingested[e] # epoch
     \/ bound.opaque
     \/ /\ checkpoint.current # None
        /\ ~SameAuthority(checkpoint.current, e) \/ checkpoint.current.change = e.change
  /\ disposition' = [disposition EXCEPT ![e] = "reconciliation_required"]
  /\ MoveCheckpoint(ReconcileLater(checkpoint, e), Recorded(s, "success"))
Outrun(s) ==
  LET e == session[s].event IN
  /\ ~Observed(e)
  /\ Behind(e)
  /\ \E d \in {"stale", "replay"} : disposition' = [disposition EXCEPT ![e] = d]
  /\ UNCHANGED <<checkpoint, task>>
  /\ session' = Recorded(s, "success")

LEMMA RecordingCases ==
  ASSUME TypeOK, NEW s \in Sessions, recordServingObservation(s)
  PROVE  Repeated(s) \/ AppliedNow(s) \/ LeftToReconcile(s) \/ Outrun(s)
<1> DEFINE e == session[s].event
           class == Classification(e)
           cur == checkpoint.current
<1>1. e \in ServingEvents /\ e.change \in Nat
  BY EventTypes DEF recordServingObservation
<1>2. cur \in ServingEvents \cup {None} /\ (cur # None => cur.change \in Nat)
  BY EventTypes DEF TypeOK, Checkpoints
<1>3. CASE Observed(e)
  BY <1>3 DEF Observed, recordServingObservation, Repeated
<1>4. CASE ~Observed(e)
  <2>1. disposition' = [disposition EXCEPT ![e] = DispositionOf(class)]
    BY <1>4 DEF Observed, recordServingObservation
  <2>2. CASE /\ ingested[e] = epoch /\ ~bound.opaque
             /\ cur = None \/ (SameAuthority(cur, e) /\ cur.change < e.change)
    <3>1. class = "apply"
      BY <2>2, <1>1, <1>2 DEF Classification, classifyServingObservation
    <3>2. DispositionOf(class) = "applied"
      BY <3>1 DEF DispositionOf
    <3>3. MoveCheckpoint(Applied(checkpoint, e), Recorded(s, "success"))
      BY <3>1, <1>4 DEF Observed, recordServingObservation
    <3> QED
      BY <2>1, <2>2, <3>2, <3>3, <1>4 DEF AppliedNow
  <2>3. CASE /\ ingested[e] = epoch /\ ~bound.opaque /\ cur # None
             /\ SameAuthority(cur, e)
             /\ e.change < cur.change \/ (e.change = cur.change /\ e.complete = cur.complete)
    <3>1. class \in {"stale", "replay"}
      BY <2>3, <1>1, <1>2 DEF Classification, classifyServingObservation
    <3>2. DispositionOf(class) = class
      BY <3>1 DEF DispositionOf
    <3>3. UNCHANGED <<checkpoint, task>> /\ session' = Recorded(s, "success")
      BY <3>1, <1>4 DEF Observed, recordServingObservation
    <3>4. Behind(e)
      BY <2>3, <1>1, <1>2 DEF Behind
    <3> QED
      BY <2>1, <3>1, <3>2, <3>3, <3>4, <1>4 DEF Outrun
  <2>4. CASE \/ ingested[e] # epoch \/ bound.opaque
             \/ cur # None /\ ~SameAuthority(cur, e)
             \/ /\ cur # None /\ e.change = cur.change
                /\ e.complete # cur.complete
    <3>1. class = "reconcile"
      BY <2>4, <1>1, <1>2 DEF Classification, classifyServingObservation
    <3>2. DispositionOf(class) = "reconciliation_required"
      BY <3>1 DEF DispositionOf
    <3>3. MoveCheckpoint(ReconcileLater(checkpoint, e), Recorded(s, "success"))
      BY <3>1, <1>4 DEF Observed, recordServingObservation
    <3> QED
      BY <2>1, <2>4, <3>2, <3>3, <1>4 DEF LeftToReconcile
  <2> QED
    BY <2>2, <2>3, <2>4, <1>1, <1>2
<1> QED
  BY <1>3, <1>4

(* What the sessions become when the checkpoint moves.                     *)
LEMMA OutdatedSessions ==
  ASSUME NEW f \in [Sessions -> SessionRecords], NEW t \in Sessions
  PROVE  /\ Outdated(f)[t].pc = f[t].pc /\ Outdated(f)[t].event = f[t].event
         /\ Outdated(f)[t].outcome = f[t].outcome /\ ~Outdated(f)[t].fresh
         /\ \A taken : /\ WithoutTokens(f, taken)[t].pc = f[t].pc
                       /\ WithoutTokens(f, taken)[t].event = f[t].event
                       /\ WithoutTokens(f, taken)[t].outcome = f[t].outcome
                       /\ WithoutTokens(f, taken)[t].fresh = f[t].fresh
BY DEF Outdated, WithoutTokens, SessionRecords

(* What the claims of the two workers do.                                  *)
SameSession(r, q) ==
  q.pc = r.pc /\ q.event = r.event /\ q.outcome = r.outcome /\ (q.fresh => r.fresh)

InboxClaim(s, over, picked) ==
  LET taken == {t \in Sessions : \E e \in over \cup picked : OnInbox(t, e)}
      others == WithoutTokens(session, taken) IN
  /\ over \cup picked # {}
  /\ inbox' = [e \in Events |-> CASE e \in over   -> End(inbox[e], "exhausted")
                                  [] e \in picked -> Lease(inbox[e])
                                  [] OTHER        -> inbox[e]]
  /\ session' = IF picked = {} THEN others
                ELSE [others EXCEPT ![s] = [Idle EXCEPT !.pc = "recording",
                       !.event = CHOOSE e \in picked : TRUE, !.token = TRUE]]

LEMMA InboxClaims ==
  ASSUME TypeOK, NEW s \in Sessions, claimNextInbox(s)
  PROVE  /\ inbox' \in [Events -> InboxRows]
         /\ session' \in [Sessions -> SessionRecords]
         /\ \A e \in Events :
              \/ inbox'[e] = inbox[e]
              \/ /\ inbox[e].state # "absent"
                 /\ inbox'[e].state \in {"exhausted", "leased"}
         /\ \A t \in Sessions :
              \/ SameSession(session[t], session'[t])
              \/ /\ session'[t].pc = "recording" /\ session'[t].event \in Events
                 /\ inbox[session'[t].event].state # "absent"
<1>0. /\ inbox \in [Events -> InboxRows] /\ session \in [Sessions -> SessionRecords]
  BY DEF TypeOK
<1>1. PICK over \in SUBSET {e \in Events : Leased(e) /\ OutOfAttempts(inbox[e])},
           picked \in {{}} \cup {{e} : e \in {f \in Events : DueInbox(f)}} :
             InboxClaim(s, over, picked)
  BY DEF claimNextInbox, InboxClaim
<1>2. \A e \in over : e \in Events /\ e \notin picked /\ inbox[e].state # "absent"
  BY DEF Leased, DueInbox
<1>3. \A e \in picked : e \in Events /\ e \notin over /\ inbox[e].state # "absent"
  BY DEF Leased, DueInbox
<1>4. \A e \in Events :
        /\ e \in over => inbox'[e] = End(inbox[e], "exhausted")
        /\ e \in picked => inbox'[e] = Lease(inbox[e])
        /\ e \notin over \cup picked => inbox'[e] = inbox[e]
  BY <1>1, <1>2, <1>3 DEF InboxClaim
<1>5. "exhausted" \in InboxStates
  BY DEF InboxStates
<1>6. /\ \A e \in Events : inbox'[e] \in InboxRows
      /\ \A e \in Events :
              \/ inbox'[e] = inbox[e]
              \/ /\ inbox[e].state # "absent"
                 /\ inbox'[e].state \in {"exhausted", "leased"}
  <2> SUFFICES ASSUME NEW e \in Events
               PROVE  /\ inbox'[e] \in InboxRows
                      /\ \/ inbox'[e] = inbox[e]
                         \/ /\ inbox[e].state # "absent"
                            /\ inbox'[e].state \in {"exhausted", "leased"}
    OBVIOUS
  <2>1. inbox[e] \in InboxRows
    BY <1>0
  <2>2. /\ End(inbox[e], "exhausted") \in InboxRows /\ Lease(inbox[e]) \in InboxRows
        /\ End(inbox[e], "exhausted").state = "exhausted" /\ Lease(inbox[e]).state = "leased"
    BY <2>1, <1>5, RowTypes
  <2> QED
    BY <1>2, <1>3, <1>4, <2>1, <2>2
<1>7. inbox' \in [Events -> InboxRows]
  <2>1. inbox' = [e \in Events |-> inbox'[e]]
    BY <1>1 DEF InboxClaim
  <2> QED
    BY <1>6, <2>1
<1> DEFINE taken == {t \in Sessions : \E e \in over \cup picked : OnInbox(t, e)}
           others == WithoutTokens(session, taken)
           chosen == CHOOSE e \in picked : TRUE
           claimed == [Idle EXCEPT !.pc = "recording", !.event = chosen, !.token = TRUE]
<1>8. others \in [Sessions -> SessionRecords]
  BY <1>0, SessionTypes
<1>9. \A t \in Sessions : SameSession(session[t], others[t])
  BY <1>0, OutdatedSessions DEF SameSession
<1>10. picked # {} => chosen \in picked
  OBVIOUS
<1>11. picked # {} => /\ claimed \in SessionRecords
                     /\ claimed.pc = "recording" /\ claimed.event = chosen
  BY <1>3, <1>10 DEF Idle, SessionRecords, SessionStates, Outcomes
<1>12. session' = IF picked = {} THEN others ELSE [others EXCEPT ![s] = claimed]
  BY <1>1 DEF InboxClaim
<1> HIDE DEF others, chosen, claimed
<1>13. session' \in [Sessions -> SessionRecords]
  BY <1>8, <1>11, <1>12
<1>14. \A t \in Sessions :
              \/ SameSession(session[t], session'[t])
              \/ /\ session'[t].pc = "recording" /\ session'[t].event \in Events
                 /\ inbox[session'[t].event].state # "absent"
  BY <1>3, <1>8, <1>9, <1>10, <1>11, <1>12
<1> QED
  BY <1>6, <1>7, <1>13, <1>14

TaskClaim(s, aged, due, expired) ==
  LET found == Discovered(checkpoint)
      moved == Outlived(found, aged)
      c == Refreshed(found, aged)
      t == GivenUp(Retired(Requeued([task EXCEPT !.fresh = @ /\ ~moved], c), c, expired),
                   expired)
      claims == ClaimableTask(t, c, expired, due)
      others == WithoutTokens(IF moved THEN Outdated(session) ELSE session,
                  {u \in Sessions : OnTask(u) /\ (claims \/ t.state # "leased")}) IN
  /\ checkpoint' = c
  /\ task' = IF claims THEN Lease(t) ELSE t
  /\ session' = IF claims THEN [others EXCEPT ![s] =
                                 [Idle EXCEPT !.pc = "asking", !.token = TRUE]]
                ELSE others
  /\ <<checkpoint, task>>' # <<checkpoint, task>>

LEMMA TaskClaims ==
  ASSUME TypeOK, NEW s \in Sessions, claimNextTask(s)
  PROVE  /\ \E aged \in BOOLEAN : checkpoint' = Refreshed(Discovered(checkpoint), aged)
         /\ task' \in TaskRows
         /\ session' \in [Sessions -> SessionRecords]
         /\ \A t \in Sessions :
              SameSession(session[t], session'[t]) \/ session'[t].pc = "asking"
<1>0. task \in TaskRows /\ session \in [Sessions -> SessionRecords]
  BY DEF TypeOK
<1>1. PICK aged, due, expired \in BOOLEAN : TaskClaim(s, aged, due, expired)
  BY Zenon DEF claimNextTask, TaskClaim
<1> DEFINE found == Discovered(checkpoint)
           moved == Outlived(found, aged)
           c == Refreshed(found, aged)
           t0 == [task EXCEPT !.fresh = @ /\ ~moved]
           t == GivenUp(Retired(Requeued(t0, c), c, expired), expired)
           claims == ClaimableTask(t, c, expired, due)
           before == IF moved THEN Outdated(session) ELSE session
           others == WithoutTokens(before,
                       {u \in Sessions : OnTask(u) /\ (claims \/ t.state # "leased")})
           asking == [Idle EXCEPT !.pc = "asking", !.token = TRUE]
<1>2. /\ checkpoint' = c
      /\ task' = IF claims THEN Lease(t) ELSE t
      /\ session' = IF claims THEN [others EXCEPT ![s] = asking] ELSE others
  BY <1>1, Zenon DEF TaskClaim
<1>3. t0 \in TaskRows
  BY <1>0 DEF TaskRows
<1>4. Requeued(t0, c) \in TaskRows
  BY <1>3, RowTypes DEF Requeued
<1>5. {"resolved", "exhausted"} \subseteq TaskStates
  BY DEF TaskStates
<1>6. Retired(Requeued(t0, c), c, expired) \in TaskRows
  BY <1>4, <1>5, RowTypes DEF Retired
<1>7. t \in TaskRows /\ Lease(t) \in TaskRows
  BY <1>5, <1>6, RowTypes DEF GivenUp
<1>8. before \in [Sessions -> SessionRecords]
  BY <1>0, SessionTypes
<1>9. others \in [Sessions -> SessionRecords]
  BY <1>8, SessionTypes
<1>10. \A u \in Sessions : SameSession(session[u], others[u])
  <2>1. \A u \in Sessions : SameSession(session[u], before[u])
    BY <1>0, OutdatedSessions DEF SameSession
  <2>2. \A u \in Sessions : SameSession(before[u], others[u])
    BY <1>8, OutdatedSessions DEF SameSession
  <2> QED
    BY <2>1, <2>2 DEF SameSession
<1>11. asking \in SessionRecords /\ asking.pc = "asking"
  BY DEF Idle, SessionRecords, SessionStates, Outcomes
<1> HIDE DEF t, others, asking, claims, c
<1>12. /\ task' \in TaskRows
       /\ session' \in [Sessions -> SessionRecords]
  BY <1>2, <1>7, <1>9, <1>11
<1>13. \A u \in Sessions : SameSession(session[u], session'[u]) \/ session'[u].pc = "asking"
  BY <1>2, <1>9, <1>10, <1>11
<1> QED
  BY <1>2, <1>12, <1>13 DEF c, found

(* What the drains do that touches no table of the ledger or the records.  *)
Quiet == UNCHANGED <<provider, ledger, inbox, records>>

LEMMA IngestKeepsTypes ==
  ASSUME TypeOK, NEW e \in Events, Ingest(e)
  PROVE  InboxType'
<1>1. "pending" \in InboxStates
  BY DEF InboxStates
<1> QED
  BY <1>1, RowTypes DEF TypeOK, InboxType, Ingest

LEMMA TypeStep ==
  ASSUME ServingInv, [Next]_vars
  PROVE  TypeOK'
<1> USE DEF ServingInv
<1>0. /\ bound \in Bounds /\ world \in Changes /\ epoch \in Epochs /\ listed \in BOOLEAN
      /\ InboxType /\ RecordsType /\ CheckpointType /\ WorkersType
      /\ request \in {"none", "open", "observed", "answered"}
  BY DEF TypeOK, InboxType, RecordsType, CheckpointType, WorkersType
<1> SUFFICES /\ (bound \in Bounds /\ world \in Changes /\ epoch \in Epochs /\ listed \in BOOLEAN)'
             /\ InboxType' /\ RecordsType' /\ CheckpointType' /\ WorkersType'
             /\ (request \in {"none", "open", "observed", "answered"})'
  BY DEF TypeOK, InboxType, RecordsType, CheckpointType, WorkersType
<1>1. CASE UNCHANGED vars
  BY <1>0, <1>1 DEF vars, provider, ledger, records, InboxType, RecordsType, CheckpointType, WorkersType
<1>2. CASE ProviderChanges
  <2>1. world + 1 \in Changes
    BY <1>0, <1>2, EventTypes DEF ProviderChanges, Changes
  <2> QED
    BY <1>0, <1>2, <2>1 DEF ProviderChanges, ledger, records, InboxType, RecordsType,
         CheckpointType, WorkersType
<1>3. CASE ActivateConfiguration
  <2>1. epoch + 1 \in Epochs
    BY <1>0, <1>3, EventTypes, BoundTypes DEF ActivateConfiguration, Epochs
  <2> QED
    BY <1>0, <1>3, <2>1 DEF ActivateConfiguration, provider, records, InboxType, RecordsType,
         CheckpointType, WorkersType
<1>4. CASE RequestReconciliation
  <2>1. CheckpointType'
    BY <1>0, <1>4 DEF RequestReconciliation, MoveCheckpoint, CheckpointType, Checkpoints
  <2>2. WorkersType'
    <3>1. [s \in Sessions |-> [session[s] EXCEPT !.asked = TRUE]] \in [Sessions -> SessionRecords]
      BY <1>0, SessionTypes DEF WorkersType
    <3> QED
      BY <1>0, <1>4, <3>1, SessionTypes, RowTypes
      DEF RequestReconciliation, MoveCheckpoint, WorkersType
  <2> QED
    BY <1>0, <1>4, <2>1, <2>2
    DEF RequestReconciliation, provider, ledger, records, InboxType, RecordsType
<1>5. ASSUME NEW e \in Events, IngestEvent(e) PROVE TypeOK'
  <2>1. InboxType'
    BY <1>5, IngestKeepsTypes DEF IngestEvent
  <2> QED
    BY <1>0, <1>5, <2>1 DEF IngestEvent, provider, records, InboxType, RecordsType,
         CheckpointType, WorkersType, TypeOK
<1>6. ASSUME NEW s \in Sessions, claimNextInbox(s) PROVE TypeOK'
  <2>1. InboxType' /\ WorkersType'
    BY <1>0, <1>6, InboxClaims DEF claimNextInbox, InboxType, WorkersType, ledger
  <2> QED
    BY <1>0, <1>6, <2>1
    DEF claimNextInbox, provider, ledger, records, RecordsType, CheckpointType, InboxType,
        WorkersType, TypeOK
<1>7. ASSUME NEW s \in Sessions, recordAttempt(s) PROVE TypeOK'
  <2>1. RecordsType'
    BY <1>0, <1>7, EventTypes DEF recordAttempt, RecordsType
  <2>2. WorkersType'
    <3>1. "delivering" \in SessionStates /\ {"success", "conflict"} \subseteq Outcomes
      BY DEF SessionStates, Outcomes
    <3> QED
      BY <1>0, <1>7, <3>1, SessionTypes DEF recordAttempt, Recorded, WorkersType
  <2> QED
    BY <1>0, <1>7, <2>1, <2>2
    DEF recordAttempt, provider, ledger, RecordsType, CheckpointType, InboxType, WorkersType, TypeOK
<1>8. ASSUME NEW s \in Sessions, recordServingObservation(s) PROVE TypeOK'
  <2> DEFINE e == session[s].event
             done == Recorded(s, "success")
  <2>1. e \in ServingEvents
    BY <1>8 DEF recordServingObservation
  <2>2. done \in [Sessions -> SessionRecords]
    <3>1. "delivering" \in SessionStates /\ "success" \in Outcomes
      BY DEF SessionStates, Outcomes
    <3> QED
      BY <1>0, <3>1, SessionTypes DEF Recorded, WorkersType
  <2>3. Outdated(done) \in [Sessions -> SessionRecords]
    BY <2>2, SessionTypes
  <2>4. [task EXCEPT !.fresh = FALSE] \in TaskRows
    BY <1>0, RowTypes DEF WorkersType
  <2>5. {"applied", "reconciliation_required", "stale", "replay"} \subseteq Dispositions
    BY DEF Dispositions
  <2>6. checkpoint \in Checkpoints
    BY <1>0 DEF CheckpointType
  <2> HIDE DEF e, done
  <2>7. RecordsType' /\ CheckpointType' /\ WorkersType'
    <3>1. CASE Repeated(s)
      BY <3>1, <1>0, <1>8, <2>2 DEF e, done, Repeated, recordServingObservation,
           RecordsType, CheckpointType, WorkersType
    <3>2. CASE AppliedNow(s)
      BY <3>2, <1>0, <1>8, <2>1, <2>3, <2>4, <2>5, <2>6, CheckpointValues
      DEF e, done, AppliedNow, MoveCheckpoint, recordServingObservation,
           RecordsType, CheckpointType, WorkersType
    <3>3. CASE LeftToReconcile(s)
      BY <3>3, <1>0, <1>8, <2>1, <2>3, <2>4, <2>5, <2>6, CheckpointValues
      DEF e, done, LeftToReconcile, MoveCheckpoint, recordServingObservation,
           RecordsType, CheckpointType, WorkersType
    <3>4. CASE Outrun(s)
      BY <3>4, <1>0, <1>8, <2>1, <2>2, <2>5 DEF e, done, Outrun, recordServingObservation,
           RecordsType, CheckpointType, WorkersType
    <3> QED
      BY <3>1, <3>2, <3>3, <3>4, <1>8, RecordingCases
  <2> QED
    BY <1>0, <1>8, <2>7
    DEF recordServingObservation, provider, ledger, InboxType, RecordsType, CheckpointType,
        WorkersType, TypeOK
<1>9. ASSUME NEW s \in Sessions, finishInbox(s) PROVE TypeOK'
  <2>1. InboxType'
    <3>1. \A o, r : InboxState(o, r) \in InboxStates
      BY DEF InboxState, InboxStates
    <3> QED
      BY <1>0, <1>9, <3>1, RowTypes DEF finishInbox, InboxType, ledger
  <2> QED
    BY <1>0, <1>9, <2>1, SessionTypes
    DEF finishInbox, provider, ledger, records, InboxType, RecordsType, CheckpointType, WorkersType,
        TypeOK
<1>10. ASSUME NEW s \in Sessions, claimNextTask(s) PROVE TypeOK'
  <2>1. CheckpointType' /\ WorkersType'
    BY <1>0, <1>10, TaskClaims, ClaimedCheckpoint DEF CheckpointType, WorkersType
  <2> QED
    BY <1>0, <1>10, <2>1
    DEF claimNextTask, provider, ledger, records, InboxType, RecordsType, CheckpointType,
        WorkersType, TypeOK
<1>11. ASSUME NEW s \in Sessions, getPendingServingReconciliation(s) PROVE TypeOK'
  <2>1. session' \in [Sessions -> SessionRecords]
    <3>1. [session[s] EXCEPT !.pc = "observing", !.fresh = TRUE, !.epoch = epoch] \in SessionRecords
      BY <1>0 DEF WorkersType, SessionRecords, SessionStates
    <3>2. "answering" \in SessionStates /\ "no_pending" \in Outcomes
      BY DEF SessionStates, Outcomes
    <3>3. [session EXCEPT ![s].pc = "observing", ![s].fresh = TRUE, ![s].epoch = epoch]
            \in [Sessions -> SessionRecords]
      BY <1>0, <3>1 DEF WorkersType
    <3> QED
      BY <1>0, <1>11, <3>2, <3>3, SessionTypes DEF getPendingServingReconciliation, Answer, WorkersType
  <2> QED
    BY <1>0, <1>11, <2>1
    DEF getPendingServingReconciliation, provider, ledger, records, InboxType, RecordsType,
        CheckpointType, WorkersType, TypeOK
<1>12. ASSUME NEW s \in Sessions, Observe(s) PROVE TypeOK'
  <2>1. PICK e \in ServingEvents :
          session' = [session EXCEPT ![s].pc = "ingesting", ![s].event = e]
    BY <1>12 DEF Observe
  <2>2. "ingesting" \in SessionStates /\ e \in Events \cup {None}
    BY EventTypes DEF SessionStates
  <2>3. [session[s] EXCEPT !.pc = "ingesting", !.event = e] \in SessionRecords
    BY <1>0, <2>2 DEF WorkersType, SessionRecords
  <2>4. session' \in [Sessions -> SessionRecords]
    BY <1>0, <2>1, <2>3 DEF WorkersType
  <2> QED
    BY <1>0, <1>12, <2>4
    DEF Observe, provider, ledger, records, InboxType, RecordsType, CheckpointType, WorkersType,
        TypeOK
<1>13. ASSUME NEW s \in Sessions, IngestAnswer(s) PROVE TypeOK'
  <2>1. session[s].event \in Events
    BY <1>13, <1>0, BoundTypes DEF IngestAnswer, Ingest
  <2>2. InboxType'
    BY <1>13, <2>1, IngestKeepsTypes DEF IngestAnswer
  <2>3. "confirming" \in SessionStates
    BY DEF SessionStates
  <2>4. [session EXCEPT ![s].pc = "confirming"] \in [Sessions -> SessionRecords]
    <3>1. "none" \in Outcomes
      BY DEF Outcomes
    <3> QED
      BY <1>0, <2>3, <3>1, SessionTypes DEF WorkersType
  <2> QED
    BY <1>0, <1>13, <2>2, <2>4 DEF IngestAnswer, provider, records, InboxType,
         RecordsType, CheckpointType, WorkersType, TypeOK
<1>14. ASSUME NEW s \in Sessions, confirmServingReconciliation(s) PROVE TypeOK'
  <2> DEFINE e == session[s].event
             c == [checkpoint EXCEPT !.explicit = FALSE]
  <2>1. e \in ServingEvents
    BY <1>14 DEF SessionInv, Remembers, Answering, confirmServingReconciliation
  <2>2. \A o \in Outcomes : Answer(s, o) \in [Sessions -> SessionRecords]
    <3>1. "answering" \in SessionStates
      BY DEF SessionStates
    <3> QED
      BY <1>0, <3>1, SessionTypes DEF Answer, WorkersType
  <2>3. {"applied", "pending", "superseded"} \subseteq Outcomes
        /\ {"applied", "reconciliation_required"} \subseteq Dispositions
    BY DEF Outcomes, Dispositions
  <2>4. \A o \in Outcomes : Outdated(Answer(s, o)) \in [Sessions -> SessionRecords]
    BY <2>2, SessionTypes
  <2>5. [task EXCEPT !.fresh = FALSE] \in TaskRows
    BY <1>0, RowTypes DEF WorkersType
  <2>6. c \in Checkpoints /\ ~c.explicit
    BY <1>0, <2>1, CheckpointValues DEF CheckpointType
  <2> HIDE DEF e, c
  <2>7. /\ Applied(c, e) \in Checkpoints
        /\ Applied(c, e).required \/ Applied(c, e).pending = None
    BY <2>1, <2>6, CheckpointValues
  <2>8. RecordsType' /\ CheckpointType' /\ WorkersType'
        /\ (request \in {"none", "open", "observed", "answered"})'
    <3>1. CASE TicketHolds(s) /\ disposition[e] = "none"
      <4>1. /\ disposition' = [disposition EXCEPT ![e] =
                 IF e.complete THEN "applied" ELSE "reconciliation_required"]
            /\ MoveCheckpoint(Applied(c, e),
                              Answer(s, IF e.complete THEN "applied" ELSE "pending"))
            /\ request' = IF request \in {"none", "answered"} THEN request
                           ELSE IF e.complete THEN "answered" ELSE "observed"
            /\ UNCHANGED <<attempts, binding>>
        BY <3>1, <1>14 DEF e, c, confirmServingReconciliation
      <4>2. RecordsType'
        BY <4>1, <2>1, <2>3, <1>0 DEF RecordsType
      <4>3. CheckpointType'
        BY <4>1, <2>7 DEF MoveCheckpoint, CheckpointType
      <4>4. WorkersType'
        BY <4>1, <2>3, <2>4, <2>5, <1>0 DEF MoveCheckpoint, WorkersType
      <4> QED
        BY <4>1, <4>2, <4>3, <4>4, <1>0
    <3>2. CASE ~(TicketHolds(s) /\ disposition[e] = "none")
      <4>1. /\ \E o \in {"pending", "superseded"} : session' = Answer(s, o)
            /\ UNCHANGED <<attempts, binding, disposition, checkpoint, task, request>>
        BY <3>2, <1>14 DEF e, confirmServingReconciliation
      <4> QED
        BY <4>1, <2>2, <2>3, <1>0 DEF RecordsType, CheckpointType, WorkersType
    <3> QED
      BY <3>1, <3>2
  <2> QED
    BY <1>0, <1>14, <2>8
    DEF confirmServingReconciliation, provider, ledger, InboxType, RecordsType, CheckpointType,
        WorkersType, TypeOK
<1>15. ASSUME NEW s \in Sessions, finishTask(s) PROVE TypeOK'
  <2>1. \A o : TaskState(o) \in TaskStates
    BY DEF TaskState, TaskStates
  <2>2. task' \in TaskRows
    <3> DEFINE o == session[s].outcome
               b == End(task, TaskState(o)).fresh \/ (o = "pending" /\ ~session[s].asked)
    <3>1. End(task, TaskState(o)) \in TaskRows
      BY <1>0, <2>1, RowTypes DEF WorkersType
    <3>2. b \in BOOLEAN
      OBVIOUS
    <3>3. [End(task, TaskState(o)) EXCEPT !.fresh = b] \in TaskRows
      BY <3>1, <3>2, RowTypes, "retry_wait" \in TaskStates DEF TaskStates
    <3> QED
      BY <1>0, <1>15, <3>3 DEF finishTask, WorkersType
  <2> QED
    BY <1>0, <1>15, <2>2, SessionTypes
    DEF finishTask, provider, ledger, records, InboxType, RecordsType, CheckpointType, WorkersType,
        TypeOK
<1>16. ASSUME NEW s \in Sessions, StorageError(s) \/ ReconcileFails(s) \/ Die(s) PROVE TypeOK'
  <2>1. /\ {"delivering", "answering"} \subseteq SessionStates
        /\ {"storage_error", "denied"} \subseteq Outcomes
    BY DEF SessionStates, Outcomes
  <2>2. session' \in [Sessions -> SessionRecords]
    BY <1>0, <1>16, <2>1, SessionTypes
    DEF StorageError, ReconcileFails, Die, Recorded, Answer, WorkersType
  <2> QED
    BY <1>0, <1>16, <2>2
    DEF StorageError, ReconcileFails, Die, provider, ledger, records, InboxType, RecordsType,
        CheckpointType, WorkersType, TypeOK
<1> QED
  BY <1>1, <1>2, <1>3, <1>4, <1>5, <1>6, <1>7, <1>8, <1>9, <1>10, <1>11, <1>12, <1>13, <1>14,
     <1>15, <1>16, <1>0
  DEF Next, InboxStep, ReconcilerStep, TypeOK, InboxType, RecordsType, CheckpointType, WorkersType

-----------------------------------------------------------------------------
(* The ledger, the inbox and the records.                                  *)

LEMMA IngestMoves ==
  ASSUME TypeOK, NEW e \in Events, Ingest(e)
  PROVE  /\ \A f \in Events : \/ ingested'[f] = ingested[f]
                              \/ f = e /\ ingested[f] = 0 /\ ingested'[f] = epoch
         /\ \A f \in Events : inbox'[f].state # inbox[f].state =>
                                f = e /\ inbox'[f].state = "pending"
         /\ ingested'[e] # 0
BY EventTypes DEF TypeOK, Ingest, InboxRows

LEMMA LedgerStep ==
  ASSUME ServingInv, [Next]_vars
  PROVE  LedgerInv'
<1> USE DEF ServingInv
<1>0. /\ world \in Int /\ epoch \in Nat /\ epoch # 0 /\ LedgerInv
      /\ ingested \in [Events -> Nat] /\ disposition \in [ServingEvents -> Dispositions]
      /\ inbox \in [Events -> InboxRows]
  BY EventTypes DEF TypeOK, Changes
<1>1. CASE Quiet \/ UNCHANGED vars
  BY <1>0, <1>1 DEF Quiet, vars, provider, ledger, records, LedgerInv, OnRecord, Observed
<1>2. CASE ProviderChanges \/ ActivateConfiguration
  BY <1>0, <1>2, EventTypes
  DEF ProviderChanges, ActivateConfiguration, ledger, provider, records, LedgerInv, OnRecord, Observed
<1>3. ASSUME NEW e \in Events, Ingest(e), e \in ServingEvents => e.change <= world,
             UNCHANGED <<provider, epoch, records>>
      PROVE  LedgerInv'
  <2>1. \A f \in Events : \/ ingested'[f] = ingested[f]
                          \/ f = e /\ ingested[f] = 0 /\ ingested'[f] = epoch
    BY <1>3, IngestMoves
  <2>2. \A f \in Events : inbox'[f].state # inbox[f].state =>
                             f = e /\ inbox'[f].state = "pending" /\ ingested'[f] # 0
    BY <1>3, IngestMoves
  <2>3. UNCHANGED <<world, epoch, attempts, disposition>>
    BY <1>3 DEF provider, records
  <2>4. \A f \in Events : OnRecord(f)' <=> OnRecord(f)
    BY <2>3 DEF OnRecord
  <2> QED
    BY <1>0, <1>3, <2>1, <2>2, <2>3, <2>4, EventTypes DEF LedgerInv, Observed
<1>4. ASSUME NEW e \in Events, IngestEvent(e) PROVE LedgerInv'
  BY <1>3, <1>4 DEF IngestEvent
<1>5. ASSUME NEW s \in Sessions, IngestAnswer(s) PROVE LedgerInv'
  <2>1. session[s].event \in ServingEvents /\ session[s].event.change <= world
    BY <1>5 DEF IngestAnswer, SessionInv, Remembers, Answering
  <2> QED
    BY <1>3, <1>5, <2>1, EventTypes DEF IngestAnswer
<1>6. ASSUME NEW s \in Sessions, claimNextInbox(s) PROVE LedgerInv'
  <2>1. \A e \in Events :
          \/ inbox'[e] = inbox[e]
          \/ /\ inbox[e].state # "absent"
             /\ inbox'[e].state \in {"exhausted", "leased"}
    BY <1>6, InboxClaims
  <2> QED
    BY <1>0, <1>6, <2>1 DEF claimNextInbox, provider, ledger, records, LedgerInv, OnRecord, Observed
<1>7. ASSUME NEW s \in Sessions, recordAttempt(s) PROVE LedgerInv'
  BY <1>0, <1>7 DEF recordAttempt, provider, ledger, LedgerInv, OnRecord, Observed
<1>8. ASSUME NEW s \in Sessions, NEW e \in ServingEvents, NEW d \in Dispositions \ {"none"},
             disposition' = [disposition EXCEPT ![e] = d], ingested[e] # 0,
             UNCHANGED <<provider, ledger, inbox, attempts>>
      PROVE  LedgerInv'
  BY <1>0, <1>8 DEF provider, ledger, LedgerInv, OnRecord, Observed
<1>9. ASSUME NEW s \in Sessions, recordServingObservation(s) PROVE LedgerInv'
  <2>1. /\ session[s].event \in ServingEvents /\ ingested[session[s].event] # 0
        /\ UNCHANGED <<provider, ledger, inbox, attempts, binding>>
    BY <1>9 DEF recordServingObservation, SessionInv, Remembers, InboxSessions
  <2>2. {"applied", "reconciliation_required", "stale", "replay"} \subseteq Dispositions \ {"none"}
    BY DEF Dispositions
  <2>3. CASE Repeated(s)
    BY <2>1, <2>3, <1>1 DEF Repeated, Quiet, records
  <2>4. CASE ~Repeated(s)
    <3>1. \E d \in Dispositions \ {"none"} :
             disposition' = [disposition EXCEPT ![session[s].event] = d]
      BY <1>9, <2>2, <2>4, RecordingCases DEF AppliedNow, LeftToReconcile, Outrun
    <3> QED
      BY <1>8, <2>1, <3>1
  <2> QED
    BY <2>3, <2>4
<1>10. ASSUME NEW s \in Sessions, finishInbox(s) PROVE LedgerInv'
  <2> DEFINE e == session[s].event
             o == session[s].outcome
             state == InboxState(o, inbox[e])
  <2>1. e \in Events /\ ingested[e] # 0 /\ (o = "success" => OnRecord(e))
    BY <1>10 DEF finishInbox, SessionInv, Remembers, InboxSessions
  <2>2. state \in InboxStates /\ (state = "delivered" => o = "success")
    BY DEF InboxState, InboxStates
  <2>3. /\ End(inbox[e], state).state = state
    BY <1>0, <2>1, <2>2, RowTypes
  <2>4. CASE ~session[s].token
    BY <1>10, <2>4, <1>1 DEF finishInbox, Quiet
  <2>5. CASE session[s].token
    <3>1. inbox' = [inbox EXCEPT ![e] = End(inbox[e], state)]
      BY <1>10, <2>5 DEF finishInbox
    <3> HIDE DEF state
    <3>2. \A f \in Events : /\ inbox'[f].state # "absent" => ingested[f] # 0
                            /\ inbox'[f].state = "delivered" => OnRecord(f)
      BY <1>0, <2>1, <2>2, <2>3, <2>5, <3>1 DEF LedgerInv
    <3> QED
      BY <1>0, <1>10, <3>2
      DEF finishInbox, provider, ledger, records, LedgerInv, OnRecord, Observed
  <2> QED
    BY <2>4, <2>5
<1>11. ASSUME NEW s \in Sessions, confirmServingReconciliation(s) PROVE LedgerInv'
  <2>1. /\ session[s].event \in ServingEvents /\ ingested[session[s].event] # 0
        /\ UNCHANGED <<provider, ledger, inbox, attempts, binding>>
    BY <1>11 DEF confirmServingReconciliation, SessionInv, Remembers, Answering
  <2>2. {"applied", "reconciliation_required"} \subseteq Dispositions \ {"none"}
    BY DEF Dispositions
  <2>3. \/ UNCHANGED disposition
        \/ \E d \in Dispositions \ {"none"} :
             disposition' = [disposition EXCEPT ![session[s].event] = d]
    BY <1>11, <2>2 DEF confirmServingReconciliation
  <2> QED
    BY <1>1, <1>8, <2>1, <2>3 DEF Quiet, records
<1>12. ASSUME NEW s \in Sessions,
              \/ claimNextTask(s) \/ getPendingServingReconciliation(s) \/ Observe(s)
              \/ finishTask(s) \/ StorageError(s) \/ ReconcileFails(s) \/ Die(s)
       PROVE  Quiet
  BY <1>12 DEF claimNextTask, getPendingServingReconciliation, Observe, finishTask, StorageError,
       ReconcileFails, Die, Quiet
<1>13. CASE RequestReconciliation
  BY <1>1, <1>13 DEF RequestReconciliation, Quiet
<1> QED
  BY <1>1, <1>2, <1>4, <1>5, <1>6, <1>7, <1>9, <1>10, <1>11, <1>12, <1>13
  DEF Next, InboxStep, ReconcilerStep

LEMMA BindingStep ==
  ASSUME ServingInv, [Next]_vars
  PROVE  BindingInv'
<1> USE DEF ServingInv
<1>0. /\ BindingInv /\ attempts \subseteq AttemptEvents
      /\ binding \in [Artifacts -> Revisions \cup {None}]
  BY DEF TypeOK
<1>1. CASE UNCHANGED <<attempts, binding>>
  BY <1>0, <1>1 DEF BindingInv
<1>2. ASSUME NEW s \in Sessions, recordAttempt(s) PROVE BindingInv'
  <2> DEFINE e == session[s].event
  <2>1. e \in AttemptEvents
    BY <1>2 DEF recordAttempt
  <2>2. CASE Bindable(e)
    <3>1. attempts' = attempts \cup {e} /\ binding' = [binding EXCEPT ![e.artifact] = e.revision]
      BY <1>2, <2>2 DEF recordAttempt
    <3>2. \A f \in attempts' : binding'[f.artifact] = f.revision
      <4> SUFFICES ASSUME NEW f \in attempts' PROVE binding'[f.artifact] = f.revision
        OBVIOUS
      <4>1. f \in AttemptEvents
        BY <1>0, <2>1, <3>1
      <4>2. CASE f.artifact # e.artifact
        BY <1>0, <2>1, <3>1, <4>1, <4>2, EventTypes DEF BindingInv
      <4>3. CASE f.artifact = e.artifact
        BY <1>0, <2>1, <2>2, <3>1, <4>1, <4>3, EventTypes DEF BindingInv, Bindable
      <4> QED
        BY <4>2, <4>3
    <3>3. ASSUME NEW a \in Artifacts, binding'[a] # None
          PROVE  [artifact |-> a, revision |-> binding'[a]] \in attempts'
      <4>1. CASE a = e.artifact
        BY <1>0, <2>1, <3>1, <4>1, EventTypes
      <4>2. CASE a # e.artifact
        BY <1>0, <2>1, <3>1, <3>3, <4>2, EventTypes DEF BindingInv
      <4> QED
        BY <4>1, <4>2
    <3> QED
      BY <3>2, <3>3 DEF BindingInv
  <2>3. CASE ~Bindable(e)
    BY <1>1, <1>2, <2>3 DEF recordAttempt
  <2> QED
    BY <2>2, <2>3
<1>3. ASSUME NEW s \in Sessions, confirmServingReconciliation(s)
      PROVE  UNCHANGED <<attempts, binding>>
  BY <1>3 DEF confirmServingReconciliation
<1> QED
  BY <1>1, <1>2, <1>3
  DEF Next, vars, records, InboxStep, ReconcilerStep, ProviderChanges, ActivateConfiguration,
      RequestReconciliation, IngestEvent, claimNextInbox, claimNextTask,
      recordServingObservation, finishInbox, getPendingServingReconciliation, Observe,
      IngestAnswer, finishTask, StorageError, ReconcileFails, Die

-----------------------------------------------------------------------------
(* The checkpoint.                                                         *)

(* The two ends of a confirmation.                                         *)
Confirmed(s) ==
  LET e == session[s].event IN
  /\ TicketHolds(s) /\ ~Observed(e)
  /\ \E d \in {"applied", "reconciliation_required"} :
       disposition' = [disposition EXCEPT ![e] = d]
  /\ \E o \in Outcomes :
       MoveCheckpoint(Applied([checkpoint EXCEPT !.explicit = FALSE], e), Answer(s, o))
  /\ request' # "open"
Refused(s) ==
  /\ UNCHANGED <<disposition, checkpoint, task, request>>
  /\ \E o \in Outcomes : session' = Answer(s, o)

LEMMA ConfirmationCases ==
  ASSUME NEW s \in Sessions, confirmServingReconciliation(s)
  PROVE  Confirmed(s) \/ Refused(s)
<1>1. {"applied", "pending", "superseded"} \subseteq Outcomes
  BY DEF Outcomes
<1>2. CASE TicketHolds(s) /\ disposition[session[s].event] = "none"
  BY <1>1, <1>2 DEF confirmServingReconciliation, Confirmed, Observed
<1>3. CASE ~(TicketHolds(s) /\ disposition[session[s].event] = "none")
  BY <1>1, <1>3 DEF confirmServingReconciliation, Refused
<1> QED
  BY <1>2, <1>3

(* What the checkpoint becomes.                                            *)
LEMMA NewCheckpoint ==
  ASSUME TypeOK, NEW s \in Sessions, session[s].event \in ServingEvents
  PROVE  LET e == session[s].event IN
         /\ AppliedNow(s) =>
              /\ checkpoint'.current = e /\ checkpoint'.pending \in {e, None}
              /\ checkpoint'.exists /\ (checkpoint'.explicit <=> checkpoint.explicit)
              /\ checkpoint'.required <=> (~e.complete \/ checkpoint.explicit)
         /\ LeftToReconcile(s) =>
              /\ checkpoint'.current = checkpoint.current /\ checkpoint'.pending = e
              /\ checkpoint'.exists /\ checkpoint'.required
              /\ checkpoint'.explicit <=> checkpoint.explicit
         /\ Confirmed(s) =>
              /\ checkpoint'.current = e /\ checkpoint'.pending \in {e, None}
              /\ checkpoint'.exists
<1> DEFINE e == session[s].event
           c == [checkpoint EXCEPT !.explicit = FALSE]
<1>1. checkpoint \in Checkpoints
  BY DEF TypeOK
<1>2. c \in Checkpoints
  BY <1>1, CheckpointValues
<1> HIDE DEF e, c
<1>3. e \in ServingEvents
  BY DEF e
<1>4. AppliedNow(s) => checkpoint' = Applied(checkpoint, e)
  BY DEF AppliedNow, MoveCheckpoint, e
<1>5. LeftToReconcile(s) => checkpoint' = ReconcileLater(checkpoint, e)
  BY DEF LeftToReconcile, MoveCheckpoint, e
<1>6. Confirmed(s) => checkpoint' = Applied(c, e)
  BY DEF Confirmed, MoveCheckpoint, e, c
<1>7. /\ Applied(checkpoint, e).current = e /\ Applied(checkpoint, e).pending \in {e, None}
      /\ Applied(checkpoint, e).exists
      /\ Applied(checkpoint, e).explicit <=> checkpoint.explicit
      /\ Applied(checkpoint, e).required <=> (~e.complete \/ checkpoint.explicit)
  BY <1>1, <1>3, CheckpointValues
<1>8. /\ ReconcileLater(checkpoint, e).current = checkpoint.current
      /\ ReconcileLater(checkpoint, e).pending = e
      /\ ReconcileLater(checkpoint, e).exists /\ ReconcileLater(checkpoint, e).required
      /\ ReconcileLater(checkpoint, e).explicit <=> checkpoint.explicit
  <2>1. ReconcileLater(checkpoint, e).explicit <=> checkpoint.explicit
    BY <1>1, <1>3, CheckpointValues
  <2> QED
    BY <2>1, <1>1, <1>3 DEF ReconcileLater, Checkpoints
<1>9. /\ Applied(c, e).current = e /\ Applied(c, e).pending \in {e, None}
      /\ Applied(c, e).exists
  BY <1>2, <1>3, CheckpointValues
<1>10. AppliedNow(s) =>
         /\ checkpoint'.current = e /\ checkpoint'.pending \in {e, None}
         /\ checkpoint'.exists /\ (checkpoint'.explicit <=> checkpoint.explicit)
         /\ checkpoint'.required <=> (~e.complete \/ checkpoint.explicit)
  BY <1>4, <1>7
<1>11. LeftToReconcile(s) =>
         /\ checkpoint'.current = checkpoint.current /\ checkpoint'.pending = e
         /\ checkpoint'.exists /\ checkpoint'.required
         /\ checkpoint'.explicit <=> checkpoint.explicit
  BY <1>5, <1>8
<1>12. Confirmed(s) =>
         /\ checkpoint'.current = e /\ checkpoint'.pending \in {e, None}
         /\ checkpoint'.exists
  BY <1>6, <1>9
<1> QED
  BY <1>10, <1>11, <1>12 DEF e

(* What the checkpoint's invariants read.                                  *)
ReadByCheckpoint == <<bound, epoch, ingested, disposition, checkpoint, request>>

(* Every step either leaves that alone, or is one of these.                *)
CheckpointSteps ==
  \/ UNCHANGED ReadByCheckpoint
  \/ ActivateConfiguration
  \/ \E e \in Events : Ingest(e) /\ UNCHANGED <<bound, epoch, disposition, checkpoint, request>>
  \/ RequestReconciliation
  \/ \E s \in Sessions :
       /\ session[s].event \in ServingEvents /\ ingested[session[s].event] # 0
       /\ AppliedNow(s) \/ LeftToReconcile(s) \/ Outrun(s)
       /\ UNCHANGED <<bound, epoch, ingested, request>>
  \/ \E s \in Sessions :
       /\ Confirmed(s)
       /\ session[s].event \in ServingEvents /\ Unbeaten(s) /\ Answering(s)
       /\ UNCHANGED <<bound, epoch, ingested>>
  \/ /\ \E aged \in BOOLEAN : checkpoint' = Refreshed(Discovered(checkpoint), aged)
     /\ UNCHANGED <<bound, epoch, ingested, disposition, request>>

LEMMA CheckpointCases ==
  ASSUME ServingInv, [Next]_vars
  PROVE  CheckpointSteps
<1> USE DEF ServingInv
<1>1. CASE \/ UNCHANGED vars
           \/ ProviderChanges
           \/ \E s \in Sessions :
               \/ claimNextInbox(s) \/ recordAttempt(s) \/ finishInbox(s)
               \/ getPendingServingReconciliation(s) \/ Observe(s)
               \/ finishTask(s) \/ StorageError(s) \/ ReconcileFails(s) \/ Die(s)
  BY <1>1 DEF CheckpointSteps, ReadByCheckpoint, vars, provider, ledger, records, ProviderChanges,
       claimNextInbox, recordAttempt, finishInbox, getPendingServingReconciliation, Observe,
       finishTask, StorageError, ReconcileFails, Die
<1>2. CASE ActivateConfiguration \/ RequestReconciliation
  BY <1>2 DEF CheckpointSteps
<1>3. ASSUME NEW e \in Events, IngestEvent(e) PROVE CheckpointSteps
  BY <1>3 DEF CheckpointSteps, IngestEvent, provider, records
<1>4. ASSUME NEW s \in Sessions, IngestAnswer(s) PROVE CheckpointSteps
  <2>1. session[s].event \in Events
    BY <1>4, BoundTypes DEF IngestAnswer, Ingest
  <2> QED
    BY <1>4, <2>1 DEF CheckpointSteps, IngestAnswer, provider, records
<1>5. ASSUME NEW s \in Sessions, claimNextTask(s) PROVE CheckpointSteps
  BY <1>5, TaskClaims DEF claimNextTask, CheckpointSteps, provider, ledger, records
<1>6. ASSUME NEW s \in Sessions, recordServingObservation(s) PROVE CheckpointSteps
  <2>1. /\ session[s].event \in ServingEvents /\ ingested[session[s].event] # 0
        /\ UNCHANGED <<bound, epoch, ingested, request>>
    BY <1>6 DEF recordServingObservation, SessionInv, Remembers, InboxSessions, provider, ledger
  <2>2. CASE Repeated(s)
    BY <2>1, <2>2 DEF Repeated, CheckpointSteps, ReadByCheckpoint
  <2> QED
    BY <1>6, <2>1, <2>2, RecordingCases DEF CheckpointSteps
<1>7. ASSUME NEW s \in Sessions, confirmServingReconciliation(s) PROVE CheckpointSteps
  <2>1. /\ session[s].event \in ServingEvents /\ Unbeaten(s) /\ Answering(s)
        /\ UNCHANGED <<bound, epoch, ingested>>
    BY <1>7 DEF confirmServingReconciliation, SessionInv, Remembers, Answering, provider, ledger
  <2>2. CASE Refused(s)
    BY <2>1, <2>2 DEF Refused, CheckpointSteps, ReadByCheckpoint
  <2> QED
    BY <1>7, <2>1, <2>2, ConfirmationCases DEF CheckpointSteps
<1> QED
  BY <1>1, <1>2, <1>3, <1>4, <1>5, <1>6, <1>7 DEF Next, InboxStep, ReconcilerStep

LEMMA CheckpointStep ==
  ASSUME ServingInv, CheckpointSteps
  PROVE  CheckpointInv'
<1> USE DEF ServingInv
<1>0. /\ CheckpointInv /\ checkpoint \in Checkpoints
      /\ checkpoint.current \in ServingEvents \cup {None}
      /\ checkpoint.pending \in ServingEvents \cup {None}
      /\ disposition \in [ServingEvents -> Dispositions]
      /\ \A e \in ServingEvents : e # None
  BY EventTypes DEF TypeOK, Checkpoints
<1>1. CASE UNCHANGED <<disposition, checkpoint, request>>
  BY <1>0, <1>1 DEF CheckpointInv
<1>2. CASE RequestReconciliation
  BY <1>0, <1>2 DEF RequestReconciliation, MoveCheckpoint, records, CheckpointInv, Checkpoints
<1>3. ASSUME NEW s \in Sessions, session[s].event \in ServingEvents,
             AppliedNow(s) \/ LeftToReconcile(s) \/ Outrun(s), UNCHANGED request
      PROVE  CheckpointInv'
  <2> DEFINE e == session[s].event
  <2>1. CASE AppliedNow(s)
    <3>1. /\ checkpoint'.current = e /\ checkpoint'.pending \in {e, None} /\ checkpoint'.exists
          /\ checkpoint'.required <=> (~e.complete \/ checkpoint.explicit)
          /\ checkpoint'.explicit <=> checkpoint.explicit
      BY <1>0, <1>3, <2>1, NewCheckpoint
    <3>2. disposition'[e] = "applied"
      BY <1>0, <1>3, <2>1 DEF AppliedNow
    <3> QED
      BY <1>0, <1>3, <3>1, <3>2 DEF CheckpointInv
  <2>2. CASE LeftToReconcile(s)
    <3>1. /\ checkpoint'.current = checkpoint.current /\ checkpoint'.pending = e
          /\ checkpoint'.exists /\ checkpoint'.required
          /\ checkpoint'.explicit <=> checkpoint.explicit
      BY <1>0, <1>3, <2>2, NewCheckpoint
    <3>2. /\ disposition'[e] = "reconciliation_required"
          /\ \A f \in ServingEvents : f # e => disposition'[f] = disposition[f]
      BY <1>0, <1>3, <2>2 DEF LeftToReconcile
    <3> QED
      BY <1>0, <1>3, <3>1, <3>2 DEF CheckpointInv
  <2>3. CASE Outrun(s)
    <3>1. UNCHANGED checkpoint /\ ~Observed(e)
          /\ \A f \in ServingEvents : f # e => disposition'[f] = disposition[f]
      BY <1>0, <1>3, <2>3 DEF Outrun
    <3>2. e \notin {checkpoint.current, checkpoint.pending}
      BY <1>0, <1>3, <3>1 DEF CheckpointInv, Observed
    <3> QED
      BY <1>0, <1>3, <3>1, <3>2 DEF CheckpointInv
  <2> QED
    BY <1>3, <2>1, <2>2, <2>3
<1>4. ASSUME NEW s \in Sessions, session[s].event \in ServingEvents, Confirmed(s)
      PROVE  CheckpointInv'
  <2> DEFINE e == session[s].event
  <2>1. /\ checkpoint'.current = e /\ checkpoint'.pending \in {e, None} /\ checkpoint'.exists
    BY <1>0, <1>4, NewCheckpoint
  <2>2. disposition'[e] \in {"applied", "reconciliation_required"} /\ request' # "open"
    BY <1>0, <1>4 DEF Confirmed
  <2> QED
    BY <1>0, <1>4, <2>1, <2>2 DEF CheckpointInv
<1>5. ASSUME NEW aged \in BOOLEAN, checkpoint' = Refreshed(Discovered(checkpoint), aged),
             UNCHANGED <<disposition, request>>
      PROVE  CheckpointInv'
  BY <1>0, <1>5, ClaimedCheckpoint DEF CheckpointInv
<1> QED
  BY <1>1, <1>2, <1>3, <1>4, <1>5
  DEF CheckpointSteps, ReadByCheckpoint, ActivateConfiguration, records

(* The checkpoint never goes back, and the evidence for it is kept.        *)
Forward == checkpoint.current # None =>
             /\ checkpoint'.current # None
             /\ checkpoint.current.change <= checkpoint'.current.change

LEMMA EvidenceStep ==
  ASSUME ServingInv, CheckpointSteps
  PROVE  EvidenceInv' /\ Forward
<1> USE DEF ServingInv
<1> DEFINE cur == checkpoint.current
<1>0. /\ CheckpointInv /\ LedgerInv /\ EvidenceInv /\ checkpoint \in Checkpoints
      /\ cur \in ServingEvents \cup {None} /\ epoch \in Nat /\ epoch # 0
      /\ disposition \in [ServingEvents -> Dispositions] /\ ingested \in [Events -> Nat]
      /\ \A f \in ServingEvents : f \in Events /\ f # None /\ f.change \in Nat
  BY EventTypes DEF TypeOK, Checkpoints
<1>1. CASE UNCHANGED ReadByCheckpoint
  BY <1>0, <1>1 DEF ReadByCheckpoint, EvidenceInv, Ordered, ObservationCurrent, Observed, Behind,
       Forward
<1>2. CASE ActivateConfiguration
  <2>1. \A f \in ServingEvents : ingested'[f] # epoch'
    BY <1>0, <1>2 DEF ActivateConfiguration, LedgerInv
  <2> QED
    BY <1>0, <1>2, <2>1 DEF ActivateConfiguration, EvidenceInv, Forward
<1>3. ASSUME NEW e \in Events, Ingest(e), UNCHANGED <<bound, epoch, disposition, checkpoint>>
      PROVE  EvidenceInv' /\ Forward
  <2>1. \A f \in Events : ingested[f] # 0 => ingested'[f] = ingested[f]
    BY <1>3, IngestMoves
  <2>2. \A f \in ServingEvents : Observed(f) => ingested'[f] = ingested[f]
    BY <1>0, <2>1 DEF LedgerInv
  <2>3. cur # None => ingested'[cur] = ingested[cur]
    BY <1>0, <2>2 DEF CheckpointInv, Observed
  <2> QED
    BY <1>0, <1>3, <2>2, <2>3
    DEF EvidenceInv, Ordered, ObservationCurrent, Observed, Behind, Forward
<1>4. CASE RequestReconciliation
  <2>1. /\ UNCHANGED <<bound, epoch, disposition, ingested>>
        /\ checkpoint'.current = cur /\ checkpoint'.required
    BY <1>0, <1>4 DEF RequestReconciliation, MoveCheckpoint, provider, ledger, records, Checkpoints
  <2> QED
    BY <1>0, <2>1 DEF EvidenceInv, Ordered, ObservationCurrent, Observed, Behind, Forward
<1>5. ASSUME NEW aged \in BOOLEAN, checkpoint' = Refreshed(Discovered(checkpoint), aged),
             UNCHANGED <<bound, epoch, ingested, disposition, request>>
      PROVE  EvidenceInv' /\ Forward
  <2>1. checkpoint' = checkpoint \/ (checkpoint'.current = cur /\ checkpoint'.required)
    BY <1>0, <1>5, ClaimedCheckpoint DEF CheckpointInv
  <2> QED
    BY <1>0, <1>5, <2>1
    DEF EvidenceInv, Ordered, ObservationCurrent, Observed, Behind, Forward
<1>6. ASSUME NEW s \in Sessions, session[s].event \in ServingEvents, AppliedNow(s),
             UNCHANGED <<bound, epoch, ingested>>
      PROVE  EvidenceInv' /\ Forward
  <2> DEFINE e == session[s].event
  <2>1. checkpoint'.current = e
    BY <1>0, <1>6, NewCheckpoint
  <2>2. Ordered /\ (cur # None => cur.change < e.change)
    BY <1>6 DEF AppliedNow, Ordered, SameAuthority
  <2>3. \A f \in ServingEvents : f # e => (disposition'[f] = disposition[f])
    BY <1>0, <1>6 DEF AppliedNow
  <2>4. \A f \in ServingEvents : Observed(f) /\ ingested[f] = epoch => f.change < e.change
    BY <1>0, <1>6, <2>2 DEF EvidenceInv, Behind
  <2>5. \A f \in ServingEvents : disposition'[f] # "none" /\ ingested'[f] = epoch'
                                  => f.change <= e.change
    BY <1>0, <1>6, <2>3, <2>4 DEF Observed
  <2> QED
    BY <1>0, <1>6, <2>1, <2>2, <2>5 DEF EvidenceInv, Observed, Behind, Forward
<1>7. ASSUME NEW s \in Sessions, session[s].event \in ServingEvents, LeftToReconcile(s),
             UNCHANGED <<bound, epoch, ingested>>
      PROVE  EvidenceInv' /\ Forward
  <2> DEFINE e == session[s].event
  <2>1. checkpoint'.current = cur /\ checkpoint'.required
    BY <1>0, <1>7, NewCheckpoint
  <2>2. \A f \in ServingEvents : f # e => (disposition'[f] = disposition[f])
    BY <1>0, <1>7 DEF LeftToReconcile
  <2>3. Ordered' <=> Ordered
    BY <1>7, <2>1 DEF Ordered
  <2>4. Ordered /\ ingested[e] = epoch => Behind(e)
    BY <1>0, <1>7 DEF LeftToReconcile, Ordered, SameAuthority, Behind
  <2>5. \A f \in ServingEvents : Behind(f)' <=> Behind(f)
    BY <2>1 DEF Behind
  <2>6. Ordered => \A f \in ServingEvents :
                     disposition'[f] # "none" /\ ingested[f] = epoch => Behind(f)
    BY <1>0, <2>2, <2>4 DEF EvidenceInv, Observed
  <2> QED
    BY <1>0, <1>7, <2>1, <2>3, <2>5, <2>6 DEF EvidenceInv, Observed, Forward
<1>8. ASSUME NEW s \in Sessions, session[s].event \in ServingEvents, Outrun(s),
             UNCHANGED <<bound, epoch, ingested>>
      PROVE  EvidenceInv' /\ Forward
  <2> DEFINE e == session[s].event
  <2>1. UNCHANGED checkpoint /\ Behind(e)
    BY <1>8 DEF Outrun
  <2>2. \A f \in ServingEvents : f # e => (disposition'[f] = disposition[f])
    BY <1>0, <1>8 DEF Outrun
  <2> QED
    BY <1>0, <1>8, <2>1, <2>2
    DEF EvidenceInv, Ordered, ObservationCurrent, Observed, Behind, Forward
<1>9. ASSUME NEW s \in Sessions, session[s].event \in ServingEvents, Confirmed(s),
             Unbeaten(s), Answering(s), UNCHANGED <<bound, epoch, ingested>>
      PROVE  EvidenceInv' /\ Forward
  <2> DEFINE e == session[s].event
  <2>1. checkpoint'.current = e
    BY <1>0, <1>9, NewCheckpoint
  <2>2. \A f \in ServingEvents : f # e => (disposition'[f] = disposition[f])
    BY <1>0, <1>9 DEF Confirmed
  <2>3. \A f \in ServingEvents : Observed(f) => f.change <= e.change
    BY <1>9 DEF Confirmed, TicketHolds, Unbeaten
  <2>4. cur # None => Observed(cur)
    BY <1>0 DEF CheckpointInv, Observed
  <2>5. \A f \in ServingEvents : disposition'[f] # "none" => f.change <= e.change
    BY <1>0, <2>2, <2>3 DEF Observed
  <2> QED
    BY <1>0, <1>9, <2>1, <2>3, <2>4, <2>5 DEF EvidenceInv, Observed, Behind, Forward
<1> QED
  BY <1>1, <1>2, <1>3, <1>4, <1>5, <1>6, <1>7, <1>8, <1>9 DEF CheckpointSteps

-----------------------------------------------------------------------------
(* What the drains remember.                                               *)

(* What a step may make of a session: leave it alone or spoil its ticket,  *)
(* send it where nothing is remembered, give it a row of the inbox, its    *)
(* outcome, an answer, or the ledger's word that the answer is known.      *)
WillBeOnRecord(e) == IF e \in AttemptEvents THEN e \in attempts' ELSE disposition'[e] # "none"
SessionMoves(t) ==
  LET r == session[t]
      q == session'[t] IN
  \/ SameSession(r, q)
  \/ q.pc \in {"idle", "asking", "observing", "answering"}
  \/ q.pc = "recording" /\ q.event \in Events /\ inbox[q.event].state # "absent"
  \/ /\ r.pc \in InboxSessions /\ q.pc = "delivering" /\ q.event = r.event
     /\ q.outcome = "success" => WillBeOnRecord(r.event)
  \/ q.pc = "ingesting" /\ q.event \in ServingEvents /\ q.event.change = world
  \/ /\ r.pc = "ingesting" /\ q.pc = "confirming" /\ q.event = r.event
     /\ q.fresh => r.fresh
     /\ ingested'[q.event] # 0

(* And of the tables it is about: they grow, and what is recorded while a  *)
(* ticket stays good was outrun by the current event.                      *)
TableMoves ==
  /\ world <= world'
  /\ \A e \in Events : ingested[e] # 0 => ingested'[e] # 0
  /\ attempts \subseteq attempts'
  /\ \A f \in ServingEvents : disposition[f] # "none" => disposition'[f] # "none"
  /\ \A f \in ServingEvents : disposition[f] = "none" /\ disposition'[f] # "none" =>
       Behind(f) \/ \A t \in Sessions : ~session'[t].fresh

LEMMA MovesKeepSessions ==
  ASSUME ServingInv, TypeOK', TableMoves,
         \A t \in Sessions : SessionMoves(t)
  PROVE  SessionInv'
<1> USE DEF ServingInv
<1> SUFFICES ASSUME NEW t \in Sessions PROVE Remembers(t)' /\ Unbeaten(t)'
  BY DEF SessionInv
<1> DEFINE r == session[t]
           q == session'[t]
<1>0. /\ Remembers(t) /\ Unbeaten(t) /\ LedgerInv /\ CheckpointInv /\ SessionMoves(t)
      /\ world \in Nat /\ world' \in Nat
      /\ checkpoint.current \in ServingEvents \cup {None}
      /\ \A f \in ServingEvents : f \in Events /\ f # None /\ f.change \in Nat
  BY EventTypes DEF SessionInv, TypeOK, Checkpoints, Changes
<1>1. \A e \in Events : OnRecord(e) => OnRecord(e)'
  BY EventTypes DEF TableMoves, OnRecord
<1>2. checkpoint.current # None => Observed(checkpoint.current)
  BY <1>0 DEF CheckpointInv, Observed
<1>3. \A f \in ServingEvents : Observed(f) => f.change <= world
  BY <1>0 DEF LedgerInv
<1>4. CASE SameSession(r, q) /\ ~(Answering(t) /\ q.fresh)
  BY <1>0, <1>1, <1>4 DEF SameSession, Remembers, Unbeaten, Answering, InboxSessions, TableMoves
<1>5. CASE /\ Answering(t) /\ q.fresh /\ r.fresh
           /\ q.pc \in {"ingesting", "confirming"} /\ q.event = r.event
           /\ q.pc = "confirming" => ingested'[q.event] # 0
  <2>1. /\ r.event \in ServingEvents /\ r.event.change <= world
        /\ \A f \in ServingEvents : Observed(f) => f.change <= r.event.change
    BY <1>0, <1>5 DEF Remembers, Unbeaten
  <2>2. ASSUME NEW f \in ServingEvents, Behind(f)
        PROVE  f.change <= r.event.change
    BY <1>0, <1>2, <2>1, <2>2 DEF Behind
  <2>3. ASSUME NEW f \in ServingEvents, disposition'[f] # "none"
        PROVE  f.change <= r.event.change
    BY <1>5, <2>1, <2>2, <2>3 DEF TableMoves, Observed
  <2> QED
    BY <1>0, <1>5, <2>1, <2>3
    DEF Remembers, Unbeaten, Answering, InboxSessions, TableMoves, Observed
<1>6. CASE q.pc \in {"idle", "asking", "observing", "answering"}
  BY <1>6 DEF Remembers, Unbeaten, Answering, InboxSessions
<1>7. CASE q.pc = "recording" /\ q.event \in Events /\ inbox[q.event].state # "absent"
  BY <1>0, <1>7 DEF Remembers, Unbeaten, Answering, InboxSessions, LedgerInv, TableMoves
<1>8. CASE /\ r.pc \in InboxSessions /\ q.pc = "delivering" /\ q.event = r.event
           /\ q.outcome = "success" => WillBeOnRecord(r.event)
  BY <1>0, <1>8
  DEF Remembers, Unbeaten, Answering, InboxSessions, TableMoves, OnRecord, WillBeOnRecord
<1>9. CASE q.pc = "ingesting" /\ q.event \in ServingEvents /\ q.event.change = world
  <2>1. \A f \in ServingEvents : Behind(f) => f.change <= world
    BY <1>0, <1>2, <1>3 DEF Behind
  <2>2. q.fresh => \A f \in ServingEvents : disposition'[f] # "none" => f.change <= world
    BY <1>3, <2>1 DEF TableMoves, Observed
  <2> QED
    BY <1>0, <1>9, <2>2
    DEF Remembers, Unbeaten, Answering, InboxSessions, TableMoves, Observed
<1>10. CASE /\ r.pc = "ingesting" /\ q.pc = "confirming" /\ q.event = r.event
            /\ ingested'[q.event] # 0 /\ ~q.fresh
  BY <1>0, <1>10 DEF Remembers, Unbeaten, Answering, InboxSessions, TableMoves
<1>11. CASE SameSession(r, q) /\ Answering(t) /\ q.fresh
  BY <1>0, <1>5, <1>11 DEF SameSession, Answering, Remembers, TableMoves
<1> QED
  BY <1>0, <1>4, <1>5, <1>6, <1>7, <1>8, <1>9, <1>10, <1>11 DEF SessionMoves, Answering

(* One session moves, the others are left alone.                           *)
LEMMA OneMoves ==
  ASSUME NEW s \in Sessions, session \in [Sessions -> SessionRecords], SessionMoves(s),
         \A t \in Sessions \ {s} : session'[t] = session[t]
  PROVE  \A t \in Sessions : SessionMoves(t)
BY DEF SessionMoves, SameSession

LEMMA TablesAlone ==
  ASSUME TypeOK, UNCHANGED <<world, ingested, attempts, disposition>>
  PROVE  TableMoves
BY DEF TypeOK, Changes, TableMoves

(* A step that moves the checkpoint leaves no ticket good.                 *)
LEMMA CheckpointMoves ==
  ASSUME TypeOK, NEW c, NEW f \in [Sessions -> SessionRecords], MoveCheckpoint(c, f)
  PROVE  \A t \in Sessions : /\ ~session'[t].fresh /\ session'[t].pc = f[t].pc
                             /\ session'[t].event = f[t].event
                             /\ session'[t].outcome = f[t].outcome
BY OutdatedSessions DEF MoveCheckpoint

LEMMA SessionStep ==
  ASSUME ServingInv, [Next]_vars, TypeOK'
  PROVE  SessionInv'
<1> USE DEF ServingInv
<1>0. /\ session \in [Sessions -> SessionRecords] /\ world \in Nat
      /\ disposition \in [ServingEvents -> Dispositions]
      /\ SessionInv
  BY DEF TypeOK, Changes
<1>1. CASE UNCHANGED vars \/ ProviderChanges \/ ActivateConfiguration
  <2>1. TableMoves
    BY <1>0, <1>1, TablesAlone
    DEF vars, provider, ledger, records, ProviderChanges, ActivateConfiguration, TableMoves
  <2>2. UNCHANGED session
    BY <1>1 DEF vars, ProviderChanges, ActivateConfiguration
  <2>3. \A t \in Sessions : SessionMoves(t)
    BY <2>2 DEF SessionMoves, SameSession
  <2> QED
    BY <2>1, <2>3, MovesKeepSessions
<1>2. CASE RequestReconciliation
  <2> DEFINE asked == [t \in Sessions |-> [session[t] EXCEPT !.asked = TRUE]]
  <2>1. TableMoves
    BY <1>2, TablesAlone DEF RequestReconciliation, provider, ledger, records
  <2>2. /\ asked \in [Sessions -> SessionRecords]
        /\ \A t \in Sessions : /\ asked[t].pc = session[t].pc
                               /\ asked[t].event = session[t].event
                               /\ asked[t].outcome = session[t].outcome
    BY <1>0, SessionTypes DEF SessionRecords
  <2>3. \E c : MoveCheckpoint(c, asked)
    BY <1>2 DEF RequestReconciliation
  <2> HIDE DEF asked
  <2>4. \A t \in Sessions : SameSession(session[t], session'[t])
    BY <2>2, <2>3, CheckpointMoves DEF SameSession
  <2>5. \A t \in Sessions : SessionMoves(t)
    BY <2>4 DEF SessionMoves
  <2> QED
    BY <2>1, <2>5, MovesKeepSessions
<1>3. ASSUME NEW e \in Events, IngestEvent(e) PROVE SessionInv'
  <2>1. \A f \in Events : ingested[f] # 0 => ingested'[f] # 0
    BY <1>3, IngestMoves DEF IngestEvent
  <2>2. TableMoves
    BY <1>0, <1>3, <2>1 DEF IngestEvent, provider, records, TableMoves
  <2>3. \A t \in Sessions : SessionMoves(t)
    BY <1>3 DEF IngestEvent, SessionMoves, SameSession
  <2> QED
    BY <2>2, <2>3, MovesKeepSessions
<1>4. ASSUME NEW s \in Sessions, claimNextInbox(s) \/ claimNextTask(s) PROVE SessionInv'
  <2>1. TableMoves
    BY <1>4, TablesAlone DEF claimNextInbox, claimNextTask, provider, ledger, records
  <2>2. \A t \in Sessions : SessionMoves(t)
    BY <1>4, InboxClaims, TaskClaims DEF SessionMoves
  <2> QED
    BY <2>1, <2>2, MovesKeepSessions
<1>5. ASSUME NEW s \in Sessions,
             \/ finishInbox(s) \/ getPendingServingReconciliation(s) \/ Observe(s)
             \/ finishTask(s) \/ StorageError(s) \/ ReconcileFails(s) \/ Die(s)
      PROVE  SessionInv'
  <2>1. TableMoves
    BY <1>5, TablesAlone
    DEF finishInbox, getPendingServingReconciliation, Observe, finishTask, StorageError,
        ReconcileFails, Die, provider, ledger, records
  <2>2. \A t \in Sessions \ {s} : session'[t] = session[t]
    BY <1>0, <1>5
    DEF finishInbox, getPendingServingReconciliation, Observe, finishTask, StorageError,
        ReconcileFails, Die, Recorded, Answer
  <2>3. \/ session'[s].pc \in {"idle", "observing", "answering"}
        \/ /\ session[s].pc \in InboxSessions /\ session'[s].pc = "delivering"
           /\ session'[s].event = session[s].event /\ session'[s].outcome = "storage_error"
        \/ /\ session'[s].pc = "ingesting" /\ session'[s].event \in ServingEvents
           /\ session'[s].event.change = world
    <3>1. session[s] \in SessionRecords
      BY <1>0
    <3>2. CASE finishInbox(s) \/ finishTask(s) \/ Die(s)
      BY <1>0, <3>2 DEF finishInbox, finishTask, Die, Idle
    <3>3. CASE getPendingServingReconciliation(s) \/ ReconcileFails(s)
      BY <1>0, <3>1, <3>3
      DEF getPendingServingReconciliation, ReconcileFails, Answer, SessionRecords
    <3>4. CASE StorageError(s)
      BY <1>0, <3>1, <3>4 DEF StorageError, Recorded, InboxSessions, SessionRecords
    <3>5. CASE Observe(s)
      BY <1>0, <3>1, <3>5 DEF Observe, SessionRecords
    <3> QED
      BY <1>5, <3>2, <3>3, <3>4, <3>5
  <2>4. SessionMoves(s)
    BY <2>3 DEF SessionMoves
  <2> QED
    BY <1>0, <2>1, <2>2, <2>4, OneMoves, MovesKeepSessions
<1>6. ASSUME NEW s \in Sessions, IngestAnswer(s) PROVE SessionInv'
  <2> DEFINE e == session[s].event
  <2>1. e \in Events
    BY <1>6, BoundTypes DEF IngestAnswer, Ingest
  <2>2. ingested'[e] # 0 /\ \A f \in Events : ingested[f] # 0 => ingested'[f] # 0
    BY <1>6, <2>1, IngestMoves DEF IngestAnswer
  <2>3. TableMoves
    BY <1>0, <1>6, <2>2 DEF IngestAnswer, provider, records, TableMoves
  <2>4. /\ session'[s].pc = "confirming" /\ session'[s].event = e
        /\ session'[s].fresh => session[s].fresh
        /\ session[s].pc = "ingesting"
        /\ \A t \in Sessions \ {s} : session'[t] = session[t]
    BY <1>0, <1>6 DEF IngestAnswer, SessionRecords
  <2>5. SessionMoves(s)
    BY <2>2, <2>4 DEF SessionMoves
  <2> QED
    BY <1>0, <2>3, <2>4, <2>5, OneMoves, MovesKeepSessions
<1>7. ASSUME NEW s \in Sessions, NEW f \in [Sessions -> SessionRecords],
             NEW o, f = Recorded(s, o), session[s].pc \in InboxSessions,
             \A t \in Sessions : SameSession(f[t], session'[t]),
             o = "success" => WillBeOnRecord(session[s].event)
      PROVE  \A t \in Sessions : SessionMoves(t)
  <2>1. /\ f[s].pc = "delivering" /\ f[s].event = session[s].event /\ f[s].outcome = o
        /\ \A t \in Sessions \ {s} : f[t] = session[t]
    BY <1>0, <1>7 DEF Recorded, SessionRecords
  <2>2. SessionMoves(s)
    BY <1>7, <2>1 DEF SessionMoves, SameSession
  <2>3. \A t \in Sessions \ {s} : SessionMoves(t)
    BY <1>7, <2>1 DEF SessionMoves
  <2> QED
    BY <2>2, <2>3
<1>8. \A s \in Sessions, o \in Outcomes : /\ Recorded(s, o) \in [Sessions -> SessionRecords]
                                         /\ Answer(s, o) \in [Sessions -> SessionRecords]
  <2>1. {"delivering", "answering"} \subseteq SessionStates
    BY DEF SessionStates
  <2> QED
    BY <1>0, <2>1, SessionTypes DEF Recorded, Answer
<1>9. {"success", "conflict"} \subseteq Outcomes
  BY DEF Outcomes
<1>10. ASSUME NEW s \in Sessions, recordAttempt(s) PROVE SessionInv'
  <2> DEFINE e == session[s].event
  <2>1. /\ attempts \subseteq attempts' /\ UNCHANGED <<world, ingested, disposition>>
    BY <1>10 DEF recordAttempt, provider, ledger
  <2>2. TableMoves
    BY <1>0, <2>1 DEF TableMoves
  <2>3. PICK o \in {"success", "conflict"} :
          session' = Recorded(s, o) /\ (o = "success" => WillBeOnRecord(e))
    BY <1>10 DEF recordAttempt, WillBeOnRecord
  <2>4. session[s].pc \in InboxSessions
    BY <1>10 DEF recordAttempt, InboxSessions
  <2>5. \A t \in Sessions : SessionMoves(t)
    BY <1>7, <1>8, <1>9, <2>3, <2>4 DEF SameSession
  <2> QED
    BY <2>2, <2>5, MovesKeepSessions
<1>11. ASSUME NEW s \in Sessions, recordServingObservation(s) PROVE SessionInv'
  <2> DEFINE e == session[s].event
             done == Recorded(s, "success")
  <2>1. /\ e \in ServingEvents /\ session[s].pc \in InboxSessions
        /\ UNCHANGED <<world, ingested, attempts>>
    BY <1>11 DEF recordServingObservation, InboxSessions, provider, ledger
  <2>2. done \in [Sessions -> SessionRecords]
    BY <1>8, <1>9
  <2>3. /\ disposition'[e] # "none"
        /\ \A f \in ServingEvents : disposition[f] # "none" => disposition'[f] # "none"
        /\ \A f \in ServingEvents \ {e} : disposition'[f] = disposition[f]
    <3>1. CASE Repeated(s)
      BY <3>1 DEF Repeated, Observed
    <3>2. CASE ~Repeated(s)
      BY <1>0, <1>11, <2>1, <3>2, RecordingCases DEF AppliedNow, LeftToReconcile, Outrun
    <3> QED
      BY <3>1, <3>2
  <2> HIDE DEF done
  <2>4. /\ \/ Observed(e) \/ Behind(e) \/ \A t \in Sessions : ~session'[t].fresh
        /\ \A t \in Sessions : SameSession(done[t], session'[t])
    <3>1. CASE AppliedNow(s) \/ LeftToReconcile(s)
      <4>1. \E c : MoveCheckpoint(c, done)
        BY <3>1 DEF AppliedNow, LeftToReconcile, done
      <4> QED
        BY <4>1, <2>2, CheckpointMoves DEF SameSession
    <3>2. CASE Repeated(s) \/ Outrun(s)
      BY <3>2 DEF Repeated, Outrun, done, SameSession
    <3> QED
      BY <1>11, <3>1, <3>2, RecordingCases
  <2>5. TableMoves
    BY <1>0, <2>1, <2>3, <2>4 DEF TableMoves, Observed
  <2>6. WillBeOnRecord(e)
    BY <2>1, <2>3, EventTypes DEF WillBeOnRecord
  <2>7. \A t \in Sessions : SessionMoves(t)
    BY <1>7, <2>1, <2>2, <2>4, <2>6 DEF done
  <2> QED
    BY <2>5, <2>7, MovesKeepSessions
<1>12. ASSUME NEW s \in Sessions, confirmServingReconciliation(s) PROVE SessionInv'
  <2> DEFINE e == session[s].event
  <2>1. e \in ServingEvents /\ UNCHANGED <<world, ingested, attempts>>
    BY <1>12
    DEF confirmServingReconciliation, SessionInv, Remembers, Answering, provider, ledger
  <2>2. PICK o \in Outcomes :
          \/ Refused(s) /\ session' = Answer(s, o)
          \/ Confirmed(s) /\ \E c : MoveCheckpoint(c, Answer(s, o))
    BY <1>12, ConfirmationCases DEF Refused, Confirmed
  <2>3. /\ \A t \in Sessions : SameSession(Answer(s, o)[t], session'[t])
        /\ Refused(s) \/ (Confirmed(s) /\ \A t \in Sessions : ~session'[t].fresh)
    BY <1>8, <2>2, CheckpointMoves DEF SameSession
  <2>4. Answer(s, o)[s].pc = "answering"
        /\ \A t \in Sessions \ {s} : Answer(s, o)[t] = session[t]
    BY <1>0 DEF Answer, SessionRecords
  <2>5. \A t \in Sessions : SessionMoves(t)
    BY <2>3, <2>4 DEF SessionMoves, SameSession
  <2>6. TableMoves
    <3>1. CASE Refused(s)
      BY <2>1, <3>1, TablesAlone DEF Refused
    <3>2. CASE Confirmed(s) /\ \A t \in Sessions : ~session'[t].fresh
      <4>1. PICK d \in {"applied", "reconciliation_required"} :
              disposition' = [disposition EXCEPT ![e] = d]
        BY <3>2 DEF Confirmed
      <4>2. \A f \in ServingEvents : disposition[f] # "none" => disposition'[f] # "none"
        BY <1>0, <2>1, <4>1
      <4> QED
        BY <1>0, <2>1, <3>2, <4>2 DEF TableMoves
    <3> QED
      BY <2>3, <3>1, <3>2
  <2> QED
    BY <2>5, <2>6, MovesKeepSessions
<1> QED
  BY <1>1, <1>2, <1>3, <1>4, <1>5, <1>6, <1>10, <1>11, <1>12 DEF Next, InboxStep, ReconcilerStep

-----------------------------------------------------------------------------
(* The theorems about EnvironmentServing.                                  *)

LEMMA ServingInit == Init => ServingInv
<1> SUFFICES ASSUME Init PROVE ServingInv
  OBVIOUS
<1>1. TypeOK
  <2>1. NoCheckpoint \in Checkpoints /\ NoCheckpoint.pending = None
    BY DEF NoCheckpoint, Checkpoints
  <2>2. Idle \in SessionRecords
    BY DEF Idle, SessionRecords, SessionStates, Outcomes
  <2>3. "none" \in Dispositions /\ 1 \in Epochs /\ 0 \in Changes
    BY EventAssumption DEF Dispositions, Epochs, Changes
  <2> QED
    BY <2>1, <2>2, <2>3, RowTypes DEF Init, TypeOK
<1>2. LedgerInv /\ BindingInv
  BY EventTypes DEF Init, LedgerInv, BindingInv, NoInboxRow, Observed
<1>3. CheckpointInv /\ EvidenceInv
  BY DEF Init, CheckpointInv, EvidenceInv, NoCheckpoint, Observed
<1>4. SessionInv
  BY DEF Init, SessionInv, Remembers, Unbeaten, Answering, InboxSessions, Idle
<1> QED
  BY <1>1, <1>2, <1>3, <1>4 DEF ServingInv

LEMMA ServingStep == ServingInv /\ [Next]_vars => ServingInv'
<1> SUFFICES ASSUME ServingInv, [Next]_vars PROVE ServingInv'
  OBVIOUS
<1>1. TypeOK'
  BY TypeStep
<1>2. LedgerInv' /\ BindingInv'
  BY LedgerStep, BindingStep
<1>3. CheckpointInv' /\ EvidenceInv'
  BY CheckpointCases, CheckpointStep, EvidenceStep
<1>4. SessionInv'
  BY <1>1, SessionStep
<1> QED
  BY <1>1, <1>2, <1>3, <1>4 DEF ServingInv

(* What the drains remember, the tables and the checkpoint fit together in *)
(* every reachable state: an answer under a good ticket is unbeaten, and   *)
(* the checkpoint is behind nothing it does not wait for.                  *)
THEOREM ServingInvariant == Spec => []ServingInv
BY ServingInit, ServingStep, PTL DEF Spec

(* Only what is on record is called delivered, attempts never disagree     *)
(* about an artifact's revision, and the checkpoint rests on observations  *)
(* that were recorded and not stale, whatever sessions died between        *)
(* recording and finishing.                                                *)
THEOREM RecordsHold == Spec => []RecordsAgree
<1>1. ServingInv => RecordsAgree
  BY DEF ServingInv, RecordsAgree, LedgerInv, BindingInv, CheckpointInv, OnRecord
<1> QED
  BY <1>1, ServingInvariant, PTL

(* While nothing is to be reconciled, no recorded observation of the       *)
(* active configuration is newer than the presented state.                 *)
THEOREM EvidenceHolds == Spec => []EvidenceNotIgnored
<1>1. ServingInv => EvidenceNotIgnored
  BY DEF ServingInv, EvidenceNotIgnored, EvidenceInv, Trusted, Observed, Behind
<1> QED
  BY <1>1, ServingInvariant, PTL

(* An explicit request keeps the state to be reconciled until an answer    *)
(* made after it is confirmed.                                             *)
THEOREM RequestHolds == Spec => []RequestSurvives
<1>1. ServingInv => RequestSurvives
  BY DEF ServingInv, RequestSurvives, CheckpointInv
<1> QED
  BY <1>1, ServingInvariant, PTL

(* No delivery, confirmation or configuration change takes the checkpoint  *)
(* back to an older state of the provider.                                 *)
THEOREM ServingMovesForward == Spec => NoServingUndone
<1>1. ServingInv /\ [Next]_vars =>
        [checkpoint.current # None =>
           checkpoint.current.change <= checkpoint'.current.change]_vars
  BY CheckpointCases, EvidenceStep DEF Forward
<1> QED
  BY <1>1, ServingInvariant, PTL DEF Spec, NoServingUndone

-----------------------------------------------------------------------------
(* Publications.  What is published is not what is served: the steps of    *)
(* publishing leave the environment alone.                                 *)

LEMMA PublishingServes == PublicationsSpec => Spec
<1>1. PublicationsInit => Init
  BY DEF PublicationsInit
<1>2. [PublicationsNext]_allVars => [Next]_vars
  <2>1. PublicationStep => UNCHANGED vars
    BY DEF PublicationStep, Analyse, BranchMoves, BranchIsUncertain, promoteBranch, ChangeBranch,
         prepareRevision, prepareBranch, prepareEnvironment, Prepare, publish
  <2> QED
    BY <2>1 DEF PublicationsNext, allVars
<1> QED
  BY <1>1, <1>2, PTL DEF PublicationsSpec, Spec

(* The invariant: what was ever prepared came from a pointer of the branch *)
(* or of the environment that was good at the time, and the two only move  *)
(* forward.                                                                *)
BranchRows == [snapshot : Snapshots \cup {None}, version : 0 .. MaxPointer,
               desired : Revisions \cup {None}, uncertain : BOOLEAN]
PublicationRows == [snapshot : Snapshots, event : ServingEvents \cup {None},
                    pointer : 0 .. MaxPointer]

PublicationsType ==
  /\ key \in Keys
  /\ analysed \subseteq Snapshots /\ IsFiniteSet(analysed)
  /\ branch \in BranchRows /\ branch.snapshot \in analysed \cup {None}
  /\ prepared \subseteq PublicationRows
  /\ current \in prepared \cup {None}

PreparedFor(p) ==
  /\ p.snapshot \in analysed
  /\ key # "none"
  /\ key \in Revisions => p.snapshot.revision = key /\ p.event = None /\ p.pointer = 0
  /\ key = "branch" =>
       /\ p.event = None /\ p.pointer <= branch.version
       /\ p.pointer = branch.version => p.snapshot = branch.snapshot
  /\ key = "environment" =>
       /\ p.event \in ServingEvents /\ p.pointer = 0
       /\ checkpoint.current # None /\ p.event.change <= checkpoint.current.change

PublicationsInv == PublicationsType /\ \A p \in prepared : PreparedFor(p)

LEMMA PublicationTypes ==
  /\ \A s \in Snapshots : s.revision \in Revisions /\ s.epoch \in Epochs /\ s # None
  /\ \A r \in Revisions : r \notin {"none", "environment", "branch"} /\ r # None
  /\ MaxPointer \in Nat
BY PublicationAssumption, EventTypes

LEMMA PublicationsInitially == PublicationsInit => PublicationsInv
<1> SUFFICES ASSUME PublicationsInit PROVE PublicationsInv
  OBVIOUS
<1>1. NoBranch \in BranchRows
  BY PublicationTypes DEF NoBranch, BranchRows
<1> QED
  BY <1>1, FS_EmptySet DEF PublicationsInit, PublicationsInv, PublicationsType, NoBranch

LEMMA PublicationsStep ==
  ASSUME ServingInv, PublicationsInv, [PublicationsNext]_allVars
  PROVE  PublicationsInv'
<1>0. /\ checkpoint.current \in ServingEvents \cup {None}
      /\ \A e \in ServingEvents : e.change \in Nat /\ e # None
      /\ PublicationsType /\ \A p \in prepared : PreparedFor(p)
      /\ branch.version \in Nat
  BY EventTypes, PublicationTypes
  DEF ServingInv, TypeOK, Checkpoints, PublicationsInv, PublicationsType, BranchRows
<1>1. CASE UNCHANGED allVars
  BY <1>0, <1>1 DEF allVars, vars, publications, PublicationsInv, PublicationsType, PreparedFor
<1>2. CASE Next /\ UNCHANGED <<key, publications>>
  <2>1. Forward /\ checkpoint'.current \in ServingEvents \cup {None}
    BY <1>2, CheckpointCases, EvidenceStep, ServingStep DEF ServingInv, TypeOK, Checkpoints
  <2>2. UNCHANGED <<key, analysed, branch, prepared, current>>
    BY <1>2 DEF publications
  <2>3. PublicationsType'
    BY <1>0, <2>2 DEF PublicationsType
  <2>4. ASSUME NEW p \in prepared PROVE PreparedFor(p)'
    <3>1. PreparedFor(p)
      BY <1>0
    <3> QED
      BY <1>0, <2>1, <2>2, <3>1 DEF PreparedFor, Forward
  <2> QED
    BY <2>2, <2>3, <2>4 DEF PublicationsInv
<1>3. ASSUME NEW s \in Snapshots, Analyse(s) PROVE PublicationsInv'
  <2>1. IsFiniteSet(analysed')
    BY <1>0, <1>3, FS_AddElement DEF Analyse, PublicationsType
  <2>2. UNCHANGED <<key, branch, prepared, current, checkpoint>> /\ analysed \subseteq analysed'
    BY <1>3 DEF Analyse, vars
  <2> QED
    BY <1>0, <1>3, <2>1, <2>2 DEF Analyse, PublicationsInv, PublicationsType, PreparedFor
<1>4. CASE BranchMoves \/ BranchIsUncertain
  <2>1. /\ branch' \in BranchRows
        /\ branch'.version = branch.version /\ branch'.snapshot = branch.snapshot
        /\ UNCHANGED <<key, analysed, prepared, current, checkpoint>>
    BY <1>0, <1>4
    DEF BranchMoves, BranchIsUncertain, ChangeBranch, BranchRows, PublicationsType, vars
  <2> QED
    BY <1>0, <2>1 DEF PublicationsInv, PublicationsType, PreparedFor
<1>5. CASE promoteBranch
  <2>1. PICK s \in analysed :
          /\ branch.version < MaxPointer
          /\ ChangeBranch([branch EXCEPT !.snapshot = s, !.version = @ + 1])
    BY <1>5 DEF promoteBranch
  <2>2. branch.version + 1 \in 0 .. MaxPointer /\ s \in Snapshots \cup {None}
    BY <1>0, <2>1, PublicationTypes DEF PublicationsType
  <2>3. /\ branch' \in BranchRows /\ branch'.snapshot = s
        /\ branch'.version = branch.version + 1
    BY <1>0, <2>1, <2>2 DEF ChangeBranch, BranchRows, PublicationsType
  <2>4. UNCHANGED <<key, analysed, prepared, current, checkpoint>>
    BY <2>1 DEF ChangeBranch, vars
  <2>5. \A p \in prepared : p.pointer \in Nat
    BY <1>0, PublicationTypes DEF PublicationsType, PublicationRows
  <2> QED
    BY <1>0, <2>3, <2>4, <2>5 DEF PublicationsInv, PublicationsType, PreparedFor
<1>6. ASSUME NEW p, Prepare(p), p \in PublicationRows, PreparedFor(p) PROVE PublicationsInv'
  <2>1. /\ prepared' = prepared \cup {p}
        /\ UNCHANGED <<key, analysed, branch, current, checkpoint>>
    BY <1>6 DEF Prepare, vars
  <2>2. \A q \in prepared' : PreparedFor(q)
    BY <1>0, <1>6, <2>1
  <2> QED
    BY <1>0, <1>6, <2>1, <2>2 DEF PublicationsInv, PublicationsType, PreparedFor
<1>7. CASE prepareRevision
  <2>1. PICK s \in analysed :
          s.revision = key /\ Prepare([snapshot |-> s, event |-> None, pointer |-> 0])
    BY <1>7 DEF prepareRevision
  <2> DEFINE p == [snapshot |-> s, event |-> None, pointer |-> 0]
  <2>2. p \in PublicationRows
    BY <1>0, PublicationTypes DEF PublicationsType, PublicationRows
  <2>3. PreparedFor(p)
    BY <1>0, <1>7, <2>1, PublicationTypes DEF prepareRevision, PreparedFor
  <2> QED
    BY <1>6, <2>1, <2>2, <2>3
<1>8. CASE prepareBranch
  <2> DEFINE p == [snapshot |-> branch.snapshot, event |-> None, pointer |-> branch.version]
  <2>1. p \in PublicationRows /\ key = "branch" /\ Prepare(p)
    BY <1>0, <1>8 DEF prepareBranch, branchPointer, PublicationsType, BranchRows, PublicationRows
  <2>2. branch.snapshot \in analysed
    BY <1>0, <1>8 DEF prepareBranch, branchPointer, PublicationsType
  <2>3. PreparedFor(p)
    BY <1>0, <2>1, <2>2, PublicationTypes DEF PreparedFor
  <2> QED
    BY <1>6, <2>1, <2>3
<1>9. CASE prepareEnvironment
  <2>1. PICK s \in analysed :
          LET p == [snapshot |-> s, event |-> checkpoint.current, pointer |-> 0] IN
          Resolved(p) /\ Prepare(p)
    BY <1>9 DEF prepareEnvironment
  <2> DEFINE p == [snapshot |-> s, event |-> checkpoint.current, pointer |-> 0]
  <2>2. p \in PublicationRows
    BY <1>0, PublicationTypes DEF PublicationsType, PublicationRows
  <2>3. checkpoint.current # None
    BY <2>1 DEF Resolved, deployment, ObservationCurrent
  <2>4. PreparedFor(p)
    BY <1>0, <1>9, <2>1, <2>3, PublicationTypes DEF prepareEnvironment, PreparedFor
  <2> QED
    BY <1>6, <2>1, <2>2, <2>4
<1>10. ASSUME NEW p \in prepared, NEW expected, publish(p, expected) PROVE PublicationsInv'
  <2>1. current' = p /\ UNCHANGED <<key, analysed, branch, prepared, checkpoint>>
    BY <1>10 DEF publish, vars
  <2> QED
    BY <1>0, <2>1 DEF PublicationsInv, PublicationsType, PreparedFor
<1> QED
  BY <1>1, <1>2, <1>3, <1>4, <1>5, <1>7, <1>8, <1>9, <1>10 DEF PublicationsNext, PublicationStep

-----------------------------------------------------------------------------
(* One judgement of an environment's contract, and its three readers.      *)

Judged(e, s) ==
  /\ listed /\ checkpoint.exists /\ ~checkpoint.required
  /\ ObservationCurrent /\ checkpoint.current = e /\ e.complete
  /\ \E a \in Artifacts :
       ServingAt[e.change] = {a} /\ RevisionOf[a] = s.revision /\ binding[a] = s.revision
  /\ Candidates(s.revision) = {s}

LEMMA PinIsJudgement ==
  ASSUME NEW p, p.snapshot \in Snapshots
  PROVE  checkEnvironmentPin(p) <=> Judged(p.event, p.snapshot)
BY DEF checkEnvironmentPin, Judged, Candidates

(* What the inventory of a current observation is.                         *)
LEMMA InventoryIs ==
  ASSUME ServingInv, ObservationCurrent
  PROVE  /\ Inventory = ServingAt[checkpoint.current.change]
         /\ Inventory \subseteq Artifacts /\ IsFiniteSet(Inventory)
         /\ checkpoint.current \in ServingEvents /\ checkpoint.exists
         /\ checkpoint.current.complete \in BOOLEAN
<1>1. /\ checkpoint.current \in ServingEvents /\ checkpoint.exists
      /\ checkpoint.current.complete \in BOOLEAN /\ checkpoint.current.change \in Changes
  BY EventTypes DEF ServingInv, TypeOK, Checkpoints, CheckpointInv, ObservationCurrent, Changes
<1> QED
  BY <1>1, EventAssumption DEF Inventory

LEMMA ViewIsJudgement ==
  ASSUME ServingInv, NEW p, p.snapshot \in Snapshots
  PROVE  Resolved(p) <=> Judged(p.event, p.snapshot)
<1> DEFINE cur == checkpoint.current
           s == p.snapshot
<1>1. ASSUME Resolved(p) PROVE Judged(p.event, s)
  <2>1. ObservationCurrent /\ ~checkpoint.required /\ deployment = "deployed"
    BY <1>1 DEF Resolved, deployment, reconciliationRequired
  <2>2. Inventory # {} /\ cur.complete /\ Cardinality(Inventory) = 1
    BY <2>1 DEF deployment
  <2>3. PICK a : Inventory = {a}
    BY <2>1, <2>2, InventoryIs, FS_Singleton
  <2>4. a \in Artifacts /\ checkpoint.exists /\ ServingAt[cur.change] = {a}
    BY <2>1, <2>3, InventoryIs
  <2>5. Candidates(RevisionOf[a]) = {s}
    BY <1>1, <2>3 DEF Resolved
  <2>6. RevisionOf[a] = s.revision
    BY <2>5 DEF Candidates
  <2>7. binding[a] = RevisionOf[a]
    BY <1>1, <2>1, <2>3 DEF Resolved, contract, IsBound
  <2> QED
    BY <1>1, <2>1, <2>2, <2>4, <2>5, <2>6, <2>7 DEF Judged, Resolved
<1>2. ASSUME Judged(p.event, s) PROVE Resolved(p)
  <2>1. PICK a \in Artifacts :
          ServingAt[cur.change] = {a} /\ RevisionOf[a] = s.revision /\ binding[a] = s.revision
    BY <1>2 DEF Judged
  <2>2. Inventory = {a} /\ Cardinality(Inventory) = 1
    BY <1>2, <2>1, InventoryIs, FS_Singleton DEF Judged
  <2>3. ~reconciliationRequired /\ deployment = "deployed"
    BY <1>2, <2>2 DEF Judged, reconciliationRequired, deployment
  <2>4. Candidates(RevisionOf[a]) = {s} /\ Cardinality(Candidates(RevisionOf[a])) = 1
    BY <1>2, <2>1, FS_Singleton DEF Judged
  <2>5. IsBound(a)
    BY <2>1, PublicationTypes DEF IsBound
  <2>6. contract = "resolved"
    BY <2>2, <2>3, <2>4, <2>5 DEF contract
  <2> QED
    BY <1>2, <2>2, <2>3, <2>4, <2>6 DEF Judged, Resolved
<1> QED
  BY <1>1, <1>2

LEMMA ReaderIsJudgement ==
  ASSUME ServingInv, PublicationsInv, NEW s \in analysed
  PROVE  readEnvironment = resolved(s, checkpoint.current, 0) <=> Judged(checkpoint.current, s)
<1> DEFINE cur == checkpoint.current
           rows == UNION {Candidates(RevisionOf[a]) : a \in ServingAt[cur.change]}
<1>0. s \in Snapshots /\ IsFiniteSet(analysed)
  BY DEF PublicationsInv, PublicationsType
<1>1. \A status : status # "resolved" => State(status) # resolved(s, cur, 0)
  BY DEF State, resolved
<1>2. ASSUME NEW t, resolved(t, cur, 0) = resolved(s, cur, 0) PROVE t = s
  <2>1. [snapshot |-> t, event |-> cur, pointer |-> 0] = [snapshot |-> s, event |-> cur, pointer |-> 0]
    BY <1>2 DEF resolved
  <2> QED
    BY <2>1
<1>3. ASSUME readEnvironment = resolved(s, cur, 0) PROVE Judged(cur, s)
  <2>1. /\ listed /\ checkpoint.exists /\ ~checkpoint.required /\ ObservationCurrent
        /\ cur.complete /\ Cardinality(ServingAt[cur.change]) = 1
        /\ \A a \in ServingAt[cur.change] : IsBound(a)
        /\ rows # {} /\ ~(Cardinality(rows) > 1)
        /\ readEnvironment = resolved(CHOOSE t \in rows : TRUE, cur, 0)
    BY <1>1, <1>3 DEF readEnvironment
  <2>2. PICK a : ServingAt[cur.change] = {a}
    BY <2>1, InventoryIs, FS_Singleton
  <2>3. a \in Artifacts /\ rows = Candidates(RevisionOf[a])
    BY <2>1, <2>2, InventoryIs
  <2>4. rows \subseteq analysed
    BY <2>3 DEF Candidates
  <2>5. IsFiniteSet(rows) /\ Cardinality(rows) \in Nat /\ Cardinality(rows) # 0
    BY <1>0, <2>1, <2>4, FS_Subset, FS_CardinalityType, FS_EmptySet
  <2>6. Cardinality(rows) = 1
    BY <2>1, <2>5
  <2>7. PICK t : rows = {t}
    BY <2>5, <2>6, FS_Singleton
  <2>8. (CHOOSE u \in rows : TRUE) = s
    BY <1>2, <1>3, <2>1
  <2>9. rows = {s}
    BY <2>7, <2>8
  <2>10. RevisionOf[a] = s.revision
    BY <2>3, <2>9 DEF Candidates
  <2> QED
    BY <2>1, <2>2, <2>3, <2>9, <2>10 DEF Judged, IsBound
<1>4. ASSUME Judged(cur, s) PROVE readEnvironment = resolved(s, cur, 0)
  <2>1. PICK a \in Artifacts :
          ServingAt[cur.change] = {a} /\ RevisionOf[a] = s.revision /\ binding[a] = s.revision
    BY <1>4 DEF Judged
  <2>2. rows = {s} /\ Cardinality(rows) = 1 /\ Cardinality(ServingAt[cur.change]) = 1
    <3>1. Candidates(s.revision) = {s}
      BY <1>4 DEF Judged
    <3>2. rows = Candidates(RevisionOf[a])
      BY <2>1
    <3> QED
      BY <2>1, <3>1, <3>2, FS_Singleton
  <2>3. IsBound(a) /\ (CHOOSE t \in rows : TRUE) = s
    BY <1>0, <2>1, <2>2, PublicationTypes DEF IsBound
  <2> QED
    BY <1>4, <2>1, <2>2, <2>3 DEF Judged, readEnvironment
<1> QED
  BY <1>3, <1>4

-----------------------------------------------------------------------------
(* The theorems about Publications.                                        *)

(* What was ever prepared stays of a revision, a pointer or a serving      *)
(* event that the key had, and none of it is ahead of what the key has.    *)
THEOREM PublicationsInvariant == PublicationsSpec => [](ServingInv /\ PublicationsInv)
<1>1. ServingInv /\ PublicationsInv /\ [PublicationsNext]_allVars => PublicationsInv'
  BY PublicationsStep
<1> QED
  BY <1>1, PublicationsInitially, PublishingServes, ServingInvariant, PTL DEF PublicationsSpec

(* A document that readCurrent returns is of what the newest recorded      *)
(* observation of the active configuration says the environment serves, as *)
(* a deployment attempt bound it; of the revision the branch is known to   *)
(* be at; or of the revision asked for.                                    *)
THEOREM ReadHolds == PublicationsSpec => []ReadIsServing
<1>1. ASSUME ServingInv, PublicationsInv, readCurrent
      PROVE  CASE key = "environment" -> \E e \in ServingEvents : ServesDocument(e, current.snapshot)
               [] key = "branch" -> branch.desired = current.snapshot.revision /\ ~branch.uncertain
               [] OTHER -> current.snapshot.revision = key
  <2>1. current \in prepared /\ PreparedFor(current) /\ current.snapshot \in Snapshots
    BY <1>1 DEF readCurrent, PublicationsInv, PublicationsType, PublicationRows
  <2>2. CASE key = "environment"
    <3> DEFINE s == current.snapshot
               e == checkpoint.current
    <3>1. Judged(e, s)
      <4>1. checkEnvironmentPin(current)
        BY <1>1, <2>2 DEF readCurrent, PinHolds
      <4>2. Judged(current.event, s)
        BY <2>1, <4>1, PinIsJudgement
      <4> QED
        BY <4>2 DEF Judged
    <3>2. e \in ServingEvents
      BY <1>1, <3>1, InventoryIs DEF Judged
    <3>3. Observed(e)
      BY <1>1, <3>1 DEF ServingInv, CheckpointInv, Judged, ObservationCurrent, Observed
    <3>4. ingested[e] = epoch /\ Newest(e)
      BY <1>1, <3>1 DEF ServingInv, EvidenceInv, Judged, ObservationCurrent, Observed, Newest, Behind
    <3>5. PICK a \in Artifacts :
            ServingAt[e.change] = {a} /\ RevisionOf[a] = s.revision /\ binding[a] = s.revision
      BY <3>1 DEF Judged
    <3>6. [artifact |-> a, revision |-> s.revision] \in attempts
      BY <1>1, <2>1, <3>5, PublicationTypes DEF ServingInv, BindingInv
    <3>7. s.epoch = epoch /\ e.complete
      BY <3>1 DEF Judged, Candidates
    <3>8. ServesDocument(e, s)
      BY <3>3, <3>4, <3>5, <3>6, <3>7 DEF ServesDocument, Observed
    <3> QED
      BY <2>2, <3>2, <3>8
  <2>3. CASE key = "branch"
    <3>1. BranchPin(current)
      BY <1>1, <2>3 DEF readCurrent, PinHolds
    <3> QED
      BY <2>3, <3>1 DEF BranchPin, branchPointer
  <2>4. CASE key \notin {"environment", "branch"}
    <3>1. key \in Revisions
      BY <1>1, <2>1, <2>4 DEF PublicationsInv, PublicationsType, Keys, PreparedFor
    <3> QED
      BY <2>1, <2>4, <3>1 DEF PreparedFor
  <2> QED
    BY <2>2, <2>3, <2>4
<1>2. ServingInv /\ PublicationsInv => ReadIsServing
  BY <1>1 DEF ReadIsServing
<1> QED
  BY <1>2, PublicationsInvariant, PTL

(* A preparation that was overtaken is not published over a later one: the *)
(* current document of a branch or an environment never goes back.         *)
THEOREM PublishingMovesForward == PublicationsSpec => PublicationsMoveForward
<1>1. ASSUME ServingInv, PublicationsInv, [PublicationsNext]_allVars,
             current # None, current' # current
      PROVE  /\ key = "branch" => current.pointer < current'.pointer
             /\ key = "environment" => current.event.change <= current'.event.change
  <2>1. PICK p \in prepared : p # current /\ current' = p /\ PinHolds(p)
    <3>1. PICK p \in prepared, expected \in 0 .. MaxVersion : publish(p, expected)
      BY <1>1
      DEF PublicationsNext, PublicationStep, Analyse, BranchMoves, BranchIsUncertain,
          promoteBranch, ChangeBranch, prepareRevision, prepareBranch, prepareEnvironment,
          Prepare, publications, allVars
    <3> QED
      BY <3>1 DEF publish
  <2>2. current \in prepared /\ PreparedFor(current) /\ PreparedFor(p)
    BY <1>1 DEF PublicationsInv, PublicationsType
  <2>3. p \in PublicationRows /\ current \in PublicationRows
    BY <1>1, <2>2 DEF PublicationsInv, PublicationsType
  <2>4. CASE key = "branch"
    <3>1. p.snapshot = branch.snapshot /\ p.pointer = branch.version
      BY <2>1, <2>4 DEF PinHolds, BranchPin
    <3>2. p.event = None /\ current.event = None /\ current.pointer <= p.pointer
      BY <2>2, <2>4, <3>1 DEF PreparedFor
    <3>3. current.pointer # p.pointer
      <4> SUFFICES ASSUME current.pointer = p.pointer PROVE FALSE
        OBVIOUS
      <4>1. current.snapshot = p.snapshot
        BY <2>2, <2>4, <3>1 DEF PreparedFor
      <4> QED
        BY <2>1, <2>3, <3>2, <4>1 DEF PublicationRows
    <3>4. current.pointer \in Nat /\ p.pointer \in Nat
      BY <2>3, PublicationTypes DEF PublicationRows
    <3> QED
      BY <2>1, <2>4, <3>2, <3>3, <3>4
  <2>5. CASE key = "environment"
    <3>1. checkpoint.current = p.event
      BY <2>1, <2>5 DEF PinHolds, checkEnvironmentPin
    <3> QED
      BY <2>1, <2>2, <2>5, <3>1 DEF PreparedFor
  <2> QED
    BY <2>4, <2>5
<1>2. ServingInv /\ PublicationsInv /\ [PublicationsNext]_allVars =>
        [current # None /\ current' # current =>
           /\ key = "branch" => current.pointer < current'.pointer
           /\ key = "environment" => current.event.change <= current'.event.change]_allVars
  BY <1>1
<1> QED
  BY <1>2, PublicationsInvariant, PTL DEF PublicationsSpec, PublicationsMoveForward

(* The presented view, the publisher's pin and the query reader judge      *)
(* alike, and the reader shows the contract of every document readCurrent  *)
(* returns, unless another analysis of the revision came up.               *)
THEOREM ReadersHold == PublicationsSpec => []ReadersAgree
<1>1. ASSUME ServingInv, PublicationsInv, NEW p \in prepared
      PROVE  checkEnvironmentPin(p) <=> Resolved(p)
  <2>1. p.snapshot \in Snapshots
    BY <1>1 DEF PublicationsInv, PublicationsType, PublicationRows
  <2> QED
    BY <1>1, <2>1, PinIsJudgement, ViewIsJudgement
<1>2. ASSUME ServingInv, PublicationsInv, NEW s \in analysed
      PROVE  LET p == [snapshot |-> s, event |-> checkpoint.current, pointer |-> 0] IN
             Resolved(p) <=> (readEnvironment.status = "resolved" /\ readEnvironment.pin = p)
  <2> DEFINE p == [snapshot |-> s, event |-> checkpoint.current, pointer |-> 0]
  <2>1. p.snapshot \in Snapshots /\ p.snapshot = s /\ p.event = checkpoint.current
    BY <1>1, <1>2 DEF PublicationsInv, PublicationsType
  <2>2. Resolved(p) <=> readEnvironment = resolved(s, checkpoint.current, 0)
    BY <1>2, <2>1, ViewIsJudgement, ReaderIsJudgement
  <2>3. \E status, pin : readEnvironment = [status |-> status, pin |-> pin]
    BY DEF readEnvironment, State, resolved
  <2> QED
    BY <2>2, <2>3 DEF resolved
<1>3. ASSUME ServingInv, PublicationsInv, readCurrent
      PROVE  \/ readSelected = current
             \/ key \in Revisions /\ selectedContract.status = "ambiguous"
  <2>1. /\ current \in prepared /\ PreparedFor(current) /\ current \in PublicationRows
        /\ current.snapshot \in analysed /\ current.snapshot \in Snapshots
        /\ current = [snapshot |-> current.snapshot, event |-> current.event,
                      pointer |-> current.pointer]
    BY <1>3
    DEF readCurrent, PublicationsInv, PublicationsType, PublicationRows, PreparedFor
  <2>2. ASSUME selectedContract = resolved(current.snapshot, current.event, current.pointer)
        PROVE  readSelected = current
    BY <1>3, <2>1, <2>2 DEF readSelected, resolved
  <2>3. CASE key = "environment"
    <3>1. Judged(current.event, current.snapshot) /\ current.event = checkpoint.current
      BY <1>3, <2>1, <2>3, PinIsJudgement DEF readCurrent, PinHolds, checkEnvironmentPin
    <3>2. readEnvironment = resolved(current.snapshot, current.event, 0)
      BY <1>3, <2>1, <3>1, ReaderIsJudgement
    <3>3. selectedContract = readEnvironment
      BY <2>3, PublicationTypes DEF selectedContract
    <3>4. current.pointer = 0
      BY <2>1, <2>3 DEF PreparedFor
    <3>5. selectedContract = resolved(current.snapshot, current.event, current.pointer)
      BY <3>1, <3>2, <3>3, <3>4
    <3> QED
      BY <2>2, <3>5
  <2>4. CASE key = "branch"
    <3>1. BranchPin(current) /\ branch.snapshot # None
      BY <1>3, <2>4 DEF readCurrent, PinHolds, BranchPin, branchPointer
    <3>2. readBranch = resolved(current.snapshot, None, current.pointer)
      BY <3>1 DEF BranchPin, branchPointer, readBranch
    <3>3. selectedContract = readBranch
      BY <2>4, PublicationTypes DEF selectedContract
    <3>4. current.event = None
      BY <2>1, <2>4 DEF PreparedFor
    <3>5. selectedContract = resolved(current.snapshot, current.event, current.pointer)
      BY <3>2, <3>3, <3>4
    <3> QED
      BY <2>2, <3>5
  <2>5. CASE key \in Revisions
    <3> DEFINE rows == {s \in analysed : s.revision = key}
    <3>1. /\ current.snapshot \in rows /\ current.event = None /\ current.pointer = 0
          /\ selectedContract = readRevision
      BY <2>1, <2>5, PublicationTypes DEF PreparedFor, selectedContract
    <3>2. CASE Cardinality(rows) > 1
      BY <2>5, <3>1, <3>2 DEF readRevision, State
    <3>3. CASE ~(Cardinality(rows) > 1)
      <4>1. IsFiniteSet(rows) /\ Cardinality(rows) \in Nat /\ Cardinality(rows) # 0
        <5>1. IsFiniteSet(analysed) /\ rows \subseteq analysed
          BY <1>3 DEF PublicationsInv, PublicationsType
        <5> QED
          BY <3>1, <5>1, FS_Subset, FS_CardinalityType, FS_EmptySet
      <4>2. PICK t : rows = {t}
        <5>1. Cardinality(rows) = 1
          BY <3>3, <4>1
        <5> QED
          BY <4>1, <5>1, FS_Singleton
      <4>3. (CHOOSE s \in rows : TRUE) = current.snapshot
        BY <3>1, <4>2
      <4>4. readRevision = resolved(current.snapshot, None, 0)
        BY <3>1, <3>3, <4>3 DEF readRevision
      <4> QED
        BY <2>2, <3>1, <4>4
    <3> QED
      BY <3>2, <3>3
  <2>6. key # "none"
    BY <2>1 DEF PreparedFor
  <2> QED
    BY <1>3, <2>3, <2>4, <2>5, <2>6 DEF PublicationsInv, PublicationsType, Keys
<1>4. ServingInv /\ PublicationsInv => ReadersAgree
  BY <1>1, <1>2, <1>3 DEF ReadersAgree
<1> QED
  BY <1>4, PublicationsInvariant, PTL


(* readCurrent, the publisher's pin and the query reader show what is      *)
(* served, and agree on it.                                                *)
THEOREM ReadersServed == PublicationsSpec => []ReadersAreServed
BY ReadHolds, ReadersHold, PTL DEF ReadersAreServed

(* Neither the environment's checkpoint nor its current document goes back.*)
THEOREM NothingGoesBack == PublicationsSpec => NothingIsUndone
BY PublishingServes, ServingMovesForward, PublishingMovesForward, PTL DEF NothingIsUndone
=============================================================================
