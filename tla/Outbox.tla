-------------------------------- MODULE Outbox --------------------------------
(***************************************************************************)
(* The outbox of packages/orchestration: notices queued by the transaction *)
(* they tell of, each once by its identity, and handed to consumers under  *)
(* leases (worker.ts).  A lease's token is its attempt's number: it is     *)
(* drawn afresh with every attempt.  No lease is renewed.  When a notice   *)
(* that waits for its retry becomes due is left open: a claim takes any.   *)
(***************************************************************************)
EXTENDS Naturals, FiniteSets

CONSTANTS
  JobNotices,      \* identities of the notices that job changes queue
  Consumers,
  MaxDeliveries,   \* max_attempts, 8 in the code
  ClaimLimit       \* limit of one claim

ASSUME OutboxAssumption == MaxDeliveries \in Nat \ {0} /\ ClaimLimit \in Nat \ {0}

VARIABLES
  outbox,      \* orchestration_outbox, by the identity of the notice
  leases,      \* what each consumer was handed and has not answered
  acknowledged \* the attempt that was acknowledged, of each delivered notice

outboxVars == <<outbox, leases, acknowledged>>

Unheld == "nobody"
Notice(state, attempts, holder, live) ==
  [state |-> state, attempts |-> attempts, holder |-> holder, live |-> live]
Settled(m) == outbox[m].state \in {"delivered", "exhausted"}

(* INSERT ... ON CONFLICT (dedupe_key) DO NOTHING.                         *)
Queued(notices) ==
  [m \in DOMAIN outbox \cup notices |->
     IF m \in DOMAIN outbox THEN outbox[m] ELSE Notice("pending", 0, Unheld, FALSE)]
insertStateOutbox(m) ==
  /\ m \notin DOMAIN outbox
  /\ outbox' = Queued({m}) /\ UNCHANGED <<leases, acknowledged>>

-----------------------------------------------------------------------------
Available == {m \in DOMAIN outbox : outbox[m].state \in {"pending", "retry_wait"}}
Expired   == {m \in DOMAIN outbox : outbox[m].state = "leased" /\ ~outbox[m].live}

(* reduceOutboxState: retry or exhaust.                                    *)
Retried(row) ==
  Notice(IF row.attempts >= MaxDeliveries THEN "exhausted" ELSE "retry_wait", row.attempts, Unheld, FALSE)
Handed(row, c) == Notice("leased", row.attempts + 1, c, TRUE)

(* One pass takes what no other pass has locked: it ends the leases found  *)
(* expired, whatever the limit, and leases what was waiting before.        *)
claimOutbox(c, recovered, claimed) ==
  /\ recovered \subseteq Expired /\ claimed \subseteq Available
  /\ Cardinality(claimed) <= ClaimLimit /\ recovered \cup claimed # {}
  /\ outbox' = [m \in DOMAIN outbox |->
       CASE m \in recovered -> Retried(outbox[m])
         [] m \in claimed   -> Handed(outbox[m], c)
         [] OTHER           -> outbox[m]]
  /\ leases' = [leases EXCEPT ![c] = @ \cup
       {[notice |-> m, attempt |-> outbox[m].attempts + 1] : m \in claimed}]
  /\ UNCHANGED acknowledged

(* An answer counts under a live lease with its own token.                 *)
BugAnyToken(c, l) ==
  /\ outbox[l.notice].state = "leased" /\ outbox[l.notice].holder = c
  /\ outbox[l.notice].live
validateLiveOutboxLease(c, l) ==
  /\ outbox[l.notice].state = "leased" /\ outbox[l.notice].holder = c
  /\ outbox[l.notice].attempts = l.attempt /\ outbox[l.notice].live
GiveBack(c, l) == leases' = [leases EXCEPT ![c] = @ \ {l}]

acknowledgeOutbox(c, l) ==
  /\ validateLiveOutboxLease(c, l) /\ GiveBack(c, l)
  /\ outbox' = [outbox EXCEPT ![l.notice] = Notice("delivered", @.attempts, Unheld, FALSE)]
  /\ acknowledged' = [m \in DOMAIN acknowledged \cup {l.notice} |->
                    IF m = l.notice THEN l.attempt ELSE acknowledged[m]]
failOutbox(c, l) ==
  /\ validateLiveOutboxLease(c, l) /\ GiveBack(c, l)
  /\ outbox' = [outbox EXCEPT ![l.notice] = Retried(@)]
  /\ UNCHANGED acknowledged

(* A late answer is refused; a consumer that dies forgets what it holds.   *)
answerLate(c, l) ==
  /\ ~validateLiveOutboxLease(c, l) /\ GiveBack(c, l)
  /\ UNCHANGED <<outbox, acknowledged>>
Die(c) ==
  /\ leases[c] # {} /\ leases' = [leases EXCEPT ![c] = {}]
  /\ UNCHANGED <<outbox, acknowledged>>
ExpireLease(m) ==
  /\ outbox[m].live /\ outbox' = [outbox EXCEPT ![m].live = FALSE]
  /\ UNCHANGED <<leases, acknowledged>>

OutboxInit ==
  /\ outbox = <<>> /\ leases = [c \in Consumers |-> {}] /\ acknowledged = <<>>
ClaimSome(c) == \E recovered \in SUBSET Expired, claimed \in SUBSET Available :
               claimOutbox(c, recovered, claimed)
Deliver ==
  \/ \E c \in Consumers :
       \/ ClaimSome(c) \/ Die(c)
       \/ \E l \in leases[c] : acknowledgeOutbox(c, l) \/ failOutbox(c, l) \/ answerLate(c, l)
  \/ \E m \in DOMAIN outbox : ExpireLease(m)
OutboxNext == (\E m \in JobNotices : insertStateOutbox(m)) \/ Deliver

(* Some host keeps claiming, and the queue's order by availability passes  *)
(* nobody over for ever; time passes.  No consumer need ever answer.       *)
Taken(m) == \E c \in Consumers, recovered \in SUBSET Expired, claimed \in SUBSET Available :
              m \in recovered \cup claimed /\ claimOutbox(c, recovered, claimed)
OutboxFairness ==
  \A m \in JobNotices :
    /\ WF_outboxVars(m \in DOMAIN outbox /\ Taken(m))
    /\ WF_outboxVars(m \in DOMAIN outbox /\ ExpireLease(m))
OutboxSpec == OutboxInit /\ [][OutboxNext]_outboxVars /\ OutboxFairness

-----------------------------------------------------------------------------
(* A notice counts as delivered because the consumer it was last handed to *)
(* said so, not one that took too long, by itself or with a second lease;  *)
(* it is given up when it was handed out as often as may be, not sooner    *)
(* and not later; and nobody can answer for it any more.                   *)
DeliveriesAreTrue ==
  /\ DOMAIN acknowledged = {m \in DOMAIN outbox : outbox[m].state = "delivered"}
  /\ \A m \in DOMAIN outbox :
       /\ m \in DOMAIN acknowledged => acknowledged[m] = outbox[m].attempts
       /\ outbox[m].state = "exhausted" => outbox[m].attempts = MaxDeliveries
       /\ outbox[m].attempts <= MaxDeliveries
       /\ Settled(m) => \A c \in Consumers : \A l \in leases[c] :
            l.notice = m => ~validateLiveOutboxLease(c, l)

(* A notice once settled stays as it is, though it be queued again or      *)
(* answered late; and every notice is settled in the end, even when each   *)
(* consumer dies with it (worker.ts, claimOutbox).                         *)
NoticesAreSettled ==
  /\ [][DeliveriesAreTrue' /\ \A m \in DOMAIN outbox : Settled(m) => outbox'[m] = outbox[m]]_outboxVars
  /\ \A m \in JobNotices : (m \in DOMAIN outbox) ~> (m \in DOMAIN outbox /\ Settled(m))
=============================================================================
