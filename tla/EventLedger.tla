------------------------------ MODULE EventLedger ------------------------------
(***************************************************************************)
(* What a tenant's orchestrator has been told (repository.ts): registered  *)
(* configurations, the one in force, the events ingested with what became  *)
(* of them, and the notices all of it queues.  Every operation is one      *)
(* transaction under the tenant's configuration lock, which rereads what   *)
(* it discovered before.  What an event about branches or pull requests    *)
(* schedules is another module's: here each service gets some disposition. *)
(* A caller without the grants changes nothing and is no step.             *)
(*                                                                         *)
(* An order is a sequence number, or 0 for one that cannot be compared.    *)
(***************************************************************************)
EXTENDS Outbox, Sequences

CONSTANTS
  Registrations,     \* configurations to register: fingerprint and services
  Events,            \* events producers send, each perhaps several times
  Dispositions,      \* of an event that is not about the configuration
  Administrators,
  AdminEvidence,     \* provider and order an administrator activates with
  MaxActivations,    \* bound on the activations
  MaxRedelivered     \* bound on the events delivered a second time

(* An event has a provider and touches somebody; an order is a number.     *)
ASSUME EventsAreWhole == \A e \in Events : e.provider # "none" /\ e.services # {}
ASSUME OrdersAreNumbers == \A e \in Events \cup AdminEvidence : e.order \in Nat

NoActivation == [by |-> "none", fingerprint |-> "none", services |-> {},
                 provider |-> "none", order |-> 0, event |-> "none", expected |-> 0]
Fingerprints == {r.fingerprint : r \in Registrations}
EventIds == {e.id : e \in Events}

VARIABLES
  registered,     \* orchestration_configurations: the services of each, or "none"
  inForce,         \* the row of orchestration_active_configurations
  events,         \* orchestration_events with their targets, by identifier
  deliveries,     \* orchestration_event_deliveries, counted
  saw,            \* the version each administrator read last, 0 for none
  activations     \* every activation so far, in order

ledgerVars == <<registered, inForce, events, deliveries, saw, activations, outboxVars>>

ServicesOf(f) == registered[f].services
IsRegistered(f) == f \in Fingerprints /\ ServicesOf(f) # {}

(* calculateConfigurationImpact: another fingerprint affects every service *)
(* of both documents; a registered fingerprint has one document.           *)
Impact(f, g) == IF f = g THEN {} ELSE ServicesOf(f) \cup ServicesOf(g)

(* classifyProviderUpdate: two events with one payload are one event here. *)
BugAnyOrder(current, e) ==
  IF current.provider = "none" THEN IF e.order > 0 THEN "first" ELSE "incomparable"
  ELSE IF current.provider # e.provider \/ current.order = 0 \/ e.order = 0 THEN "incomparable"
  ELSE IF e.order = current.order THEN "conflict" ELSE "newer"
classify(current, e) ==
  CASE current.provider = "none" -> IF e.order > 0 THEN "first" ELSE "incomparable"
    [] current.provider \notin {"none", e.provider} -> "incomparable"
    [] current.provider = e.provider /\ (current.order = 0 \/ e.order = 0) ->
         IF current.event = e.id THEN "exact_replay" ELSE "incomparable"
    [] OTHER -> IF e.order < current.order THEN "stale"
                ELSE IF e.order > current.order THEN "newer"
                ELSE IF current.event = e.id THEN "exact_replay" ELSE "conflict"
DispositionOf(class) ==
  CASE class = "stale"        -> "ignored_stale"
    [] class = "incomparable" -> "reconciliation_required"
    [] class = "exact_replay" -> "no_work"
    [] OTHER                  -> "scheduled"

Disposed(e, t)   == [kind |-> "event.disposition", event |-> e.id, service |-> t.service,
                     disposition |-> t.disposition]
Activated(f, s)  == [kind |-> "configuration.activated", fingerprint |-> f, service |-> s]
(* insertActivationOutboxes: by fingerprint, whichever activation it is.   *)
Announced(f, services) == {Activated(f, s) : s \in services}

PutInForce(by, f, evidence, event, expected, affected) ==
  /\ Len(activations) < MaxActivations
  /\ inForce' = [by |-> by, fingerprint |-> f, services |-> affected,
                provider |-> evidence.provider, order |-> evidence.order, event |-> event,
                expected |-> expected]
  /\ activations' = Append(activations, inForce')

-----------------------------------------------------------------------------
(* A fingerprint keeps its first document; another one is refused.         *)
registerConfiguration(r) ==
  /\ registered' = [registered EXCEPT ![r.fingerprint].services = IF @ = {} THEN r.services ELSE @]
  /\ UNCHANGED <<inForce, events, deliveries, saw, activations, outboxVars>>

activateInitialConfiguration(f) ==
  /\ inForce = NoActivation /\ IsRegistered(f)
  /\ PutInForce("initial", f, NoActivation, "none", 0, ServicesOf(f))
  /\ UNCHANGED <<registered, events, deliveries, saw, outboxVars>>

(* An administrator reads the summary, decides, and names the version.     *)
getActiveConfigurationSummary(a) ==
  /\ inForce # NoActivation /\ saw[a] # Len(activations)
  /\ saw' = [saw EXCEPT ![a] = Len(activations)]
  /\ UNCHANGED <<registered, inForce, events, deliveries, activations, outboxVars>>
VersionIsCurrent(version) == version > 0 /\ version = Len(activations)
activateConfigurationByCas(a, f, evidence) ==
  /\ VersionIsCurrent(saw[a]) /\ IsRegistered(f) /\ f # inForce.fingerprint
  /\ LET affected == Impact(inForce.fingerprint, f) IN
     /\ PutInForce("cas", f, evidence, "none", saw[a], affected)
     /\ outbox' = Queued(Announced(f, affected))
  /\ UNCHANGED <<registered, events, deliveries, saw, leases, acknowledged>>

-----------------------------------------------------------------------------
(* ingestEvent.  An event is stored once, with what became of it for each  *)
(* of its services, and delivered as often as it comes; what was stored is *)
(* never looked at again except to answer.                                 *)
Record(e, targets) ==
  /\ events' = [events EXCEPT ![e.id] = [content |-> e, under |-> inForce.fingerprint,
                                         targets |-> targets]]
  /\ deliveries' = [deliveries EXCEPT ![e.id] = 1]
NotSeen(e) == events[e.id].targets = {}

redeliver(e) ==
  /\ ~NotSeen(e) /\ events[e.id].content = e /\ deliveries[e.id] = 1
  /\ Cardinality({i \in EventIds : deliveries[i] > 1}) < MaxRedelivered
  /\ deliveries' = [deliveries EXCEPT ![e.id] = @ + 1]
  /\ UNCHANGED <<registered, inForce, events, saw, activations, outboxVars>>

authorizeNormalizedEvent(e) ==
  /\ inForce # NoActivation
  /\ IF e.type = "configuration.changed"
     THEN IsRegistered(e.fingerprint) /\ e.services = Impact(inForce.fingerprint, e.fingerprint)
     ELSE e.services \subseteq ServicesOf(inForce.fingerprint)

ingestConfiguration(e) ==
  /\ e.type = "configuration.changed" /\ NotSeen(e) /\ authorizeNormalizedEvent(e)
  /\ LET class   == classify(inForce, e)
         targets == {[service |-> s, disposition |-> DispositionOf(class)] : s \in e.services}
     IN  /\ class # "conflict"
         /\ Record(e, targets)
         /\ outbox' = Queued({Disposed(e, t) : t \in targets} \cup
              IF DispositionOf(class) = "scheduled" THEN Announced(e.fingerprint, e.services) ELSE {})
         /\ IF DispositionOf(class) = "scheduled"
            THEN PutInForce("event", e.fingerprint, e, e.id, 0, e.services)
            ELSE UNCHANGED <<inForce, activations>>
  /\ UNCHANGED <<registered, saw, leases, acknowledged>>
ingestWork(e) ==
  /\ e.type # "configuration.changed" /\ NotSeen(e) /\ authorizeNormalizedEvent(e)
  /\ \E of \in [e.services -> Dispositions] :
       LET targets == {[service |-> s, disposition |-> of[s]] : s \in e.services} IN
       Record(e, targets) /\ outbox' = Queued({Disposed(e, t) : t \in targets})
  /\ UNCHANGED <<registered, inForce, saw, activations, leases, acknowledged>>

LedgerInit ==
  /\ registered = [f \in Fingerprints |-> [services |-> {}]]
  /\ inForce = NoActivation /\ activations = <<>>
  /\ events = [i \in EventIds |-> [content |-> [id |-> "none"], under |-> "none", targets |-> {}]]
  /\ deliveries = [i \in EventIds |-> 0] /\ saw = [a \in Administrators |-> 0]
  /\ OutboxInit
LedgerNext ==
  \/ \E r \in Registrations : registerConfiguration(r) \/ activateInitialConfiguration(r.fingerprint)
  \/ \E a \in Administrators :
       \/ getActiveConfigurationSummary(a)
       \/ \E f \in Fingerprints, evidence \in AdminEvidence : activateConfigurationByCas(a, f, evidence)
  \/ \E e \in Events : redeliver(e) \/ ingestConfiguration(e) \/ ingestWork(e)
LedgerSpec == LedgerInit /\ [][LedgerNext]_ledgerVars

(* With the consumers of its notices at work between its transactions.     *)
DeliveredLedgerNext ==
  \/ LedgerNext
  \/ Deliver /\ UNCHANGED <<registered, inForce, events, deliveries, saw, activations>>
DeliveredLedgerSpec == LedgerInit /\ [][DeliveredLedgerNext]_ledgerVars

-----------------------------------------------------------------------------
ByEvent(k) == activations[k].by = "event"

(* Of activations by one provider's events with no administrator between   *)
(* them, each is newer than those before, however the events were delayed, *)
(* repeated and mixed with another provider's; no event activates twice,   *)
(* and those that say scheduled are those that did.  Each activation by an *)
(* administrator replaced the one this administrator had read.  What is    *)
(* queued tells of every stored event what became of it, and nothing else, *)
(* and of every service an activation touched; and an activation touched   *)
(* exactly the services of the documents on its both sides.                *)
LedgerIsKept ==
  /\ activations # <<>> => inForce = activations[Len(activations)]
  /\ \A i, j \in DOMAIN activations :
       i < j /\ ByEvent(i) /\ ByEvent(j) =>
         /\ activations[i].event # activations[j].event
         /\ (\A k \in i..j : ByEvent(k)) =>
              /\ activations[i].provider = activations[j].provider
              /\ activations[i].order < activations[j].order
  /\ \A e \in {events[i] : i \in EventIds} :
       e.targets # {} /\ e.content.type = "configuration.changed" =>
         ((\E t \in e.targets : t.disposition = "scheduled") <=>
          \E k \in DOMAIN activations : ByEvent(k) /\ activations[k].event = e.content.id)
  /\ {m \in DOMAIN outbox : m.kind = "event.disposition"} =
       UNION {{Disposed(events[i].content, t) : t \in events[i].targets} : i \in EventIds}
  /\ \A k \in DOMAIN activations \ {1} :
       /\ Announced(activations[k].fingerprint, activations[k].services) \subseteq DOMAIN outbox
       /\ activations[k].services =
            ServicesOf(activations[k - 1].fingerprint) \cup ServicesOf(activations[k].fingerprint)
       /\ activations[k].by = "cas" => activations[k].expected = k - 1
=============================================================================
