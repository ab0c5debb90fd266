------------------------- MODULE SemanticInference --------------------------
(***************************************************************************)
(* Asking a language model about selected endpoints of a served contract,  *)
(* the private history of the answers and their owner's reviews.  A call   *)
(* reads what the caller may see, asks the provider outside of any         *)
(* transaction, and authorizes again in the transaction that records the   *)
(* answer.  Only selections of an environment are modelled; prose, tenants *)
(* and hashes are left out, a claim says whether all its evidence is of    *)
(* its snapshot and endpoint.                                              *)
(***************************************************************************)
EXTENDS Naturals, Sequences, FiniteSets

CONSTANTS
  Principals, Services,
  Inference,       \* the provider each configuration enables, or NoProvider
  NoProvider,
  Contracts,       \* [config, endpoints, matching, claims]; a claim [of, kind, evidence, scoped]
  Outputs,         \* what a provider may answer: [status, cites]
  Selections,      \* sets of endpoints a caller may select
  MaxServed,       \* bound: versions of a serving checkpoint
  MaxContextChanges, \* bound: changes of configuration and grants
  MaxCalls,        \* bound: calls under way
  MaxHistory,      \* bound: rows of the history
  MaxReviews       \* bound: reviews of one row

VARIABLES
  served,          \* the checkpoint and snapshot of each service
  activeConfig,    \* the active configuration
  readers, owners, \* who may read a service, who may review its history
  contextChanges,
  calls,           \* between the two transactions
  answers,         \* semantic_inference_history
  reviews,         \* semantic_history_reviews
  receipts         \* the receipts clients were given

worldVars == <<served, activeConfig, readers, owners, contextChanges>>
archiveVars == <<answers, reviews, receipts>>

InferenceInit ==
  /\ served \in [Services -> {[version |-> 1, snapshot |-> x] : x \in Contracts}]
  /\ activeConfig = 1 /\ contextChanges = 0
  /\ readers = Principals \X Services /\ owners = Principals \X Services
  /\ calls = {} /\ answers = <<>> /\ reviews = {} /\ receipts = {}

-----------------------------------------------------------------------------
(* What a snapshot says that a provider may be shown.                      *)
ClaimsOf(x, e, kinds) == {k \in x.claims : k.of = e /\ k.kind \in kinds}
Documents(x, e) ==
  {k \in ClaimsOf(x, e, {"description", "operation_id"}) : k.scoped}
Described(x, e) == \E k \in Documents(x, e) : k.kind # "operation_id"

(* The one route of the endpoint and its one handler, if they are cited.   *)
TheOne(x, e, kind) ==
  {k \in ClaimsOf(x, e, {kind}) : k.scoped /\ Cardinality(ClaimsOf(x, e, {kind})) = 1}
SourceClaims(x, e) ==
  IF TheOne(x, e, "route") = {} THEN {} ELSE TheOne(x, e, "route") \cup TheOne(x, e, "handler")

(* projection, sourceProjection and their merge: the evidence a suggestion *)
(* about an endpoint may cite.                                             *)
Eligible(x, e, discovery) ==
  UNION {k.evidence : k \in
    (IF Described(x, e) THEN Documents(x, e) ELSE {})
      \cup (IF discovery THEN SourceClaims(x, e) ELSE {})}
Analyzed(x, ids, discovery) == {e \in ids \cap x.endpoints : Eligible(x, e, discovery) # {}}


validateOutput(o, x, ids, discovery) ==
  LET analyzed == Analyzed(x, ids, discovery)
  IN  CASE o.status = "suggestions" ->
             /\ o.cites # {}
             /\ \A c \in o.cites :
                  /\ c.endpoint \in analyzed /\ c.evidence # {}
                  /\ c.evidence \subseteq Eligible(x, c.endpoint, discovery)
             /\ \A c, d \in o.cites : c.endpoint = d.endpoint => c = d
        [] o.status = "ambiguous" ->
             /\ Cardinality(o.cites) >= 2
             /\ \A c \in o.cites : c.endpoint \in analyzed /\ c.evidence = {}
        [] o.status = "no_match" -> o.cites = {}
        [] OTHER -> FALSE

-----------------------------------------------------------------------------
(* readAuthorized: the exact checkpoint, the active configuration, the         *)
(* grants.                                                                 *)
PinOf(s) == [service |-> s, version |-> served[s].version, snapshot |-> served[s].snapshot]
CurrentPin(pin) == pin = PinOf(pin.service) /\ pin.snapshot.config = activeConfig
readAuthorized(p, pin, ids) ==
  /\ CurrentPin(pin) /\ ids \subseteq pin.snapshot.endpoints /\ <<p, pin.service>> \in readers
Enabled == Inference[activeConfig] # NoProvider

Call(p, pin, ids, discovery) ==
  [caller |-> p, pin |-> pin, ids |-> ids, discovery |-> discovery,
   provider |-> Inference[activeConfig]]
NeedsProvider(call) == Enabled /\ Analyzed(call.pin.snapshot, call.ids, call.discovery) # {}

(* The first transaction; without a provider or a context nothing follows. *)
run(call) ==
  /\ Cardinality(calls) < MaxCalls /\ call \notin calls
  /\ readAuthorized(call.caller, call.pin, call.ids) /\ NeedsProvider(call)
  /\ calls' = calls \cup {call}
  /\ UNCHANGED <<worldVars, archiveVars>>

projectSemanticHistory(call, o) ==
  [caller |-> call.caller, pin |-> call.pin, provider |-> call.provider, requested |-> call.ids,
   discovery |-> call.discovery, status |-> o.status, cites |-> o.cites,
   omitted |-> call.ids \ Analyzed(call.pin.snapshot, call.ids, call.discovery)]

(* The answer of the provider and the second transaction.                  *)
appendSemanticHistory(call, o) ==
  /\ validateOutput(o, call.pin.snapshot, call.ids, call.discovery)
  /\ readAuthorized(call.caller, call.pin, call.ids) /\ Inference[activeConfig] = call.provider
  /\ Len(answers) < MaxHistory
  /\ answers' = Append(answers, projectSemanticHistory(call, o))
  /\ calls' = calls \ {call}
  /\ UNCHANGED <<worldVars, reviews, receipts>>

(* A provider that failed, an output refused, a context gone stale.        *)
discard(call) == calls' = calls \ {call} /\ UNCHANGED <<worldVars, archiveVars>>

-----------------------------------------------------------------------------
(* The history and its reviews, read and written under today's context.    *)
ReadableHistory(p, s, ids) ==
  {h \in DOMAIN answers :
     /\ answers[h].caller = p /\ answers[h].pin = PinOf(s)
     /\ answers[h].provider = Inference[activeConfig] /\ answers[h].requested \subseteq ids}
MayReview(p, s, ids, h) ==
  /\ readAuthorized(p, PinOf(s), ids) /\ Enabled
  /\ <<p, s>> \in owners /\ h \in ReadableHistory(p, s, ids)

ReviewsOf(h) == {r \in reviews : r.row = h}
Latest(h) == Cardinality(ReviewsOf(h))

(* A receipt that is there is given again; another decision is a conflict. *)
recordSemanticHistoryReview(p, s, ids, h, decision, expected) ==
  /\ MayReview(p, s, ids, h) /\ expected < MaxReviews
  /\ LET review == [row |-> h, version |-> expected + 1, decision |-> decision, by |-> p]
         previous == {r \in ReviewsOf(h) : r.version = expected + 1}
     IN  /\ IF previous # {} THEN review \in previous /\ UNCHANGED reviews
            ELSE expected = Latest(h) /\ reviews' = reviews \cup {review}
         /\ receipts' = receipts \cup {review}
  /\ UNCHANGED <<worldVars, calls, answers>>

-----------------------------------------------------------------------------
(* The world around it.                                                    *)
ServeContract(s) ==
  /\ served[s].version < MaxServed
  /\ \E x \in Contracts :
       served' = [served EXCEPT ![s] = [version |-> @.version + 1, snapshot |-> x]]
  /\ UNCHANGED <<activeConfig, readers, owners, contextChanges, calls, archiveVars>>
Change ==
  /\ contextChanges < MaxContextChanges /\ contextChanges' = contextChanges + 1
  /\ \/ activeConfig' \in DOMAIN Inference \ {activeConfig} /\ UNCHANGED <<readers, owners>>
     \/ \E g \in Principals \X Services :
          /\ readers' = IF g \in readers THEN readers \ {g} ELSE readers \cup {g}
          /\ UNCHANGED <<activeConfig, owners>>
     \/ \E g \in owners : owners' = owners \ {g} /\ UNCHANGED <<activeConfig, readers>>
  /\ UNCHANGED <<served, calls, archiveVars>>

-----------------------------------------------------------------------------
(* A recorded answer cites endpoints it was asked about and evidence they  *)
(* have in the very snapshot, and says which endpoints no one looked at,   *)
(* whatever was served, configured or revoked while the provider thought.  *)
HistoryIsGrounded ==
  \A h \in DOMAIN answers :
    LET row == answers[h]
    IN  /\ row.pin.snapshot \in Contracts /\ row.provider = Inference[row.pin.snapshot.config]
        /\ \A c \in row.cites :
             /\ c.endpoint \in row.requested \ row.omitted
             /\ \A v \in c.evidence : \E k \in row.pin.snapshot.claims :
                  k.of = c.endpoint /\ k.scoped /\ v \in k.evidence
        /\ row.omitted \subseteq row.requested /\ row.omitted # row.requested

(* The reviews of a row are one chain of its owner's decisions, and every  *)
(* receipt ever given still tells what is stored.                          *)
ReviewsAreAChain ==
  /\ \A h \in DOMAIN answers :
       {r.version : r \in ReviewsOf(h)} = 1..Cardinality(ReviewsOf(h))
  /\ \A r \in reviews : r.row \in DOMAIN answers /\ r.by = answers[r.row].caller
  /\ receipts \subseteq reviews
=============================================================================
