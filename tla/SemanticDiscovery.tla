------------------------- MODULE SemanticDiscovery --------------------------
(***************************************************************************)
(* Two answers about all the services a caller may see, each put together  *)
(* from many transactions: discoverAcrossServices asks the provider once   *)
(* per service of a shortlist and repeats the shortlist at the end;        *)
(* retrieve ranks the eligible texts of every service by their vectors,    *)
(* which it caches, and scans everything again before it answers.  At most *)
(* one of each is under way, beside other calls.                           *)
(***************************************************************************)
EXTENDS SemanticInference, Functions

CONSTANTS
  MaxAsked,        \* bound: rows of the history when a caller asks on his own
  Seekers,         \* bound: principals that ask about all services
  MaxGroups,       \* groups.length > 4
  CacheEntries,    \* capacity
  MaxClears        \* bound: calls of clearCache

ASSUME DiscoveryAssumption ==
  /\ CacheEntries \in Nat /\ IsFiniteSet(Services)
  /\ \A x \in Contracts : IsFiniteSet(x.endpoints)

VARIABLES
  discovery,       \* discoverAcrossServices under way, or Idle
  retrieval,       \* retrieve under way, or Idle
  cache,           \* vectors in the order they were put in
  generation,      \* cacheGeneration
  answered         \* the last answer

Idle == [phase |-> "idle"]
discoveryVars == <<discovery, retrieval, cache, generation, answered>>
semanticVars == <<worldVars, calls, archiveVars, discoveryVars>>
DiscoveryInit ==
  /\ InferenceInit
  /\ discovery = Idle /\ retrieval = Idle /\ cache = <<>> /\ generation = 0 /\ answered = Idle

-----------------------------------------------------------------------------
(* discoverAcrossServices.  The shortlist names the endpoints whose words  *)
(* match the question, by service.                                         *)
VisibleTo(p) == {s \in Services : <<p, s>> \in readers /\ CurrentPin(PinOf(s))}
Shortlist(p) ==
  {[pin |-> PinOf(s), ids |-> served[s].snapshot.matching] :
     s \in {t \in VisibleTo(p) : served[t].snapshot.matching # {}}}

searchFirst(p) ==
  /\ discovery = Idle /\ Shortlist(p) # {} /\ Cardinality(Shortlist(p)) <= MaxGroups
  /\ discovery' = [phase |-> "asking", caller |-> p, shortlist |-> Shortlist(p),
                   left |-> Shortlist(p), results |-> {}, waiting |-> {}]
  /\ UNCHANGED <<worldVars, calls, archiveVars, retrieval, cache, generation, answered>>

(* Nothing waits for the answer about the group asked last.                *)
BugNotWaiting == discovery.phase = "asking"
Asking == discovery.phase = "asking" /\ discovery.waiting = {}
GroupCall(group) == Call(discovery.caller, group.pin, group.ids, TRUE)

(* The contract is read for the group's checkpoint and discover begins.    *)
askGroup(group) ==
  /\ Asking /\ group \in discovery.left
  /\ run(GroupCall(group))
  /\ discovery' = [discovery EXCEPT !.waiting = {GroupCall(group)}, !.left = @ \ {group}]
  /\ UNCHANGED <<retrieval, cache, generation, answered>>

(* disabled, or no context: an answer without the provider.                *)
skipGroup(group) ==
  /\ Asking /\ group \in discovery.left
  /\ readAuthorized(discovery.caller, group.pin, group.ids) /\ ~NeedsProvider(GroupCall(group))
  /\ discovery' = [discovery EXCEPT !.left = @ \ {group},
       !.results = @ \cup {[pin |-> group.pin, ids |-> group.ids, status |-> "no_context", cites |-> {}]}]
  /\ UNCHANGED <<worldVars, calls, archiveVars, retrieval, cache, generation, answered>>

(* A call ends; if the discovery waits for it, it goes on with its answer. *)
answerCall(call, o) ==
  /\ appendSemanticHistory(call, o)
  /\ discovery' =
       IF discovery.phase = "asking" /\ call \in discovery.waiting
       THEN [discovery EXCEPT !.waiting = {}, !.results = @ \cup
              {[pin |-> call.pin, ids |-> call.ids, status |-> o.status, cites |-> o.cites]}]
       ELSE discovery
  /\ UNCHANGED <<retrieval, cache, generation, answered>>
discardCall(call) ==
  /\ discard(call)
  /\ discovery' = IF discovery.phase = "asking" /\ call \in discovery.waiting
                  THEN Idle ELSE discovery
  /\ UNCHANGED <<retrieval, cache, generation, answered>>

searchAgain ==
  /\ Asking /\ discovery.left = {}
  /\ Shortlist(discovery.caller) = discovery.shortlist
  /\ answered' = [phase |-> "groups", caller |-> discovery.caller, groups |-> discovery.results,
               shortlist |-> Shortlist(discovery.caller)]        \* history
  /\ discovery' = Idle
  /\ UNCHANGED <<worldVars, calls, archiveVars, retrieval, cache, generation>>

(* Stale, failed or past the deadline; a call under way goes on alone.     *)
abandonDiscovery ==
  /\ discovery # Idle /\ discovery' = Idle
  /\ UNCHANGED <<worldVars, calls, archiveVars, retrieval, cache, generation, answered>>

-----------------------------------------------------------------------------
(* retrieve.  A scan lists the services with their pins, then reads their  *)
(* contracts and eligible texts one by one.                                *)
Listed(p) == {PinOf(s) : s \in VisibleTo(p)}
AllCurrent(p) == \A s \in Services : <<p, s>> \in readers => CurrentPin(PinOf(s))
TextOf(p, pin, e) ==
  [caller |-> p, pin |-> pin, endpoint |-> e, text |-> Eligible(pin.snapshot, e, TRUE)]
Texts(p, pin) ==
  {TextOf(p, pin, e) : e \in Analyzed(pin.snapshot, pin.snapshot.endpoints, TRUE)}
Scan(p) == [left |-> Listed(p), texts |-> {}, complete |-> AllCurrent(p)]

beginRetrieval(p) ==
  /\ retrieval = Idle
  /\ retrieval' = [phase |-> "scanning", caller |-> p, scan |-> Scan(p), first |-> Scan(p),
                   vectors |-> {}, began |-> generation]
  /\ UNCHANGED <<worldVars, calls, archiveVars, discovery, cache, generation, answered>>

Scanning == retrieval.phase \in {"scanning", "confirming"}

(* The contract must still be served at the pin that was listed; where the *)
(* texts are withheld the service is left out.                             *)
scanService(pin) ==
  /\ Scanning /\ pin \in retrieval.scan.left
  /\ CurrentPin(pin) /\ <<retrieval.caller, pin.service>> \in readers
  /\ retrieval' = [retrieval EXCEPT !.scan =
       [left |-> @.left \ {pin},
        texts |-> IF Enabled THEN @.texts \cup Texts(retrieval.caller, pin) ELSE @.texts,
        complete |-> /\ @.complete /\ Enabled
                     /\ Analyzed(pin.snapshot, pin.snapshot.endpoints, TRUE) = pin.snapshot.endpoints]]
  /\ UNCHANGED <<worldVars, calls, archiveVars, discovery, cache, generation, answered>>

Embedding(text) == <<"vector of", text>>
CachedFor(key) == {c \in Range(cache) : c.key = key}

(* The texts without a vector are embedded outside of everything; then all *)
(* is listed and read again.                                               *)
embedMissing ==
  /\ retrieval.phase = "scanning" /\ retrieval.scan.left = {}
  /\ retrieval' = [retrieval EXCEPT !.phase = "confirming", !.first = retrieval.scan,
       !.scan = Scan(retrieval.caller),
       !.vectors = {[key |-> k, new |-> CachedFor(k) = {},
                     vector |-> IF CachedFor(k) = {} THEN Embedding(k.text)
                                ELSE (CHOOSE c \in CachedFor(k) : TRUE).vector] :
                      k \in retrieval.scan.texts}]
  /\ UNCHANGED <<worldVars, calls, archiveVars, discovery, cache, generation, answered>>

(* What was embedded is put after what the cache holds, and the oldest     *)
(* make room; what a clearCache overtook stays out.  None of it is in the  *)
(* cache yet: no other retrieval is under way.                             *)
Orders(S) == {order \in [1..Cardinality(S) -> S] : IsInjective(order)}
CacheRows(order) ==
  [i \in DOMAIN order |-> [key |-> order[i].key, vector |-> order[i].vector,
                          since |-> retrieval.began]]
KeepNewest(entries) ==
  IF Len(entries) <= CacheEntries THEN entries
  ELSE [i \in 1..CacheEntries |-> entries[i + (Len(entries) - CacheEntries)]]
Uncleared == retrieval.began = generation
rank ==
  /\ retrieval.phase = "confirming" /\ retrieval.scan = retrieval.first
  /\ IF Uncleared
     THEN \E order \in Orders({v \in retrieval.vectors : v.new}) :
            cache' = KeepNewest(cache \o CacheRows(order))
     ELSE UNCHANGED cache
  /\ answered' = [phase |-> "candidates", caller |-> retrieval.caller,
               complete |-> retrieval.first.complete, ranked |-> retrieval.vectors]
  /\ retrieval' = Idle
  /\ UNCHANGED <<worldVars, calls, archiveVars, discovery, generation>>

abandonRetrieval ==
  /\ retrieval # Idle /\ retrieval' = Idle
  /\ UNCHANGED <<worldVars, calls, archiveVars, discovery, cache, generation, answered>>
clearCache ==
  /\ generation < MaxClears /\ generation' = generation + 1 /\ cache' = <<>>
  /\ UNCHANGED <<worldVars, calls, archiveVars, discovery, retrieval, answered>>

-----------------------------------------------------------------------------
WorldNext == ((\E s \in Services : ServeContract(s)) \/ Change) /\ UNCHANGED discoveryVars
AnswerNext == \E call \in calls : (\E o \in Outputs : answerCall(call, o)) \/ discardCall(call)
InferenceNext ==
  /\ \E p \in Principals, s \in Services, ids \in Selections :
       \/ Len(answers) < MaxAsked /\ \E d \in BOOLEAN : run(Call(p, PinOf(s), ids, d))
       \/ \E h \in DOMAIN answers, decision \in {"acknowledged", "dismissed"},
             expected \in 0..MaxReviews :
            recordSemanticHistoryReview(p, s, ids, h, decision, expected)
  /\ UNCHANGED discoveryVars
CorpusNext ==
  \/ \E p \in Seekers : searchFirst(p)
  \/ Asking /\ \E group \in discovery.left : askGroup(group) \/ skipGroup(group)
  \/ searchAgain \/ abandonDiscovery
RetrievalNext ==
  \/ \E p \in Seekers : beginRetrieval(p)
  \/ Scanning /\ \E pin \in retrieval.scan.left : scanService(pin)
  \/ embedMissing \/ rank \/ abandonRetrieval \/ clearCache
DiscoveryNext == WorldNext \/ AnswerNext \/ InferenceNext \/ CorpusNext \/ RetrievalNext
DiscoverySpec == DiscoveryInit /\ [][DiscoveryNext]_semanticVars

-----------------------------------------------------------------------------
(* An answer for all services is about one and the same moment: its groups *)
(* are the shortlist as it was when the answer was given, and whatever the *)
(* provider said of a group is in the caller's history for the same pin.   *)
DiscoveryIsConsistent ==
  answered.phase = "groups" =>
    /\ {[pin |-> g.pin, ids |-> g.ids] : g \in answered.groups} = answered.shortlist
    /\ Cardinality(answered.groups) = Cardinality(answered.shortlist)
    /\ \A g \in answered.groups : g.status # "no_context" =>
         \E h \in DOMAIN answers :
           /\ answers[h].caller = answered.caller /\ answers[h].pin = g.pin
           /\ answers[h].requested = g.ids
           /\ answers[h].status = g.status /\ answers[h].cites = g.cites

(* Ranking uses the vector of the very text it ranks; nothing computed     *)
(* before the cache was cleared is in it afterwards; a complete answer has *)
(* every endpoint of the services it ranks.                                *)
RetrievalIsSound ==
  /\ Len(cache) <= CacheEntries
  /\ \A i \in DOMAIN cache :
       cache[i].vector = Embedding(cache[i].key.text) /\ cache[i].since = generation
  /\ \A i, j \in DOMAIN cache : cache[i].key = cache[j].key => i = j
  /\ answered.phase = "candidates" => \A v \in answered.ranked :
       /\ v.vector = Embedding(v.key.text) /\ v.key.caller = answered.caller
       /\ answered.complete => \A e \in v.key.pin.snapshot.endpoints :
            \E w \in answered.ranked : w.key.pin = v.key.pin /\ w.key.endpoint = e

(* What a language model said is kept only with its grounds, reviewed by   *)
(* its owner alone, and shown together, or ranked, as of one moment.       *)
AnswersAreGrounded ==
  HistoryIsGrounded /\ ReviewsAreAChain /\ DiscoveryIsConsistent /\ RetrievalIsSound
=============================================================================
