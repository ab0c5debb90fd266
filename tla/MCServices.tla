------------------------------ MODULE MCServices ------------------------------
(***************************************************************************)
(* Small instances, for TLC, of parts that do not share state: a pull      *)
(* request, the comparison of two snapshots, the planning of an update and *)
(* its execution, the catalog, the ledger of events, the field presence of *)
(* a service, a search, and a language model asked about contracts.  A     *)
(* behaviour is about the part in focus; the others stay as they start.    *)
(***************************************************************************)
EXTENDS UpdatePlanning, UpdateExecution, ContractDifferences, FieldPresence, CorpusSearch,
  SemanticDiscovery, Catalog, EventLedger, PullRequests, TLC

-----------------------------------------------------------------------------
(* Snapshots to plan from: chains and cycles of dependencies in either     *)
(* order, evidence shared between endpoints, of the service, of no file.   *)
Needs(from, evidence, endpoints, schemas) ==
  [from |-> from, evidence |-> evidence, endpoints |-> endpoints, schemas |-> schemas]
Onwards == Needs("b", {}, {"c"}, {})
Starts == Needs("a", {}, {"b"}, {})
SomeDependencies == {
  <<>>, <<Starts, Onwards>>, <<Onwards, Starts>>,
  <<Starts, Needs("b", {"w"}, {"a"}, {})>>,
  <<Starts, Needs("b", {}, {}, {"S"})>>,
  <<Starts, Onwards, Needs("c", {}, {"a"}, {})>>}
SomeGraphs == {
  [evidence |-> own, schemas |-> [e \in Endpoints |-> IF e = "c" THEN mentioned ELSE {}],
   references |-> ("S" :> {"T"}) @@ ("T" :> back), sources |-> ("S" :> {}) @@ ("T" :> {"w"}),
   scope |-> ("v" :> scope) @@ ("w" :> NoEndpoint), file |-> ("v" :> fv) @@ ("w" :> fw),
   dependencies |-> needs] :
     own \in [Endpoints -> {{}, {"v"}}], mentioned \in {{}, {"S"}}, back \in {{"S"}},
     scope \in {NoEndpoint, "b"}, fv \in {"x", "none", "outside"}, fw \in {"y"},
     needs \in SomeDependencies}
To(changed, complete, digest, covered, boundary) ==
  [changed |-> changed, complete |-> complete, digest |-> digest, covered |-> covered,
   boundary |-> boundary]
SomeInputs ==
  {To(changed, TRUE, FALSE, TRUE, {}) : changed \in {{}, {"x"}, {"y"}, {"."}, {"x", "y"}}}
  \cup {To({}, complete, TRUE, covered, boundary) :
          complete \in BOOLEAN, covered \in BOOLEAN, boundary \in {{}, {"config_changed"}}}

-----------------------------------------------------------------------------
(* A service of two files over four revisions, the second with the sources *)
(* of the first; a branch that goes back, an incomplete snapshot, another  *)
(* configuration's, and jobs of each kind with both analyzers.             *)
SomeContents ==
  ("r1" :> ("a" :> 1 @@ "b" :> 1)) @@ ("r2" :> ("a" :> 1 @@ "b" :> 1))
  @@ ("r3" :> ("a" :> 2 @@ "b" :> 1)) @@ ("r4" :> ("a" :> 2 @@ "b" :> 2))
Associated(revision, of, analyzer, config, complete) ==
  [revision |-> revision, snapshot |->
     [revision |-> of, digest |-> Digest(analyzer, of), analyzer |-> analyzer, config |-> config,
      complete |-> complete, ours |-> TRUE]]
SomeAssociations ==
  {Associated(r, "r1", "tree", "f", TRUE) : r \in {"r1", "r2"}}
  \cup {Associated("r3", "r3", "tree", "f", FALSE), Associated("r1", "r1", "tree", "g", TRUE),
        Associated("r3", "r1", "document", "f", TRUE), Associated("r3", "r3", "tree", "g", TRUE)}
AnalysisJob(kind, toward, of, analyzer) ==
  [kind |-> kind, target |-> toward, base |-> of, analyzer |-> analyzer, config |-> "f",
   manifests |-> IF analyzer = "tree" /\ kind = "pr_preview_analysis" THEN <<"b">> ELSE <<>>]
SomeJobs ==
  {AnalysisJob(k, t, "r2", a) : k \in {"branch_analysis", "pr_preview_analysis"},
                                t \in {"r2", "r4"}, a \in {"tree", "document"}}
  \cup {AnalysisJob("baseline_analysis", "r3", "r3", "tree"),
        AnalysisJob("pr_preview_analysis", "r3", "r3", "document")}

-----------------------------------------------------------------------------
(* One snapshot under two configurations and another one; promotions of a  *)
(* provider in order and of one without, which expects a version.          *)
Stores(id, config, content, scopes) ==
  [id |-> id, config |-> config, content |-> content, scopes |-> scopes]
SomeIngestions ==
  {Stores("i", "f", 1, {"A"}), Stores("i", "g", 1, {"A"}), Stores("j", "f", 2, {"A", "B"})}
AskPromotion(id, provider, order, expected) ==
  [id |-> id, provider |-> provider, order |-> order, expected |-> expected]
SomePromotions ==
  {AskPromotion("i", "p", 1, Unconditional), AskPromotion("j", "p", 2, Unconditional),
   AskPromotion("i", "q", 0, 1)}

-----------------------------------------------------------------------------
(* Changes of the configuration there and back, late, from another source, *)
(* with a used identifier; and another document under a used fingerprint.  *)
Configured(id, f, services, provider, order) ==
  [id |-> id, type |-> "configuration.changed", fingerprint |-> f, services |-> services,
   provider |-> provider, order |-> order]
SomeRegistrations ==
  {[fingerprint |-> "f", services |-> {"s"}], [fingerprint |-> "g", services |-> {"s", "t"}],
   [fingerprint |-> "g", services |-> {"t"}]}
SomeEvents ==
  {Configured("e1", "g", {"s", "t"}, "p", 2), Configured("e2", "f", {"s", "t"}, "p", 1),
   Configured("e3", "f", {"s", "t"}, "p", 3), Configured("e4", "g", {"s", "t"}, "q", 1),
   Configured("e2", "g", {"s", "t"}, "p", 1),
   [id |-> "e5", type |-> "branch.updated", fingerprint |-> "none", services |-> {"s"},
    provider |-> "p", order |-> 0]}
SomeEvidence == {[provider |-> "p", order |-> 1]}

-----------------------------------------------------------------------------
(* Snapshots to compare, in families that differ in one kind of fact.      *)
Fact(kind, of, key, part, value) ==
  [kind |-> kind, of |-> of, key |-> key, part |-> part, value |-> value]
Snap(version, coverage, facts, claims) ==
  [version |-> version, coverage |-> coverage, facts |-> facts, claims |-> claims]
Covers   == {"complete", "limit"}
Versions == {"current", "future"}
Endpoint(version, route) == Fact("endpoint", "e", "", version, <<route>>)
Security(x)  == Fact("security", "e", "", "", <<x>>)
PathNames(x) == Fact("names", "e", "", "", <<x>>)
Parameter(presence, content) == Fact("parameter", "e", "query limit", "", <<presence, content, "">>)
Body(presence, encoding) == Fact("request_body", "e", "form", "", <<presence, "s", encoding>>)
Response(status, media, schema) == Fact("response", "e", status, media, <<schema>>)
Plain == {Endpoint("current", "r1"), Security("none"), PathNames("id")}
With(alternatives) == {Snap("current", c, Plain \cup x, {}) : c \in Covers, x \in alternatives}
AtMostOne(S) == {{}} \cup {{x} : x \in S}

Parameters == With(
  AtMostOne({Parameter(p, c) : p \in {"required", "optional", "unknown", "c1", "c2"}, c \in {"s", "t"}})
  \cup {{Parameter("required", "s"), Parameter("optional", "s")}})
Bodies == With({x \cup y :
  x \in AtMostOne({Body(p, c) : p \in {"required", "optional"}, c \in {"", "csv"}}),
  y \in AtMostOne({Parameter("optional", "s"), Parameter("required", "s")})})
Responses == With({{}, {Response("200", "", "")}, {Response("default", "", "")},
  {Response("200", "", ""), Response("200", "json", "s")},
  {Response("200", "", ""), Response("200", "json", "t"), Response("200", "xml", "t")},
  {Response("200", "", ""), Response("200", "json", "s"), Response("200", "json", "t")}})
Routes ==
  {Snap(v, c, {}, {}) : v \in Versions, c \in Covers} \cup
  {Snap(v, c, {Endpoint(v, r), Security(x), PathNames(n)}, {}) :
     v \in Versions, c \in Covers, r \in {"r1", "r2"}, x \in {"none", "key"}, n \in {"id", "ref"}}
Components ==
  {Snap(v, c, {Fact("schema", "S", "", "", <<x>>) : x \in schema}
              \cup {Fact("diagnostic", "d", "", "", <<x>>) : x \in diagnostics}, {}) :
     v \in Versions, c \in {"complete", "limit", "timeout"}, schema \in {{}, {"s"}, {"t"}},
     diagnostics \in {{}, {"warning"}, {"error"}, {"warning", "error"}}}

SomeConditions == <<"c1", "c2">>
PresenceClaim == "request.field.presence"
Claim(i, key, value, verification, condition) ==
  [id |-> i, of |-> "e", key |-> key, value |-> value, verification |-> verification,
   condition |-> condition]
SomeClaims(key, ids) ==
  {Claim(i, key, value, "verified", condition) :
     i \in ids, value \in {"optional", "required"}, condition \in {"null", "c1", "c2"}}
  \cup {Claim(1, key, "optional", "asserted", "null")}
Claims(key, ids) ==
  {Snap("current", "complete", {Endpoint("current", "r1"), Security("none")}, claims) :
     claims \in {x \in SUBSET SomeClaims(key, ids) : Cardinality(x) <= 2}}
  \cup {Snap("current", "limit", {Endpoint("current", "r1"), Security("none")}, claims) :
     claims \in AtMostOne(SomeClaims(key, ids))}
Moved ==
  {Snap("current", c, {Endpoint("current", r), Security("none")}, claims) :
     c \in Covers, r \in {"r1", "r2"},
     claims \in {{}, {Claim(1, PresenceClaim, "optional", "verified", "null")},
                 {Claim(1, PresenceClaim, "required", "verified", "null"),
                [Claim(2, "x", "v", "verified", "c1") EXCEPT !.of = ""]}}}
SomeFamilies == {Parameters, Bodies, Responses, Routes, Components, Moved,
                 Claims(PresenceClaim, {1, 2}), Claims("x", {1})}

-----------------------------------------------------------------------------
(* A configuration that comes back, and batches that share a record.       *)
SomeActivations == <<"f", "g", "f">>
SomePolicies == {[lifetime |-> 1, budget |-> b] : b \in {1, 2}}
SomeBatches == {[confirmed |-> {"r", "s"}, unresolved |-> {}],
                [confirmed |-> {"s"}, unresolved |-> {"r"}]}

-----------------------------------------------------------------------------
(* Services to search: not the caller's, not resolved, silent, matching    *)
(* once or twice, matching in a text whose route is not cited, not covered.*)
Searched(safe, cited, context, score) ==
  [safe |-> safe, cited |-> cited, context |-> context, score |-> score]
Silent == Searched(TRUE, TRUE, TRUE, 0)
Good == Searched(TRUE, TRUE, TRUE, 1)
Best == Searched(TRUE, TRUE, TRUE, 2)
Service(environment, granted, state, complete, endpoints) ==
  [environment |-> environment, granted |-> granted, state |-> state, complete |-> complete,
   endpoints |-> endpoints]
SomeServices ==
  {Service(FALSE, TRUE, "resolved", TRUE, <<Good>>), Service(TRUE, FALSE, "resolved", TRUE, <<Good>>)}
  \cup {Service(TRUE, TRUE, state, TRUE, <<Best>>) : state \in {"hidden", "unresolved"}}
  \cup {Service(TRUE, TRUE, "resolved", complete, endpoints) :
           complete \in BOOLEAN, endpoints \in {<<Silent>>, <<Best>>}}
  \cup {Service(TRUE, TRUE, "resolved", TRUE, endpoints) :
           endpoints \in {<<>>, <<Good, Good>>, <<Searched(TRUE, FALSE, TRUE, 1)>>,
                         <<Silent, Searched(FALSE, FALSE, FALSE, 0)>>}}
SomeCorpora == UNION {[1..n -> SomeServices] : n \in 0..3}
                 \cup {[i \in 1..4 |-> Service(i # 2, TRUE, "resolved", TRUE, <<Silent>>)]}

-----------------------------------------------------------------------------
(* Contracts to ask about: described or only routed, claims out of scope,  *)
(* an endpoint whose two routes bind none; and a provider that may cite    *)
(* what it was not shown.                                                  *)
Says(of, kind, evidence, scoped) == [of |-> of, kind |-> kind, evidence |-> evidence, scoped |-> scoped]
SomeContracts == {
  [config |-> 1, endpoints |-> {"a", "b"}, matching |-> {"a", "b"}, claims |->
     {Says("a", "description", {"v"}, TRUE), Says("a", "description", {"w"}, FALSE),
      Says("b", "route", {"w"}, TRUE)}],
  [config |-> 2, endpoints |-> {"a", "b"}, matching |-> {"a"}, claims |->
     {Says("a", "operation_id", {"v"}, TRUE), Says("a", "route", {"v"}, TRUE),
      Says("a", "handler", {"w"}, TRUE), Says("b", "description", {"w"}, TRUE)}],
  [config |-> 1, endpoints |-> {"a"}, matching |-> {}, claims |->
     {Says("a", "description", {"w"}, TRUE)}]}
Cite(e, evidence) == [endpoint |-> e, evidence |-> evidence]
SomeOutputs == {
  [status |-> "suggestions", cites |-> {Cite("a", {"v"})}],
  [status |-> "suggestions", cites |-> {Cite("a", {"w"})}],
  [status |-> "ambiguous", cites |-> {Cite("a", {}), Cite("b", {})}],
  [status |-> "no_match", cites |-> {}]}
SomeInference == <<"p", "q">>

-----------------------------------------------------------------------------
VARIABLES focus       \* the part at work
CONSTANTS Absent

(* A part that is not in focus starts in one state and stays there.        *)
ServicesInit ==
  /\ focus \in {"plan", "execution", "catalog", "ledger", "differences", "pull", "presence",
                "search", "inference", "corpus", "retrieval"}
  /\ IF focus = "plan" THEN Init
     ELSE /\ snapshot = Absent /\ input = Absent /\ phase = "given" /\ owned = Absent
          /\ direct = {} /\ at = 1 /\ grown = FALSE /\ plan = NoPlan
  /\ IF focus = "differences" THEN DifferencesInit
     ELSE base = Absent /\ target = Absent /\ set = NoSet
  /\ IF focus = "pull" THEN PullInit /\ active = CHOOSE c \in Configs : TRUE
     ELSE /\ orders = Absent /\ history = <<>> /\ accepted = {} /\ active = Absent
          /\ pr = [evidence |-> NoEvidence, request |-> NoEvidence,
                   job |-> NoJob, result |-> None]
          /\ preview = [g \in 1..MaxPreviews |-> NoPreview]
          /\ scan = [g \in 1..MaxScans |-> NoScan]
  /\ IF focus = "execution" THEN ExecutionInit
     ELSE /\ job = Absent /\ alive = TRUE /\ branch = Absent /\ promotions = 0
          /\ step = "idle" /\ pointer = None /\ selected = None /\ resolved = Nothing
          /\ held = FALSE /\ update = Nothing /\ material = Nothing
  /\ IF focus = "catalog" THEN CatalogInit
     ELSE /\ scopeState = Absent /\ grants = Absent /\ policyChanges = 0
          /\ snapshots = [i \in SnapshotIds |-> NoRow] /\ head = NoPointer
          /\ branchLock = Nobody /\ writing = [w \in Writers |-> Ready]
          /\ promoted = <<>> /\ shown = [p \in Readers |-> [version |-> 0, row |-> NoRow]]
  /\ LedgerInit
  /\ PresenceInit
  /\ IF focus = "search" THEN SearchInit
     ELSE /\ corpus = <<>> /\ request = Absent /\ queue = Unread /\ found = {}
          /\ tally = Absent /\ reply = NoReply
  /\ IF focus \in {"inference", "corpus", "retrieval"} THEN DiscoveryInit
     ELSE /\ served = Absent /\ activeConfig = Absent /\ contextChanges = 0
          /\ readers = {} /\ owners = {} /\ calls = {} /\ answers = <<>> /\ reviews = {}
          /\ receipts = {} /\ discovery = Idle /\ retrieval = Idle /\ cache = <<>>
          /\ generation = 0 /\ answered = Idle
(* What stays as it is while a part is at work.                            *)
IdleContracts == UNCHANGED <<vars, executionVars, catalogVars, comparison>>
IdleTracking  == UNCHANGED <<pullVars, ledgerVars>>
IdleServing   == UNCHANGED <<presenceVars, searchVars, semanticVars>>
(* Who asks about all services is concerned by his own grants only, and by *)
(* one service that changes under him as much as by two.                   *)
SeekersWorld == /\ owners' = owners /\ \A g \in readers \ readers' : g[1] \in Seekers
                /\ served'["t"] = served["t"]
(* The locks let a promotion run beside an ingestion and nothing else: one *)
(* writer does everything, the others promote.                             *)
CatalogRoles == \A w \in Writers \ {CHOOSE w \in Writers : TRUE} :
  writing'[w].kind \in {"none", "promote"}
ServicesNext ==
  /\ UNCHANGED focus
  /\ \/ /\ focus = "plan" /\ Next
        /\ UNCHANGED <<executionVars, catalogVars, comparison>> /\ IdleTracking /\ IdleServing
     \/ /\ focus = "execution" /\ ExecutionNext
        /\ UNCHANGED <<vars, catalogVars, comparison>> /\ IdleTracking /\ IdleServing
     \/ /\ focus = "catalog" /\ CatalogNext /\ CatalogRoles
        /\ UNCHANGED <<vars, executionVars, comparison>> /\ IdleTracking /\ IdleServing
     \/ /\ focus = "differences" /\ DifferencesNext
        /\ UNCHANGED <<vars, executionVars, catalogVars>> /\ IdleTracking /\ IdleServing
     \/ /\ focus = "pull" /\ PullNext /\ UNCHANGED ledgerVars /\ IdleContracts /\ IdleServing
     \/ /\ focus = "ledger" /\ LedgerNext /\ UNCHANGED pullVars /\ IdleContracts /\ IdleServing
     \/ /\ focus = "presence" /\ PresenceNext
        /\ UNCHANGED <<searchVars, semanticVars>> /\ IdleContracts /\ IdleTracking
     \/ /\ focus = "search" /\ SearchNext
        /\ UNCHANGED <<presenceVars, semanticVars>> /\ IdleContracts /\ IdleTracking
     \/ /\ \/ focus = "inference" /\ WorldNext
           \/ focus \in {"corpus", "retrieval"} /\ WorldNext /\ SeekersWorld
           \/ focus \in {"inference", "corpus"} /\ AnswerNext
           \/ focus = "inference" /\ InferenceNext
           \/ focus = "corpus" /\ CorpusNext
           \/ focus = "retrieval" /\ RetrievalNext
        /\ UNCHANGED <<presenceVars, searchVars>> /\ IdleContracts /\ IdleTracking
ServicesSpec ==
  ServicesInit /\ [][ServicesNext]_<<focus, vars, executionVars, catalogVars, comparison, pullVars,
                                    ledgerVars, presenceVars, searchVars, semanticVars>>

=============================================================================
