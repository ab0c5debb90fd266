---------------------------- MODULE CorpusSearch ----------------------------
(***************************************************************************)
(* One keyword search over the services of an environment that the caller  *)
(* may see: the cuts that bound the work, the deadline that may fall at    *)
(* any query, the services skipped because they are not the caller's, and  *)
(* what the answer claims of itself.  The transaction reads one database   *)
(* snapshot, so the corpus does not change meanwhile.  The words are left  *)
(* out: an endpoint says whether its path is safe, whether its route is    *)
(* cited, whether it has any context and how well its texts match.         *)
(***************************************************************************)
EXTENDS Naturals, Sequences, FiniteSets

CONSTANTS
  Corpora,         \* configured services, in the order of their identifiers
  Requests,        \* limits a caller asks for
  MaxInspected,    \* MAX_CONFIGURED_INSPECTED
  MaxServices,     \* MAX_CORPUS_SERVICES
  MaxSize,         \* MAX_CORPUS_ENDPOINTS and MAX_CORPUS_BYTES
  ServiceLimit     \* the limit searchOperationCandidates is called with

ASSUME SearchAssumption ==
  /\ ServiceLimit \in Nat /\ Requests \subseteq 1..ServiceLimit
  /\ MaxInspected \in Nat \ {0} /\ MaxServices \in Nat \ {0} /\ MaxSize \in Nat

(* A score counts the words that match.                                    *)
ASSUME CorporaAreScored ==
  \A c \in Corpora :
    c \in Seq([environment : BOOLEAN, granted : BOOLEAN,
              state : {"denied", "hidden", "unresolved", "resolved"}, complete : BOOLEAN,
              endpoints : Seq([safe : BOOLEAN, cited : BOOLEAN, context : BOOLEAN, score : Nat])])

VARIABLES
  corpus,          \* the services as the transaction sees them
  request,         \* its limit
  queue,           \* services still to search, or Unread before the grants are
  found,           \* <<service, endpoint>> candidates so far
  tally,           \* scanLimit, incomplete, anyServiceTruncated, visible, size
  reply            \* the answer, or NoReply

Unread == <<0>>
NoReply == [status |-> "none"]
SearchInit ==
  /\ corpus \in Corpora /\ request \in Requests
  /\ queue = Unread /\ found = {} /\ reply = NoReply
  /\ tally = [scanLimit |-> FALSE, incomplete |-> FALSE, truncated |-> FALSE,
              visible |-> 0, size |-> 0]

-----------------------------------------------------------------------------
(* searchOperationCandidates on the contract of one service.               *)
Covered(e) == e.safe /\ e.cited
Candidate(e) == e.safe /\ e.cited /\ e.score > 0
InContext(e) == e.safe /\ (e.cited \/ e.context)
Score(c) == corpus[c[1]].endpoints[c[2]].score
Better(c, d) ==
  \/ Score(c) > Score(d)
  \/ Score(c) = Score(d) /\ (c[1] < d[1] \/ (c[1] = d[1] /\ c[2] < d[2]))
Ahead(set, c) == {d \in set : Better(d, c)}
Top(set, n) == {c \in set : Cardinality(Ahead(set, c)) < n}
Ids(i) == DOMAIN corpus[i].endpoints
Matches(i) == {<<i, k>> : k \in {j \in Ids(i) : Candidate(corpus[i].endpoints[j])}}
(* What the contract says of itself, without a look at its endpoints.      *)
BugTrustCoverage(i) == corpus[i].complete
WhollyCovered(i) ==
  corpus[i].complete /\ \A k \in Ids(i) : Covered(corpus[i].endpoints[k])
Understood(i) == \E k \in Ids(i) : InContext(corpus[i].endpoints[k])

-----------------------------------------------------------------------------
(* The configuration and the grants: which services are searched at all.   *)
Inspected == 1..(IF Len(corpus) > MaxInspected THEN MaxInspected ELSE Len(corpus))
Authorized == {i \in Inspected : corpus[i].environment /\ corpus[i].granted}
Before(set, i) == {j \in set : j < i}
FirstOf(set, n) == {i \in set : Cardinality(Before(set, i)) < n}
Nth(set, p) == CHOOSE i \in set : Cardinality(Before(set, i)) = p - 1
InOrder(set) == [p \in 1..Cardinality(set) |-> Nth(set, p)]

readGrants ==
  /\ queue = Unread /\ reply = NoReply
  /\ queue' = InOrder(FirstOf(Authorized, MaxServices))
  /\ tally' = [tally EXCEPT !.scanLimit =
                 Len(corpus) > MaxInspected \/ Cardinality(Authorized) > MaxServices]
  /\ UNCHANGED <<corpus, request, found, reply>>

Searching == queue # Unread /\ queue # <<>> /\ reply = NoReply
Upcoming == Head(queue)

(* A contract, or the evidence it cites, that the caller may not read.     *)
skipDenied ==
  /\ Searching /\ corpus[Upcoming].state \in {"denied", "hidden"}
  /\ queue' = Tail(queue) /\ UNCHANGED <<corpus, request, found, tally, reply>>

meetUnresolved ==
  /\ Searching /\ corpus[Upcoming].state = "unresolved"
  /\ queue' = Tail(queue)
  /\ tally' = [tally EXCEPT !.visible = @ + 1, !.incomplete = TRUE]
  /\ UNCHANGED <<corpus, request, found, reply>>

Size(i) == tally.size + Len(corpus[i].endpoints)

(* A contract that exceeds what is left of the budget ends the scan.       *)
exceedBudget ==
  /\ Searching /\ corpus[Upcoming].state = "resolved" /\ Size(Upcoming) > MaxSize
  /\ queue' = <<>>
  /\ tally' = [tally EXCEPT !.visible = @ + 1, !.size = Size(Upcoming), !.scanLimit = TRUE]
  /\ UNCHANGED <<corpus, request, found, reply>>

searchService ==
  /\ Searching /\ corpus[Upcoming].state = "resolved" /\ Size(Upcoming) <= MaxSize
  /\ queue' = Tail(queue)
  /\ found' = found \cup Top(Matches(Upcoming), ServiceLimit)
  /\ tally' = [tally EXCEPT
       !.visible = @ + 1, !.size = Size(Upcoming),
       !.incomplete = @ \/ ~WhollyCovered(Upcoming) \/ ~Understood(Upcoming),
       !.truncated = @ \/ Cardinality(Matches(Upcoming)) > ServiceLimit]
  /\ UNCHANGED <<corpus, request, reply>>

(* The deadline noticed between two services, or by a query under way,     *)
(* which abandons what was found.                                          *)
noticeDeadline ==
  /\ Searching /\ queue' = <<>> /\ tally' = [tally EXCEPT !.scanLimit = TRUE]
  /\ UNCHANGED <<corpus, request, found, reply>>
Unknown(reason) == [status |-> "unknown", reason |-> reason]
exceedDeadline ==
  /\ (queue = Unread \/ queue # <<>>) /\ reply = NoReply
  /\ reply' = Unknown("scan_limit")
  /\ UNCHANGED <<corpus, request, queue, found, tally>>

NothingCut == ~tally.scanLimit /\ ~tally.incomplete
Answer ==
  IF found # {}
  THEN [status |-> "candidates", candidates |-> Top(found, request), complete |-> NothingCut,
        truncated |-> tally.truncated \/ Cardinality(found) > request]
  ELSE IF NothingCut /\ tally.visible > 0 THEN [status |-> "no_match"]
  ELSE Unknown(IF tally.scanLimit THEN "scan_limit"
               ELSE IF tally.visible = 0 THEN "no_visible_services" ELSE "incomplete_scan")
answer ==
  /\ queue = <<>> /\ reply = NoReply /\ reply' = Answer
  /\ UNCHANGED <<corpus, request, queue, found, tally>>

SearchNext ==
  \/ readGrants \/ skipDenied \/ meetUnresolved \/ exceedBudget \/ searchService
  \/ noticeDeadline \/ exceedDeadline \/ answer
searchVars == <<corpus, request, queue, found, tally, reply>>
SearchSpec == SearchInit /\ [][SearchNext]_searchVars

-----------------------------------------------------------------------------
(* What the caller may see of the whole configuration, cut by no limit.    *)
Visible == {i \in DOMAIN corpus :
  /\ corpus[i].environment /\ corpus[i].granted
  /\ corpus[i].state \in {"unresolved", "resolved"}}
AllMatches == UNION {Matches(i) : i \in {j \in Visible : corpus[j].state = "resolved"}}
Exhaustive ==
  \A i \in Visible : corpus[i].state = "resolved" /\ WhollyCovered(i) /\ Ids(i) # {}

(* The answer claims no more than was searched: a complete answer or a     *)
(* no_match is about every service the caller may see, read to the end and *)
(* with a cited route for every endpoint; no_match means no text of theirs *)
(* matches; complete candidates are the best of all, and truncated says    *)
(* exactly whether there are more; no candidate is of a service, or rests  *)
(* on evidence, the caller may not read.                                   *)
SearchIsHonest ==
  /\ reply.status = "no_match" =>
       /\ Visible # {} /\ Exhaustive
       /\ \A i \in Visible : \A k \in Ids(i) : corpus[i].endpoints[k].score = 0
  /\ reply.status = "candidates" =>
       /\ reply.candidates # {} /\ reply.candidates \subseteq AllMatches
       /\ Cardinality(reply.candidates) <= request
       /\ reply.complete => /\ Exhaustive
                            /\ reply.candidates = Top(AllMatches, request)
                            /\ reply.truncated = (Cardinality(AllMatches) > request)
=============================================================================
