--------------------------- MODULE MCPublications ---------------------------
(* An instance of Publications, and with it of EnvironmentServing, for TLC. *)
EXTENDS Publications, TLC

OneEach == ("a1" :> "r1") @@ ("a2" :> "r2")
Rollout == (0 :> {"a1"}) @@ (1 :> {"a2"})
OneAuthority == <<"A", "A">>

Attempt(a, r) == [artifact |-> a, revision |-> r]
Conflict == {Attempt("a1", "r1"), Attempt("a1", "r2")}
Bindings == {Attempt("a1", "r1"), Attempt("a2", "r2")}
AllAttempts == Conflict \cup Bindings
Push(k, whole)  == [change |-> k, complete |-> whole, pushed |-> TRUE]
Exact(k, whole) == [change |-> k, complete |-> whole, pushed |-> FALSE]
SomeEvents == {Push(0, TRUE), Push(1, TRUE), Push(1, FALSE),
               Exact(0, TRUE), Exact(0, FALSE), Exact(1, TRUE)}

Behaviour(opaque, events, epochs, requests, failures) ==
  [opaque |-> opaque, events |-> events, epochs |-> epochs, requests |-> requests,
   failures |-> failures]

(* Events that race with an exact observation, under failures; an explicit *)
(* request; a configuration change; cursors for orders; two attempts.      *)
Servings == {
  Behaviour(FALSE, {Push(1, TRUE), Exact(0, TRUE)}, 1, FALSE, TRUE),
  Behaviour(FALSE, {Push(1, TRUE), Exact(0, FALSE), Exact(1, TRUE)}, 1, FALSE, FALSE),
  Behaviour(FALSE, {Push(1, TRUE), Exact(0, FALSE)}, 1, TRUE, FALSE),
  Behaviour(FALSE, {Push(0, TRUE), Exact(1, TRUE)}, 2, FALSE, FALSE),
  Behaviour(TRUE, {Push(0, TRUE), Push(1, TRUE), Exact(1, TRUE)}, 1, FALSE, FALSE),
  Behaviour(FALSE, {Push(1, FALSE), Push(1, TRUE)} \cup Conflict, 1, FALSE, FALSE)}

(* With publication: a rollout that is bound and analysed while it is      *)
(* observed, and a configuration change under a published document.        *)
Published == {
  Behaviour(FALSE, {Push(0, TRUE), Push(1, TRUE)} \cup Bindings, 1, FALSE, FALSE),
  Behaviour(FALSE, {Exact(0, TRUE), Attempt("a1", "r1")}, 2, FALSE, FALSE)}
Quiet == Behaviour(FALSE, {}, 1, FALSE, FALSE)

SomeBounds == Servings \cup Published \cup {Quiet}
BoundsByKey == [k \in Keys |-> CASE k = "none" -> Servings
                                 [] k = "environment" -> Published
                                 [] OTHER -> {Quiet}]

Snapshot(r, n, b) == [revision |-> r, epoch |-> n, build |-> b]
SomeSnapshots == {Snapshot("r1", 1, 1), Snapshot("r2", 1, 1), Snapshot("r1", 2, 2),
                  Snapshot("r1", 2, 1)}
Strict == SomeSnapshots
Twin == Permutations(Sessions)
=============================================================================
