----------------------------- MODULE MCJobQueue -----------------------------
(* Instances of JobQueue for TLC.                                          *)
EXTENDS JobQueue, TLC

Limits(g, r, s) == [global |-> g, repository |-> r, service |-> s]

(* Previews: two previews of one pull request, the second superseding the  *)
(* first, on one shared baseline, and a reconciliation of another service  *)
(* which only the second configuration asks for.                           *)
PreviewJobs          == {"b1", "p1", "p2", "q2"}
PreviewServiceOf     == "b1" :> "s1" @@ "p1" :> "s1" @@ "p2" :> "s1" @@ "q2" :> "s2"
PreviewSubjectOf     == "b1" :> "base" @@ "p1" :> "pr" @@ "p2" :> "pr" @@ "q2" :> "rec"
PreviewPrerequisites == "b1" :> {} @@ "p1" :> {"b1"} @@ "p2" :> {"b1"} @@ "q2" :> {}
PreviewFingerprints  == "b1" :> "c1" @@ "p1" :> "c1" @@ "p2" :> "c1" @@ "q2" :> "c2"
PreviewPolicies      == {}
PreviewDefault       == Limits(2, 2, 1)
PreviewRepositories  == [s \in {"s1", "s2"} |-> "r1"]

(* The same without the second configuration, for liveness.                *)
SmallJobs          == {"b1", "p1", "p2"}
SmallServiceOf     == [j \in SmallJobs |-> "s1"]
SmallSubjectOf     == "b1" :> "base" @@ "p1" :> "pr" @@ "p2" :> "pr"
SmallPrerequisites == "b1" :> {} @@ "p1" :> {"b1"} @@ "p2" :> {"b1"}
SmallFingerprints  == [j \in SmallJobs |-> "c1"]
SmallRepositories  == [s \in {"s1"} |-> "r1"]

(* Capacity: branch jobs of three services in two repositories, under      *)
(* policies that squeeze each scope in turn.                               *)
ScopeJobs          == {"x1", "x2", "y", "z"}
ScopeServiceOf     == "x1" :> "s1" @@ "x2" :> "s1" @@ "y" :> "s2" @@ "z" :> "s3"
ScopeSubjectOf     == [j \in ScopeJobs |-> j]
ScopePrerequisites == [j \in ScopeJobs |-> {}]
ScopeFingerprints  == [j \in ScopeJobs |-> "c1"]
ScopeRepositories  == "s1" :> "r1" @@ "s2" :> "r1" @@ "s3" :> "r2"
ScopePolicies      == {Limits(2, 2, 1), Limits(2, 1, 1), Limits(3, 2, 2)}
ScopeDefault       == Limits(2, 2, 1)
=============================================================================
