------------------------- MODULE MCVerificationJobs -------------------------
(* An instance of VerificationJobs for TLC: one capture with one document  *)
(* loaded into it, under two configurations; the jobs of both epochs share *)
(* the service's place.                                                    *)
EXTENDS VerificationJobs, TLC

OneLoad     == "l1" :> "c1"
OneService  == [c \in {"c1"} |-> "s"]
OnePlace    == [c \in {"c1"} |-> "staging"]
MovedRoot   == <<"c1" :> "r1", "c1" :> "r2">>
KeptRoot    == <<"c1" :> "r1", "c1" :> "r1">>
=============================================================================
