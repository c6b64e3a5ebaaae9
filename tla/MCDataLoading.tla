----------------------------- MODULE MCDataLoading -----------------------------
EXTENDS DataLoading, TLC

(* Every load but the one a provider reads by itself, which never asks for *)
(* the policy; that one is NativeJobs.                                     *)
MCJobs ==
    {j \in Job : /\ j.kind = "configured" => j.policy = "append"
                 /\ ~(j.provider = "duckdb" /\ j.declares /\ j.policy # "append")}

NativeJobs == {[provider |-> "duckdb", kind |-> "direct", policy |-> "replace",
                create |-> FALSE, declares |-> TRUE, exists |-> TRUE]}

(* SIGTERM at every step but inside the replacement's own transaction.     *)
OutsidePromotion == (Resting \cup Loading) \ {"copy", "settle"}

Symmetry == Permutations(Files) \cup Permutations(Loaders)
================================================================================
