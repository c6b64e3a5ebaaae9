-------------------------- MODULE MCGovernedRollback ---------------------------
EXTENDS GovernedRollback, TLC

MCMade == [f \in Files |-> <<"made", f>>]

MCRoutes == [inbox |-> {"processing"}, processing |-> {"archive"}, archive |-> {}]

(* A boundary early in a history: where it is an inventory, everything is  *)
(* reversed that was done to the files it reaches.                         *)
MCOpenings == [by : {"mutation"}, id : {2}, scope : {"file", "installation"}]

Symmetry == Permutations(Files) \cup Permutations(Runs)
================================================================================
