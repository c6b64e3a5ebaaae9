---------------------------- MODULE OrderedRelease -----------------------------
(***************************************************************************)
(* What Workflow.direct promises: the selected steps are settled one after *)
(* another, in their order; an ordinary step after a failed one, or an     *)
(* apply_only one in a dry run, is settled as NOT RUN and nothing else is; *)
(* the outcome is that of the steps.  A direction may be broken off, and   *)
(* is then FAILED.                                                         *)
(***************************************************************************)
EXTENDS Naturals

CONSTANTS Steps

VARIABLES selected,  \* the steps of this direction
          barred,    \* of those, the ones the direction's rules hold back
                     \* whatever happens
          eager,     \* always_run
          result,    \* by step: "none" or how it was settled
          state      \* the Workflow's state

vars == <<selected, barred, eager, result, state>>

Unsettled == [i \in Steps |-> "none"]

Failure == \E i \in selected : result[i] = "FAILED"

Init ==
    /\ selected = {} /\ barred \subseteq Steps /\ eager \subseteq Steps
    /\ result = Unsettled
    /\ state = "IDLE"

Direct ==
    /\ state # "RUNNING" /\ state' = "RUNNING"
    /\ selected' \subseteq Steps /\ barred' \subseteq Steps
    /\ result' = Unsettled
    /\ UNCHANGED eager

Settle == \E i \in selected :
    /\ state = "RUNNING" /\ result[i] = "none"
    /\ \A j \in selected : j < i => result[j] # "none"
    /\ \E s \in IF i \in barred \/ (Failure /\ i \notin eager) THEN {"NOT RUN"}
                ELSE {"SUCCEEDED", "FAILED", "SKIPPED"} :
          result' = [result EXCEPT ![i] = s]
    /\ UNCHANGED <<selected, barred, eager, state>>

Complete ==
    /\ state = "RUNNING"
    /\ \A i \in selected : result[i] # "none"
    /\ state' = IF Failure THEN "FAILED" ELSE "SUCCEEDED"
    /\ UNCHANGED <<selected, barred, eager, result>>

(* A disabled Workflow refuses; a selection, a record or a Run that cannot *)
(* be had, a broken contract and a termination break off.                  *)
BreakOff ==
    /\ state' = "FAILED" \/ (state' = "IDLE" /\ result = Unsettled)
    /\ result' = result
    /\ UNCHANGED <<selected, barred, eager>>

(* A direction that ends before anything is selected: a selection that     *)
(* fails closed, or a termination of the process between directions.       *)
Refuse ==
    /\ state # "RUNNING"
    /\ state' \in {"FAILED", "IDLE"}
    /\ selected' = {} /\ barred' \subseteq Steps
    /\ result' = Unsettled
    /\ UNCHANGED eager

Next == Direct \/ Settle \/ Complete \/ (state = "RUNNING" /\ BreakOff) \/ Refuse

Spec == Init /\ [][Next]_vars
================================================================================
