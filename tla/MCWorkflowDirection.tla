-------------------------- MODULE MCWorkflowDirection --------------------------
(* Three steps of two processes that interleave: A holds 1 and 3, B 2.     *)
EXTENDS WorkflowDirection

MCProcessOf == [i \in Steps |-> IF i = 2 THEN "B" ELSE "A"]

(* An identifier of one step, and one that matches two. *)
MCMeans == [x \in Identifiers |-> CASE x = "second" -> {2} [] x = "third" -> {3} [] OTHER -> {1, 3}]

MCRules == {r \in Rule : r.always \in {{3}, {2, 3}} /\ r.applyOnly = {2}}

Whole == [step |-> Anything, from |-> Anything, to |-> Anything,
          apply |-> TRUE, enabled |-> TRUE]

(* Everything, in earnest and dry; one step, one process; ranges, one of   *)
(* them reversed and one by a process that does not stand together; what   *)
(* is ambiguous, contradictory or switched off.                            *)
MCRequests ==
    {Whole, [Whole EXCEPT !.apply = FALSE], [Whole EXCEPT !.enabled = FALSE],
     [Whole EXCEPT !.step = "A"], [Whole EXCEPT !.step = "second"],
     [Whole EXCEPT !.step = "twice"],
     [Whole EXCEPT !.to = "B"],
     [Whole EXCEPT !.from = "second", !.to = "A"],
     [Whole EXCEPT !.from = "third", !.to = "second"],
     [Whole EXCEPT !.step = "A", !.from = "A"]}

(* Before the first direction nothing was asked.  The second asks for one  *)
(* step, or, where the first was about all of them, for all again.         *)
MCInit == Init /\ request = Whole

MCNext == /\ Next
          /\ directions' = 2 =>
                \/ request' = [Whole EXCEPT !.step = "second"]
                \/ /\ request' = Whole
                   /\ \/ directions = 2
                      \/ request \in {Whole, [Whole EXCEPT !.apply = FALSE]}

MCSpec == MCInit /\ [][MCNext]_vars
================================================================================
