---------------------------- MODULE MCAppRouting ----------------------------
(* Small instances of AppRouting. *)
EXTENDS AppRouting

CONSTANTS left, right,         \* applications
          crossing, meeting    \* requests

(* crossing and meeting cross each other. *)
MCAsker == [q \in Requests |-> IF q = meeting THEN right ELSE left]
MCTarget == [q \in Requests |->
               IF q = crossing THEN right ELSE left]
=============================================================================
