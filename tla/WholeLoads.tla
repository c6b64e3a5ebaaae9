------------------------------ MODULE WholeLoads -------------------------------
(***************************************************************************)
(* What a load promises of its destination: a file's records come into it  *)
(* all at once and once each -- in place of what was there where the load  *)
(* replaces, beside it where it adds -- or nothing changes.                *)
(***************************************************************************)
EXTENDS Integers

CONSTANTS Files,     \* the files loaded
          Contents   \* the records of a file, as a table holding only them

VARIABLES rows,       \* how often each record is in the destination
          replacing   \* the load's policy

Beside(held, new) == [p \in DOMAIN held |-> held[p] + new[p]]

Load(f) == /\ rows' = IF replacing THEN Contents[f] ELSE Beside(rows, Contents[f])
           /\ UNCHANGED replacing

Next == \E f \in Files : Load(f)

Spec == [][Next]_<<rows, replacing>>
================================================================================
