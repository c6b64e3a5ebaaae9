------------------------ MODULE MCFileSetTransaction ------------------------
(* Small instances of FileSetTransaction. *)
EXTENDS FileSetTransaction

(* Paths in sorting order: the companion of a path sorts after it, and two *)
(* paths never share one.  The last path has its companion outside the     *)
(* ones a caller names, so it is its own here: redacting it is refused.    *)
MCCompanion == [d \in Destinations |->
                  IF d + 1 \in Destinations THEN d + 1 ELSE d]
=============================================================================
