-------------------------- MODULE AtomicPublication --------------------------
(***************************************************************************)
(* What rey_lib.files.file_transaction promises one caller: the set of     *)
(* destinations goes from what it was to the complete new set, or is left  *)
(* exactly as it was found.  Destinations change one file at a time, so    *)
(* while the call works any of them may be seen old, missing or new, never *)
(* anything else; what is atomic is the outcome.                           *)
(***************************************************************************)
CONSTANTS Absent,   \* there is no file at a destination
          New       \* the content the publication brings

VARIABLES before,   \* what each destination held when the call was made
          view,     \* what each destination holds
          outcome   \* how the call stands

avars == <<before, view, outcome>>

Published == [d \in DOMAIN before |-> New]

Init == /\ view = before
        /\ outcome = "working"

(* One destination is moved aside, installed or put back. *)
Expose == /\ outcome = "working"
          /\ \E d \in DOMAIN before : \E c \in {Absent, New, before[d]} :
                view' = [view EXCEPT ![d] = c]
          /\ UNCHANGED <<before, outcome>>

(* The call becomes irrevocable: every destination is new. *)
Publish == /\ outcome = "working"
           /\ view' = Published
           /\ outcome' = "published"
           /\ UNCHANGED before

(* The call is refused or undone: every destination is what it was. *)
Restore == /\ outcome = "working"
           /\ view' = before
           /\ outcome' = "restored"
           /\ UNCHANGED before

(* The process died, or undoing failed: nothing is promised of the rest. *)
Interrupt == /\ outcome = "working"
             /\ outcome' = "interrupted"
             /\ UNCHANGED <<before, view>>

Next == Expose \/ Publish \/ Restore \/ Interrupt

Spec == Init /\ [][Next]_avars
=============================================================================
