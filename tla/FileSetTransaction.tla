-------------------------- MODULE FileSetTransaction -------------------------
(***************************************************************************)
(* Transactional file-set publication (rey_lib/files/file_transaction.py). *)
(* Every publisher runs publish_file_set once; a step is one externally    *)
(* visible file-system operation of it, and each may fail with OSError.    *)
(* A process may also die between two operations: there is no recovery     *)
(* code, so what a dead publisher left behind stays.                       *)
(*                                                                         *)
(* Paths are numbers, in the order publication sorts them by.              *)
(***************************************************************************)
EXTENDS Naturals

CONSTANTS Publishers,   \* the concurrent calls
          Destinations, \* the paths files may be published at
          Companion,    \* redacted_companion_path, by destination
          Absent, Original, Directory, Empty,  \* what can be at a path
          MaxFaults,    \* how many operations may fail (bounds the model)
          Subject       \* the call the refinement is stated for: any one

ASSUME PathAssumption ==
          /\ Destinations \subseteq Nat
          /\ Companion \in [Destinations -> Destinations]

ASSUME ContentAssumption ==
          /\ Absent \notin {Original, Directory, Empty}
          /\ Original \notin {Directory, Empty}
          /\ Directory # Empty
          /\ {Absent, Original, Directory, Empty} \cap Publishers = {}

ASSUME FaultAssumption == MaxFaults \in Nat

ASSUME SubjectAssumption == Subject \in Publishers

(* The content publisher p brings to a destination is named p itself. *)
Content == {Absent, Original, Directory, Empty} \cup Publishers

Member == [destination : Destinations, redacted : BOOLEAN]

Policies == {"fail", "replace"}

VARIABLES request,   \* the members each call was given
          policy,    \* its on_collision
          pc,        \* where the call stands
          todo,      \* the members its current loop has still to visit
          found,     \* destinations _check_collisions saw existing
          existed,   \* _StagedMember.existed
          backed,    \* members whose backup_path is set
          committed, \* _StagedMember.committed
          dest,      \* the files at the destinations
          staging,   \* the .staged temporary files, by publisher
          backup,    \* the .backup temporary files, by publisher
          before,    \* history: dest when the calls were made
          faults     \* operations that failed so far

call  == <<request, policy, before>>
local == <<pc, todo, found, existed, backed, committed>>
files == <<dest, staging, backup>>
vars  == <<call, local, files, faults>>

Working == {"validate", "check", "stage", "discard", "commit", "rollback",
            "cleanup"}
Returned == {"committed", "rolled_back", "rejected", "collided", "unstaged"}
Broken == {"incomplete", "discard_raised", "rollback_raised",
           "cleanup_raised", "crashed"}
Labels == Working \cup Returned \cup Broken

-----------------------------------------------------------------------------
(* The destinations of a call, its redacted companions included. *)
Members(p) ==
    {m.destination : m \in request[p]}
      \cup {Companion[m.destination] : m \in {n \in request[p] : n.redacted}}

(* Two members of the expanded set have one destination. *)
DeclaredTwice(p) ==
    \E m \in request[p] : \E n \in request[p] :
        \/ m # n /\ m.destination = n.destination
        \/ n.redacted /\ m.destination = Companion[n.destination]
        \/ /\ m # n /\ m.redacted /\ n.redacted
           /\ Companion[m.destination] = Companion[n.destination]

(* d is the member a loop of p visits now: members are visited in order. *)
Visits(p, d) == d \in todo[p] /\ \A e \in todo[p] : d <= e

Goto(p, label) == pc' = [pc EXCEPT ![p] = label]

Loop(p, label) == /\ Goto(p, label)
                  /\ todo' = [todo EXCEPT ![p] = Members(p)]

Visited(p, d) == todo' = [todo EXCEPT ![p] = @ \ {d}]

(* A file-system operation raises OSError. *)
Fault == /\ faults < MaxFaults
         /\ faults' = faults + 1

TypeOK ==
    /\ request \in [Publishers -> SUBSET Member]
    /\ policy \in [Publishers -> Policies]
    /\ pc \in [Publishers -> Labels]
    /\ todo \in [Publishers -> SUBSET Destinations]
    /\ found \in [Publishers -> SUBSET Destinations]
    /\ existed \in [Publishers -> SUBSET Destinations]
    /\ backed \in [Publishers -> SUBSET Destinations]
    /\ committed \in [Publishers -> SUBSET Destinations]
    /\ staging \in [Publishers -> SUBSET Destinations]
    /\ dest \in [Destinations -> Content]
    /\ before \in [Destinations -> Content]
    /\ backup \in [Publishers -> [Destinations -> Content]]
    /\ faults \in Nat

Init ==
    /\ request \in [Publishers -> SUBSET Member]
    /\ policy \in [Publishers -> Policies]
    /\ dest \in [Destinations -> {Absent, Original, Directory}]
    /\ before = dest
    /\ pc = [p \in Publishers |-> "validate"]
    /\ todo = [p \in Publishers |-> {}]
    /\ found = [p \in Publishers |-> {}]
    /\ existed = [p \in Publishers |-> {}]
    /\ backed = [p \in Publishers |-> {}]
    /\ committed = [p \in Publishers |-> {}]
    /\ staging = [p \in Publishers |-> {}]
    /\ backup = [p \in Publishers |-> [d \in Destinations |-> Absent]]
    /\ faults = 0

-----------------------------------------------------------------------------
(* _with_redacted_companions, _validate: nothing is touched. *)
Validate(p) ==
    /\ pc[p] = "validate"
    /\ IF request[p] = {} \/ DeclaredTwice(p)
       THEN Goto(p, "rejected") /\ UNCHANGED todo
       ELSE Loop(p, "check")
    /\ UNCHANGED <<call, found, existed, backed, committed, files, faults>>

(* _check_collisions looks at one destination. *)
Check(p) == \E d \in Destinations :
    /\ pc[p] = "check"
    /\ Visits(p, d)
    /\ IF dest[d] = Directory
       THEN Goto(p, "rejected") /\ UNCHANGED <<todo, found>>
       ELSE /\ Visited(p, d)
            /\ found' = [found EXCEPT ![p] =
                            IF dest[d] = Absent THEN @ ELSE @ \cup {d}]
            /\ UNCHANGED pc
    /\ UNCHANGED <<call, existed, backed, committed, files, faults>>

(* _check_collisions applies the policy to what it saw. *)
Decide(p) ==
    /\ pc[p] = "check"
    /\ todo[p] = {}
    /\ IF found[p] # {} /\ policy[p] = "fail"
       THEN Goto(p, "collided") /\ UNCHANGED todo
       ELSE Loop(p, "stage")
    /\ UNCHANGED <<call, found, existed, backed, committed, files, faults>>

(* One member is written beside its destination, its prior existence noted.*)
Stage(p) == \E d \in Destinations :
    /\ pc[p] = "stage"
    /\ Visits(p, d)
    /\ Visited(p, d)
    /\ existed' = [existed EXCEPT ![p] =
                      IF dest[d] \in {Absent, Directory} THEN @ ELSE @ \cup {d}]
    /\ staging' = [staging EXCEPT ![p] = @ \cup {d}]
    /\ UNCHANGED <<call, pc, found, backed, committed, dest, backup, faults>>

(* Staging a member raises OSError, and those staged before are discarded. *)
(* Its own file was not created, or _stage removed it, or it stays: when   *)
(* its size cannot be read or the removal itself raises.                   *)
StageFails(p) == \E d \in Destinations :
    /\ pc[p] = "stage"
    /\ Visits(p, d)
    /\ Fault
    /\ \E own \in {{}, {d}} : staging' = [staging EXCEPT ![p] = @ \cup own]
    /\ Goto(p, "discard")
    /\ todo' = [todo EXCEPT ![p] = Members(p) \ @]
    /\ UNCHANGED <<call, found, existed, backed, committed, dest, backup>>

(* The staged file is shorter than its payload: _stage removes it and      *)
(* raises FileSetTransactionError, which _stage_all does not catch.        *)
StageIncomplete(p) ==
    /\ pc[p] = "stage"
    /\ todo[p] # {}
    /\ Fault
    /\ Goto(p, "incomplete")
    /\ UNCHANGED <<call, todo, found, existed, backed, committed, files>>

(* Slip: the commit starts as soon as one member is staged. *)
StagedEarly(p) ==
    /\ pc[p] = "stage"
    /\ todo[p] # Members(p)
    /\ Loop(p, "commit")
    /\ UNCHANGED <<call, found, existed, backed, committed, files, faults>>

Staged(p) ==
    /\ pc[p] = "stage"
    /\ todo[p] = {}
    /\ Loop(p, "commit")
    /\ UNCHANGED <<call, found, existed, backed, committed, files, faults>>

(* _discard_staging removes one staged file; unlink may raise. *)
Discard(p) == \E d \in Destinations :
    /\ pc[p] = "discard"
    /\ Visits(p, d)
    /\ \/ /\ Visited(p, d)
          /\ staging' = [staging EXCEPT ![p] = @ \ {d}]
          /\ UNCHANGED <<pc, faults>>
       \/ /\ Fault
          /\ Goto(p, "discard_raised")
          /\ UNCHANGED <<todo, staging>>
    /\ UNCHANGED <<call, found, existed, backed, committed, dest, backup>>

Discarded(p) ==
    /\ pc[p] = "discard"
    /\ todo[p] = {}
    /\ Goto(p, "unstaged")
    /\ UNCHANGED <<call, todo, found, existed, backed, committed, files, faults>>

-----------------------------------------------------------------------------
(* Slip: what the backup keeps is the path. *)
BackupOfPath(p) == \E d \in Destinations :
    /\ pc[p] = "commit"
    /\ Visits(p, d)
    /\ d \in existed[p] \ backed[p]
    /\ backup' = [backup EXCEPT ![p][d] = d]
    /\ dest' = [dest EXCEPT ![d] = Absent]
    /\ backed' = [backed EXCEPT ![p] = @ \cup {d}]
    /\ UNCHANGED <<call, pc, todo, found, existed, committed, staging, faults>>

(* Slip: backup_path is set before the move. *)
BackupNotedFirst(p) == \E d \in Destinations :
    /\ pc[p] = "commit"
    /\ Visits(p, d)
    /\ d \in existed[p] \ backed[p]
    /\ backed' = [backed EXCEPT ![p] = @ \cup {d}]
    /\ backup' = [backup EXCEPT ![p][d] = IF dest[d] = Absent THEN Empty ELSE dest[d]]
    /\ dest' = [dest EXCEPT ![d] = Absent]
    /\ IF dest[d] = Absent THEN Loop(p, "rollback") ELSE UNCHANGED <<pc, todo>>
    /\ UNCHANGED <<call, found, existed, committed, staging, faults>>

(* _backup: mkstemp makes an empty file, os.replace moves the destination  *)
(* over it.  The move raises when the destination is gone, and then the    *)
(* empty file stays and backup_path is not set.                            *)
Backup(p) == \E d \in Destinations :
    /\ pc[p] = "commit"
    /\ Visits(p, d)
    /\ d \in existed[p] \ backed[p]
    /\ IF dest[d] # Absent
       THEN /\ backup' = [backup EXCEPT ![p][d] = dest[d]]
            /\ dest' = [dest EXCEPT ![d] = Absent]
            /\ backed' = [backed EXCEPT ![p] = @ \cup {d}]
            /\ UNCHANGED <<pc, todo>>
       ELSE /\ backup' = [backup EXCEPT ![p][d] = Empty]
            /\ Loop(p, "rollback")
            /\ UNCHANGED <<dest, backed>>
    /\ UNCHANGED <<call, found, existed, committed, staging, faults>>

(* mkstemp raises, or the move does and leaves its empty target. *)
BackupFails(p) == \E d \in Destinations :
    /\ pc[p] = "commit"
    /\ Visits(p, d)
    /\ d \in existed[p] \ backed[p]
    /\ Fault
    /\ \E c \in {Absent, Empty} : backup' = [backup EXCEPT ![p][d] = c]
    /\ Loop(p, "rollback")
    /\ UNCHANGED <<call, found, existed, backed, committed, dest, staging>>

(* Slip: a backup is removed as soon as its member is installed. *)
InstallDropsBackup(p) == \E d \in Destinations :
    /\ pc[p] = "commit"
    /\ Visits(p, d)
    /\ d \in existed[p] => d \in backed[p]
    /\ dest' = [dest EXCEPT ![d] = p]
    /\ staging' = [staging EXCEPT ![p] = @ \ {d}]
    /\ committed' = [committed EXCEPT ![p] = @ \cup {d}]
    /\ backup' = [backup EXCEPT ![p][d] = Absent]
    /\ IF todo[p] = {d} THEN Loop(p, "cleanup") ELSE Visited(p, d) /\ UNCHANGED pc
    /\ UNCHANGED <<call, found, existed, backed, faults>>

(* os.replace(staged_path, destination); item.committed = True *)
Install(p) == \E d \in Destinations :
    /\ pc[p] = "commit"
    /\ Visits(p, d)
    /\ d \in existed[p] => d \in backed[p]
    /\ dest' = [dest EXCEPT ![d] = p]
    /\ staging' = [staging EXCEPT ![p] = @ \ {d}]
    /\ committed' = [committed EXCEPT ![p] = @ \cup {d}]
    /\ IF todo[p] = {d}
       THEN Goto(p, "cleanup") /\ todo' = [todo EXCEPT ![p] = backed[p]]
       ELSE Visited(p, d) /\ UNCHANGED pc
    /\ UNCHANGED <<call, found, existed, backed, backup, faults>>

InstallFails(p) == \E d \in Destinations :
    /\ pc[p] = "commit"
    /\ Visits(p, d)
    /\ d \in existed[p] => d \in backed[p]
    /\ Fault
    /\ Loop(p, "rollback")
    /\ UNCHANGED <<call, found, existed, backed, committed, files>>

-----------------------------------------------------------------------------
(* _rollback: a member moved aside and never installed is put back, unless *)
(* something is at its path by now. *)
PutBack(p) == \E d \in Destinations :
    /\ pc[p] = "rollback"
    /\ Visits(p, d)
    /\ d \in backed[p] \ committed[p]
    /\ dest[d] = Absent /\ backup[p][d] # Absent
    /\ dest' = [dest EXCEPT ![d] = backup[p][d]]
    /\ backup' = [backup EXCEPT ![p][d] = Absent]
    /\ UNCHANGED <<call, local, staging, faults>>

(* Slip: only what replaced a file is undone. *)
UndoKeepsCreated(p, d) ==
    \/ /\ d \in committed[p]
       /\ dest' = [dest EXCEPT ![d] = IF d \in backed[p] THEN backup[p][d] ELSE @]
       /\ backup' = [backup EXCEPT ![p][d] = IF d \in backed[p] THEN Absent ELSE @]
       /\ UNCHANGED staging
    \/ /\ d \notin committed[p]
       /\ d \in backed[p] => dest[d] # Absent \/ backup[p][d] = Absent
       /\ staging' = [staging EXCEPT ![p] = @ \ {d}]
       /\ UNCHANGED <<dest, backup>>

(* Slip: the member whose installation failed is not put back. *)
UndoForgetsMovedAside(p, d) ==
    \/ /\ d \in committed[p]
       /\ dest' = [dest EXCEPT ![d] = IF d \in backed[p] THEN backup[p][d] ELSE Absent]
       /\ backup' = [backup EXCEPT ![p][d] = IF d \in backed[p] THEN Absent ELSE @]
       /\ UNCHANGED staging
    \/ /\ d \notin committed[p]
       /\ staging' = [staging EXCEPT ![p] = @ \ {d}]
       /\ UNCHANGED <<dest, backup>>

(* Slip: the staged files of members never installed stay. *)
UndoKeepsStaging(p, d) ==
    \/ /\ d \in committed[p]
       /\ dest' = [dest EXCEPT ![d] = IF d \in backed[p] THEN backup[p][d] ELSE Absent]
       /\ backup' = [backup EXCEPT ![p][d] = IF d \in backed[p] THEN Absent ELSE @]
       /\ UNCHANGED staging
    \/ /\ d \notin committed[p]
       /\ d \in backed[p] => dest[d] # Absent \/ backup[p][d] = Absent
       /\ UNCHANGED files

(* What ends the visit of one member: the undoing of its installation, or  *)
(* the removal of its staged file.                                         *)
Undo(p, d) ==
    \/ /\ d \in committed[p]
       /\ dest' = [dest EXCEPT ![d] = IF d \in backed[p] THEN backup[p][d] ELSE Absent]
       /\ backup' = [backup EXCEPT ![p][d] = IF d \in backed[p] THEN Absent ELSE @]
       /\ UNCHANGED staging
    \/ /\ d \notin committed[p]
       /\ d \in backed[p] => dest[d] # Absent \/ backup[p][d] = Absent
       /\ staging' = [staging EXCEPT ![p] = @ \ {d}]
       /\ UNCHANGED <<dest, backup>>

(* _rollback visits one member.  The last one returns: FileSetCommitError. *)
Rollback(p) == \E d \in Destinations :
    /\ pc[p] = "rollback"
    /\ Visits(p, d)
    /\ Undo(p, d)
    /\ Visited(p, d)
    /\ IF todo[p] = {d} THEN Goto(p, "rolled_back") ELSE UNCHANGED pc
    /\ UNCHANGED <<call, found, existed, backed, committed, faults>>

(* An operation of _rollback raises: the rest of the set is not undone and *)
(* the caller sees the operating system's error.                           *)
RollbackFails(p) ==
    /\ pc[p] = "rollback"
    /\ Fault
    /\ Goto(p, "rollback_raised")
    /\ UNCHANGED <<call, todo, found, existed, backed, committed, files>>

(* The set is committed: _commit_all removes one backup. *)
Cleanup(p) == \E d \in Destinations :
    /\ pc[p] = "cleanup"
    /\ Visits(p, d)
    /\ \/ /\ Visited(p, d)
          /\ backup' = [backup EXCEPT ![p][d] = Absent]
          /\ UNCHANGED <<pc, faults>>
       \/ /\ Fault
          /\ Goto(p, "cleanup_raised")
          /\ UNCHANGED <<todo, backup>>
    /\ UNCHANGED <<call, found, existed, backed, committed, dest, staging>>

Return(p) ==
    /\ pc[p] = "cleanup"
    /\ todo[p] = {}
    /\ Goto(p, "committed")
    /\ UNCHANGED <<call, todo, found, existed, backed, committed, files, faults>>

(* The process dies. *)
Crash(p) ==
    /\ pc[p] \in Working
    /\ Fault
    /\ Goto(p, "crashed")
    /\ UNCHANGED <<call, todo, found, existed, backed, committed, files>>

Step(p) ==
    \/ Validate(p) \/ Check(p) \/ Decide(p)
    \/ Stage(p) \/ StageFails(p) \/ StageIncomplete(p) \/ Staged(p)
    \/ Discard(p) \/ Discarded(p)
    \/ Backup(p) \/ BackupFails(p) \/ Install(p) \/ InstallFails(p)
    \/ PutBack(p) \/ Rollback(p) \/ RollbackFails(p)
    \/ Cleanup(p) \/ Return(p)
    \/ Crash(p)

Next == \E p \in Publishers : Step(p)

Spec == Init /\ [][Next]_vars

(* No two calls publish at one path: what the module leaves to its callers *)
(* (it takes no lock).                                                     *)
Exclusive == \A p, q \in Publishers : p # q => Members(p) \cap Members(q) = {}

ExclusiveInit == Init /\ Exclusive

ExclusiveSpec == ExclusiveInit /\ [][Next]_vars

-----------------------------------------------------------------------------
(* The set is published: every member was installed, none can be undone.   *)
Sealed(p) == \/ pc[p] \in {"cleanup", "cleanup_raised", "committed"}
             \/ pc[p] = "crashed" /\ committed[p] = Members(p)

Untouched(p) == \A d \in Members(p) : dest[d] = before[d]

(* The call ended without publishing, and had nothing left to undo. *)
Undone == (Returned \ {"committed"}) \cup {"incomplete", "discard_raised"}

(* The set-scope promise of publish_file_set: when the commit loop ended   *)
(* every destination is the new one, and when the call was refused, could  *)
(* not stage, or was rolled back, every destination is what it was before  *)
(* the call -- whatever operations failed on the way.                      *)
AllOrNothing ==
    \A p \in Publishers :
        /\ Sealed(p) => \A d \in Members(p) : dest[d] = p
        /\ pc[p] \in Undone => Untouched(p)

(* A replaced file is never destroyed before the whole set is installed:   *)
(* in every state, after a crash between two operations or a rollback that *)
(* itself failed included, its content is at its path or in a backup.      *)
OriginalRecoverable ==
    \A p \in Publishers : \A d \in Members(p) :
        before[d] = Original /\ ~Sealed(p) =>
            dest[d] = Original \/ backup[p][d] = Original

(* "Nothing reaches a final destination until every member has been staged *)
(* successfully": while a destination of the call has changed, each member *)
(* is installed or still staged beside its destination, until the undoing  *)
(* of a failed commit begins.                                              *)
StagedBeforeTouched ==
    \A p \in Publishers :
        pc[p] \in Working \ {"rollback"} /\ ~Untouched(p) =>
            Members(p) = committed[p] \cup staging[p]

(* A call that returns, or raises one of its own errors after undoing,     *)
(* leaves no backup with content (the empty target of a failed _backup may *)
(* stay) and no staged file.  Where staging failed there may be one, of    *)
(* the member it failed for; those staged before are gone.                 *)
NothingLeftBehind ==
    \A p \in Publishers : pc[p] \in Returned =>
        /\ \A d, e \in staging[p] : pc[p] = "unstaged" /\ d = e
        /\ \A d \in Destinations : backup[p][d] \in {Absent, Empty}

(* "Existing destinations are never silently overwritten" of on_collision: *)
(* a call under "fail" published over nothing another call had published.  *)
NeverOverwritten ==
    \A p, q \in Publishers :
        p # q /\ policy[p] = "fail" /\ pc[p] = "committed" /\ pc[q] = "committed" =>
            \A d \in Members(q) : dest[d] # p

(* "No destination is ever seen partially written": even with calls that   *)
(* share destinations, failing and dying anywhere, no path ever holds the  *)
(* empty file _backup creates, or anything but a whole file.               *)
NeverPartiallyWritten == \A d \in Destinations : dest[d] # Empty

-----------------------------------------------------------------------------
(* The call Subject, which may be any one, implements AtomicPublication on *)
(* its own destinations.                                                   *)
Outcome ==
    IF Sealed(Subject) THEN "published"
    ELSE IF pc[Subject] \in Undone THEN "restored"
    ELSE IF pc[Subject] \in Working THEN "working"
    ELSE "interrupted"

Atomic == INSTANCE AtomicPublication WITH
              New <- Subject,
              view <- [d \in Members(Subject) |-> dest[d]],
              before <- [d \in Members(Subject) |-> before[d]],
              outcome <- Outcome

(* With exclusive destinations a call goes from "as it was" to "all new"   *)
(* or back, and its destinations only ever hold old, missing or new        *)
(* content meanwhile.                                                      *)
ImplementsAtomic == Atomic!Spec
=============================================================================
