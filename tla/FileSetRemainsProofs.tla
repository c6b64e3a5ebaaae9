-------------------------- MODULE FileSetRemainsProofs -------------------------
(***************************************************************************)
(* Proofs about what a call of FileSetTransaction keeps beside its         *)
(* destinations: its staged files, its backups and their content.          *)
(***************************************************************************)
EXTENDS FileSetTransactionProofs

-----------------------------------------------------------------------------
(* Nothing empty is at a path, or kept as a file that was moved aside.     *)
WholeInv ==
    /\ NeverPartiallyWritten
    /\ \A p \in Publishers : \A d \in backed[p] : backup[p][d] # Empty

(* Every step of every call keeps files whole, whoever shares its paths:   *)
(* _backup leaves its empty file only where backup_path is not set.        *)
LEMMA WholeStep == TypeOK /\ WholeInv /\ [Next]_vars => WholeInv'
<1> SUFFICES ASSUME TypeOK, WholeInv, [Next]_vars PROVE WholeInv'
  OBVIOUS
<1> USE DEF WholeInv, NeverPartiallyWritten
<1>1. CASE UNCHANGED vars
  BY <1>1 DEF vars, local, files
<1>2. ASSUME NEW p \in Publishers, Step(p) PROVE WholeInv'
  <2>1. CASE Backup(p)
    <3>1. PICK d \in Destinations : Backup(p)!(d)
      BY <2>1 DEF Backup
    <3>2. \A e \in Destinations : dest'[e] \in {dest[e], Absent}
      BY <3>1 DEF TypeOK
    <3>3. \A e \in backed'[p] : backup'[p][e] # Empty
      BY <3>1 DEF TypeOK
    <3>4. \A q \in Publishers \ {p} :
             backed'[q] = backed[q] /\ backup'[q] = backup[q]
      BY <3>1 DEF TypeOK
    <3>5. QED
      BY <3>2, <3>3, <3>4, ContentAssumption
  <2>2. CASE BackupFails(p)
    <3>1. PICK d \in Destinations : BackupFails(p)!(d)
      BY <2>2 DEF BackupFails
    <3>2. dest' = dest /\ backed' = backed /\ d \notin backed[p]
      BY <3>1
    <3>3. \A q \in Publishers : \A e \in backed[q] : backup'[q][e] = backup[q][e]
      BY <3>1 DEF TypeOK
    <3>4. QED
      BY <3>2, <3>3
  <2>3. CASE Install(p)
    BY <2>3, ContentAssumption DEF Install, TypeOK
  <2>4. CASE PutBack(p)
    <3>1. PICK d \in Destinations : PutBack(p)!(d)
      BY <2>4 DEF PutBack
    <3>2. \A q \in Publishers : \A e \in backed[q] :
             backup'[q][e] \in {backup[q][e], Absent}
      <4>1. backup \in [Publishers -> [Destinations -> Content]]
        BY DEF TypeOK
      <4>2. backup' = [backup EXCEPT ![p][d] = Absent]
        BY <3>1
      <4>3. \A q \in Publishers : backed[q] \subseteq Destinations
        BY DEF TypeOK
      <4>4. QED
        BY <4>1, <4>2, <4>3
    <3>3. QED
      BY <3>1, <3>2, ContentAssumption DEF TypeOK, local
  <2>5. CASE Rollback(p)
    <3>1. PICK d \in Destinations : Rollback(p)!(d)
      BY <2>5 DEF Rollback
    <3>2. \A q \in Publishers : \A e \in backed[q] :
             backup'[q][e] \in {backup[q][e], Absent}
      <4>1. backup \in [Publishers -> [Destinations -> Content]]
        BY DEF TypeOK
      <4>2. backup' = [backup EXCEPT ![p][d] = Absent] \/ backup' = backup
        <5>1. CASE d \in backed[p]
          BY <3>1, <5>1 DEF Undo
        <5>2. CASE d \notin backed[p]
          <6>1. [backup EXCEPT ![p][d] = backup[p][d]] = backup
            BY <4>1
          <6>2. backup' = [backup EXCEPT ![p][d] = backup[p][d]] \/ backup' = backup
            BY <3>1, <5>2, <4>1 DEF Undo
          <6>3. QED
            BY <6>1, <6>2
        <5>3. QED
          BY <5>1, <5>2
      <4>3. \A q \in Publishers : backed[q] \subseteq Destinations
        BY DEF TypeOK
      <4>4. QED
        BY <4>1, <4>2, <4>3
    <3>3. \A e \in Destinations : dest'[e] # Empty
      BY <3>1, ContentAssumption DEF TypeOK, Undo
    <3>4. QED
      BY <3>1, <3>2, <3>3, ContentAssumption
  <2>6. CASE Cleanup(p)
    <3>1. PICK d \in Destinations : Cleanup(p)!(d)
      BY <2>6 DEF Cleanup
    <3>2. \A q \in Publishers : \A e \in backed[q] :
             backup'[q][e] \in {backup[q][e], Absent}
      <4>1. backup \in [Publishers -> [Destinations -> Content]]
        BY DEF TypeOK
      <4>2. backup' = [backup EXCEPT ![p][d] = Absent] \/ backup' = backup
        BY <3>1
      <4>3. \A q \in Publishers : backed[q] \subseteq Destinations
        BY DEF TypeOK
      <4>4. QED
        BY <4>1, <4>2, <4>3
    <3>3. QED
      BY <3>1, <3>2, ContentAssumption
  <2>7. QED
    BY <1>2, <2>1, <2>2, <2>3, <2>4, <2>5, <2>6
       DEF Step, files, Validate, Check, Decide, Stage, StageFails,
           StageIncomplete, Staged, Discard, Discarded, InstallFails,
           RollbackFails, Return, Crash
<1>3. QED
  BY <1>1, <1>2 DEF Next

(* No path ever shows a file that is not whole, with any number of calls   *)
(* that share paths, fail and die: the temporary file of _backup is never  *)
(* what is put back.                                                       *)
THEOREM FilesAreWhole == Spec => []NeverPartiallyWritten
<1>1. Init => WholeInv
  BY ContentAssumption DEF Init, WholeInv, NeverPartiallyWritten
<1>2. WholeInv => NeverPartiallyWritten
  BY DEF WholeInv
<1>3. QED
  BY <1>1, <1>2, WholeStep, TypeCorrect, PTL DEF Spec

-----------------------------------------------------------------------------
(* What each stretch of a call keeps in temporary files. *)

NoContentKept(p) == \A d \in Destinations : backup[p][d] \in {Absent, Empty}

StagingInv(p) ==
    /\ pc[p] \in {"validate", "check", "rejected", "collided"} => staging[p] = {}
    /\ pc[p] = "stage" => staging[p] = Members(p) \ todo[p]
    /\ pc[p] = "discard" =>
          \A d, e \in staging[p] \ todo[p] : d = e
    /\ pc[p] = "unstaged" => \A d, e \in staging[p] : d = e
    /\ pc[p] = "commit" => staging[p] = Members(p) \ committed[p]
    /\ pc[p] = "rollback" => staging[p] \subseteq todo[p] \ committed[p]
    /\ pc[p] \in {"rolled_back", "cleanup", "committed"} => staging[p] = {}

(* A file moved aside and not installed is in its backup or back at its    *)
(* path, never both: what _rollback tests tells which.                     *)
BackupInv(p) ==
    /\ pc[p] \in Prelude => \A d \in Destinations : backup[p][d] = Absent
    /\ pc[p] \in {"rolled_back", "committed"} => NoContentKept(p)
    /\ pc[p] = "commit" =>
          \A d \in Destinations \ backed[p] : backup[p][d] = Absent
    /\ pc[p] = "rollback" =>
          /\ \A d \in Destinations : \/ backup[p][d] \in {Absent, Empty}
                                     \/ d \in backed[p] \cap todo[p]
          /\ \A d \in backed[p] \ committed[p] :
                dest[d] = Absent \/ backup[p][d] = Absent
    /\ pc[p] = "cleanup" =>
          \A d \in Destinations \ todo[p] : backup[p][d] \in {Absent, Empty}

RemainsInv == \A p \in Publishers : StagingInv(p) /\ BackupInv(p)

(* A step of one call leaves the staged files of another alone. *)
LEMMA OtherStaging ==
    ASSUME TypeOK, NEW p \in Publishers, NEW q \in Publishers, p # q, Step(p)
    PROVE  staging'[q] = staging[q]
BY DEF Step, TypeOK, files, Validate, Check, Decide, Stage, StageFails,
       StageIncomplete, Staged, Discard, Discarded, Backup, BackupFails,
       Install, InstallFails, PutBack, Rollback, Undo, RollbackFails, Cleanup,
       Return, Crash

(* A call's own steps keep track of its staged files. *)
LEMMA OwnStaging ==
    ASSUME TypeOK, NEW p \in Publishers, CallInv(p), StagingInv(p), Step(p)
    PROVE  StagingInv(p)'
<1>0. Members(p)' = Members(p)
  BY DEF Step, Members, call, Validate, Check, Decide, Stage, StageFails,
         StageIncomplete, Staged, Discard, Discarded, Backup, BackupFails,
         Install, InstallFails, PutBack, Rollback, RollbackFails, Cleanup, Return, Crash
<1> USE <1>0 DEF TypeOK, CallInv, PreludeInv, CommitInv, RollbackInv,
        StagingInv, Prelude, Goto, Loop, Visited, Visits, Fault, call, files
<1>1. CASE Validate(p)
  BY <1>1 DEF Validate
<1>2. CASE Check(p)
  BY <1>2 DEF Check
<1>3. CASE Decide(p)
  BY <1>3 DEF Decide
<1>4. CASE Stage(p)
  BY <1>4 DEF Stage
<1>5. CASE StageFails(p)
  BY <1>5 DEF StageFails
<1>6. CASE StageIncomplete(p)
  BY <1>6 DEF StageIncomplete
<1>7. CASE Staged(p)
  BY <1>7 DEF Staged
<1>8. CASE Discard(p)
  <2>1. PICK d \in Destinations : Discard(p)!(d)
    BY <1>8 DEF Discard
  <2>2. CASE todo'[p] = todo[p] \ {d} /\ staging'[p] = staging[p] \ {d}
    BY <2>1, <2>2
  <2>3. CASE pc'[p] = "discard_raised"
    BY <2>3
  <2>4. QED
    BY <2>1, <2>2, <2>3
<1>9. CASE Discarded(p)
  BY <1>9 DEF Discarded
<1>10. CASE Backup(p)
  BY <1>10 DEF Backup
<1>11. CASE BackupFails(p)
  BY <1>11 DEF BackupFails
<1>12. CASE Install(p)
  BY <1>12 DEF Install
<1>13. CASE InstallFails(p)
  BY <1>13 DEF InstallFails
<1>14. CASE Rollback(p)
  BY <1>14 DEF Rollback, Undo
<1>15. CASE PutBack(p)
  BY <1>15 DEF PutBack, local
<1>16. CASE RollbackFails(p)
  BY <1>16 DEF RollbackFails
<1>17. CASE Cleanup(p)
  BY <1>17 DEF Cleanup
<1>18. CASE Return(p)
  BY <1>18 DEF Return
<1>19. CASE Crash(p)
  BY <1>19 DEF Crash
<1>20. QED
  BY <1>1, <1>2, <1>3, <1>4, <1>5, <1>6, <1>7, <1>8, <1>9, <1>10, <1>11,
     <1>12, <1>13, <1>14, <1>15, <1>16, <1>17, <1>18, <1>19 DEF Step

(* A call's own steps keep track of its backups. *)
LEMMA OwnBackups ==
    ASSUME TypeOK, NEW p \in Publishers, CallInv(p), BackupInv(p), Step(p)
    PROVE  BackupInv(p)'
<1> USE DEF TypeOK, CallInv, CommitInv, RollbackInv, BackupInv, NoContentKept,
        Prelude, Goto, Loop, Visited, Visits, Fault, call, files
<1>1. CASE Validate(p)
  BY <1>1 DEF Validate
<1>2. CASE Check(p)
  BY <1>2 DEF Check
<1>3. CASE Decide(p)
  BY <1>3 DEF Decide
<1>4. CASE Stage(p)
  BY <1>4 DEF Stage
<1>5. CASE StageFails(p)
  BY <1>5 DEF StageFails
<1>6. CASE StageIncomplete(p)
  BY <1>6 DEF StageIncomplete
<1>7. CASE Staged(p)
  BY <1>7 DEF Staged
<1>8. CASE Discard(p)
  BY <1>8 DEF Discard
<1>9. CASE Discarded(p)
  BY <1>9 DEF Discarded
<1>10. CASE Backup(p)
  <2>1. PICK d \in Destinations : Backup(p)!(d)
    BY <1>10 DEF Backup
  <2>2. \A e \in Destinations \ {d} : backup'[p][e] = backup[p][e]
    BY <2>1
  <2>3. CASE dest[d] # Absent
    <3>1. pc'[p] = "commit" /\ backed'[p] = backed[p] \cup {d}
      BY <2>1, <2>3
    <3>2. QED
      BY <2>1, <2>2, <3>1
  <2>4. CASE dest[d] = Absent
    <3>1. /\ pc'[p] = "rollback" /\ todo'[p] = Members(p)
          /\ backup'[p][d] = Empty
          /\ UNCHANGED <<backed, committed, dest>>
      BY <2>1, <2>4
    <3>2. \A e \in backed[p] \ committed[p] : dest[e] = Absent
      BY <2>1 DEF Shape
    <3>3. \A e \in Destinations : \/ backup'[p][e] \in {Absent, Empty}
                                  \/ e \in backed'[p] \cap todo'[p]
      BY <2>1, <2>2, <3>1
    <3>4. QED
      BY <3>1, <3>2, <3>3
  <2>5. QED
    BY <2>3, <2>4
<1>11. CASE BackupFails(p)
  <2>1. PICK d \in Destinations : BackupFails(p)!(d)
    BY <1>11 DEF BackupFails
  <2>2. \A e \in Destinations \ {d} : backup'[p][e] = backup[p][e]
    BY <2>1
  <2>3. /\ pc'[p] = "rollback" /\ todo'[p] = Members(p)
        /\ backup'[p][d] \in {Absent, Empty}
        /\ UNCHANGED <<backed, committed, dest>>
    BY <2>1
  <2>4. \A e \in backed[p] \ committed[p] : dest[e] = Absent
    BY <2>1 DEF Shape
  <2>5. \A e \in Destinations : \/ backup'[p][e] \in {Absent, Empty}
                                \/ e \in backed'[p] \cap todo'[p]
    BY <2>1, <2>2, <2>3
  <2>6. QED
    BY <2>3, <2>4, <2>5
<1>12. CASE Install(p)
  BY <1>12 DEF Install
<1>13. CASE InstallFails(p)
  <2>1. /\ pc[p] = "commit" /\ pc'[p] = "rollback" /\ todo'[p] = Members(p)'
        /\ UNCHANGED <<backed, committed, dest, backup>>
    BY <1>13 DEF InstallFails, Members
  <2>2. \A e \in backed[p] \ committed[p] : dest[e] = Absent
    BY <2>1 DEF Shape
  <2>3. backed[p] \subseteq todo'[p]
    BY <1>13 DEF InstallFails, Members
  <2>4. QED
    BY <2>1, <2>2, <2>3
<1>14. CASE Rollback(p)
  <2>1. PICK d \in Destinations : Rollback(p)!(d)
    BY <1>14 DEF Rollback
  <2>2. \A e \in Destinations \ {d} :
           backup'[p][e] = backup[p][e] /\ dest'[e] = dest[e]
    BY <2>1 DEF Undo
  <2>3. backup'[p][d] \in {Absent, Empty}
    BY <2>1 DEF Undo
  <2>4. /\ todo'[p] = todo[p] \ {d} /\ UNCHANGED <<backed, committed>>
        /\ pc'[p] = IF todo[p] = {d} THEN "rolled_back" ELSE "rollback"
    BY <2>1
  <2>5. d \notin committed[p] =>
           dest'[d] = dest[d] /\ backup'[p][d] = backup[p][d]
    BY <2>1 DEF Undo
  <2>6. \A e \in Destinations : \/ backup'[p][e] \in {Absent, Empty}
                               \/ e \in backed'[p] \cap todo'[p]
    BY <2>1, <2>2, <2>3, <2>4
  <2>7. \A e \in backed'[p] \ committed'[p] :
           dest'[e] = Absent \/ backup'[p][e] = Absent
    BY <2>1, <2>2, <2>4, <2>5
  <2>8. QED
    BY <2>4, <2>6, <2>7
<1>15. CASE PutBack(p)
  BY <1>15 DEF PutBack, local
<1>16. CASE RollbackFails(p)
  BY <1>16 DEF RollbackFails
<1>17. CASE Cleanup(p)
  <2>1. PICK d \in Destinations : Cleanup(p)!(d)
    BY <1>17 DEF Cleanup
  <2>2. CASE pc' = pc /\ Visited(p, d) /\ backup' = [backup EXCEPT ![p][d] = Absent]
    <3>1. \A e \in Destinations \ {d} : backup'[p][e] = backup[p][e]
      BY <2>2
    <3>2. backup'[p][d] = Absent /\ todo'[p] = todo[p] \ {d}
      BY <2>2
    <3>3. QED
      BY <2>1, <2>2, <3>1, <3>2
  <2>3. CASE pc'[p] = "cleanup_raised"
    BY <2>3
  <2>4. QED
    BY <2>1, <2>2, <2>3
<1>18. CASE Return(p)
  BY <1>18 DEF Return
<1>19. CASE Crash(p)
  BY <1>19 DEF Crash
<1>20. QED
  BY <1>1, <1>2, <1>3, <1>4, <1>5, <1>6, <1>7, <1>8, <1>9, <1>10, <1>11,
     <1>12, <1>13, <1>14, <1>15, <1>16, <1>17, <1>18, <1>19 DEF Step

(* As long as no other call publishes at its paths, each call keeps track  *)
(* of its temporary files.                                                 *)
LEMMA RemainsStep ==
    TypeOK /\ Exclusive /\ IInv /\ RemainsInv /\ [Next]_vars => RemainsInv'
<1> SUFFICES ASSUME TypeOK, Exclusive, IInv, RemainsInv, [Next]_vars
             PROVE  RemainsInv'
  OBVIOUS
<1>1. CASE UNCHANGED vars
  BY <1>1 DEF vars, call, local, files, RemainsInv, StagingInv, BackupInv,
              NoContentKept, Members
<1>2. ASSUME NEW p \in Publishers, Step(p) PROVE RemainsInv'
  <2>1. StagingInv(p)' /\ BackupInv(p)'
    BY <1>2, OwnStaging, OwnBackups DEF IInv, RemainsInv
  <2>2. ASSUME NEW q \in Publishers, p # q
        PROVE  StagingInv(q)' /\ BackupInv(q)'
    <3>1. CallInv(q) /\ todo[p] \subseteq Members(p)
      BY DEF IInv, CallInv
    <3>2. /\ pc'[q] = pc[q] /\ todo'[q] = todo[q] /\ backed'[q] = backed[q]
          /\ committed'[q] = committed[q] /\ backup'[q] = backup[q]
          /\ UNCHANGED call
          /\ \A d \in Destinations \ Members(p) : dest'[d] = dest[d]
          /\ staging'[q] = staging[q]
      BY <1>2, <2>2, <3>1, OtherCalls, OtherStaging
    <3>3. Members(q)' = Members(q)
      BY <3>2 DEF Members, call
    <3>4. \A d \in backed[q] : dest'[d] = dest[d]
      BY <2>2, <3>1, <3>2, MembersType DEF Exclusive, CallInv
    <3>5. StagingInv(q) /\ BackupInv(q)
      BY DEF RemainsInv
    <3>6. QED
      BY <3>2, <3>3, <3>4, <3>5 DEF StagingInv, BackupInv, NoContentKept
  <2>3. QED
    BY <2>1, <2>2 DEF RemainsInv
<1>3. QED
  BY <1>1, <1>2 DEF Next

(* Beside the inductive invariant, every call keeps track of its temporary *)
(* files.                                                                  *)
LEMMA RemainsInvariance ==
    ExclusiveSpec => [](TypeOK /\ Exclusive /\ IInv /\ RemainsInv)
<1>1. Init => RemainsInv
  <2> SUFFICES ASSUME Init, NEW p \in Publishers
               PROVE  StagingInv(p) /\ BackupInv(p)
    BY DEF RemainsInv
  <2>1. pc[p] = "validate" /\ staging[p] = {}
    BY DEF Init
  <2>2. \A d \in Destinations : backup[p][d] = Absent
    BY DEF Init
  <2>3. QED
    BY <2>1, <2>2 DEF StagingInv, BackupInv
<1>2. QED
  BY <1>1, RemainsStep, Invariance, PTL DEF ExclusiveSpec, ExclusiveInit

(* No destination changes before every member of the set is staged, and    *)
(* from then on each one is staged or installed until the undoing begins.  *)
THEOREM StagedFirst == ExclusiveSpec => []StagedBeforeTouched
<1>1. TypeOK /\ IInv /\ RemainsInv => StagedBeforeTouched
  <2> SUFFICES ASSUME TypeOK, IInv, RemainsInv, NEW p \in Publishers,
                      pc[p] \in Working \ {"rollback"}, ~Untouched(p)
               PROVE  Members(p) = committed[p] \cup staging[p]
    BY DEF StagedBeforeTouched
  <2>1. CallInv(p) /\ StagingInv(p)
    BY DEF IInv, RemainsInv
  <2>2. pc[p] \in {"commit", "cleanup"}
    BY <2>1 DEF CallInv, PreludeInv, Prelude, Working
  <2>3. QED
    BY <2>1, <2>2 DEF CallInv, SealedInv, StagingInv
<1>2. QED
  BY <1>1, RemainsInvariance, PTL

(* A call that has returned leaves no content in a backup, whichever of    *)
(* its operations failed, and no staged file but that of a member whose    *)
(* own staging failed.                                                     *)
THEOREM NothingIsLeft == ExclusiveSpec => []NothingLeftBehind
<1>1. RemainsInv => NothingLeftBehind
  <2> SUFFICES ASSUME RemainsInv, NEW p \in Publishers, pc[p] \in Returned
               PROVE  /\ \A d, e \in staging[p] : pc[p] = "unstaged" /\ d = e
                      /\ NoContentKept(p)
    BY DEF NothingLeftBehind, NoContentKept
  <2>1. StagingInv(p) /\ BackupInv(p)
    BY DEF RemainsInv
  <2>2. QED
    BY <2>1 DEF StagingInv, BackupInv, NoContentKept, Returned, Prelude
<1>2. QED
  BY <1>1, RemainsInvariance, PTL
=============================================================================
