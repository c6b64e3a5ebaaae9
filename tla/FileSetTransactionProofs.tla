----------------------- MODULE FileSetTransactionProofs -----------------------
(***************************************************************************)
(* Proofs about FileSetTransaction, for any number of calls, paths and     *)
(* failing operations.                                                     *)
(***************************************************************************)
EXTENDS FileSetTransaction, TLAPS

-----------------------------------------------------------------------------
(* The inductive invariant.  One predicate per stretch of the call.        *)

(* Nothing of the call has touched a destination yet. *)
Prelude == {"validate", "check", "stage", "discard", "rejected", "collided",
            "unstaged", "incomplete", "discard_raised"}

(* The state of one member between the start of the commit loop and the    *)
(* undoing: not touched, moved aside, replaced, or created.                *)
Shape(p, d) ==
    \/ d \notin backed[p] /\ d \notin committed[p] /\ dest[d] = before[d]
    \/ /\ d \in backed[p] /\ d \notin committed[p]
       /\ dest[d] = Absent /\ backup[p][d] = before[d]
    \/ /\ d \in backed[p] /\ d \in committed[p]
       /\ dest[d] = p /\ backup[p][d] = before[d]
    \/ /\ d \notin backed[p] /\ d \in committed[p]
       /\ dest[d] = p /\ before[d] = Absent

PreludeInv(p) ==
    pc[p] \in Prelude =>
        /\ backed[p] = {}
        /\ committed[p] = {}
        /\ Untouched(p)

ValidateInv(p) == pc[p] = "validate" => existed[p] = {}

CheckInv(p) ==
    pc[p] = "check" =>
        /\ existed[p] = {}
        /\ \A d \in Members(p) \ todo[p] : before[d] # Directory

StageInv(p) ==
    pc[p] = "stage" =>
        \A d \in Members(p) :
            /\ before[d] # Directory
            /\ d \in existed[p] <=> d \notin todo[p] /\ before[d] # Absent

CommitInv(p) ==
    pc[p] = "commit" =>
        \A d \in Members(p) :
            /\ Shape(p, d)
            /\ d \in existed[p] <=> before[d] # Absent
            /\ d \in committed[p] <=> d \notin todo[p]
            /\ d \in backed[p] => d \in existed[p]

RollbackInv(p) ==
    pc[p] = "rollback" =>
        /\ committed[p] # Members(p)
        /\ \A d \in backed[p] : before[d] # Absent
        /\ \A d \in Members(p) :
              IF d \in todo[p]
              THEN Shape(p, d) \/ (d \in backed[p] \ committed[p] /\ dest[d] = before[d])
              ELSE dest[d] = before[d]

SealedInv(p) ==
    pc[p] \in {"cleanup", "cleanup_raised", "committed"} =>
        /\ committed[p] = Members(p)
        /\ \A d \in Members(p) : dest[d] = p

BrokenInv(p) ==
    pc[p] \in {"rollback_raised", "crashed"} =>
        \/ /\ pc[p] = "crashed"
           /\ committed[p] = Members(p)
           /\ \A d \in Members(p) : dest[d] = p
        \/ /\ committed[p] # Members(p) \/ Members(p) = {}
           /\ \A d \in Members(p) : Shape(p, d) \/ dest[d] = before[d]

CallInv(p) ==
    /\ todo[p] \subseteq Members(p)
    /\ committed[p] \subseteq Members(p)
    /\ backed[p] \subseteq Members(p)
    /\ PreludeInv(p)
    /\ ValidateInv(p)
    /\ CheckInv(p)
    /\ StageInv(p)
    /\ CommitInv(p)
    /\ RollbackInv(p)
    /\ pc[p] = "rolled_back" => Untouched(p)
    /\ SealedInv(p)
    /\ BrokenInv(p)

IInv == \A p \in Publishers : CallInv(p)

-----------------------------------------------------------------------------
(* Updating one entry of a table of tables keeps its type. *)
LEMMA UpdateType ==
    ASSUME NEW P, NEW D, NEW C, NEW f \in [P -> [D -> C]],
           NEW p \in P, NEW d \in D, NEW c \in C
    PROVE  [f EXCEPT ![p][d] = c] \in [P -> [D -> C]]
OBVIOUS

(* The destinations of a call are paths. *)
LEMMA MembersType ==
    ASSUME TypeOK, NEW p \in Publishers
    PROVE  Members(p) \in SUBSET Destinations
<1>1. request[p] \in SUBSET Member
  BY DEF TypeOK
<1>2. \A m \in request[p] : m.destination \in Destinations
  BY <1>1 DEF Member
<1>3. \A m \in request[p] : Companion[m.destination] \in Destinations
  BY <1>2, PathAssumption
<1>4. \A d \in Members(p) : d \in Destinations
  BY <1>2, <1>3 DEF Members
<1>5. QED
  BY <1>4

(* Every step keeps every variable in its type. *)
LEMMA TypeCorrectStep == TypeOK /\ [Next]_vars => TypeOK'
<1> SUFFICES ASSUME TypeOK, [Next]_vars PROVE TypeOK'
  OBVIOUS
<1>1. CASE UNCHANGED vars
  BY <1>1 DEF TypeOK, vars, call, local, files
<1>2. ASSUME NEW p \in Publishers, Step(p) PROVE TypeOK'
  <2>0. /\ Members(p) \in SUBSET Destinations
        /\ p \in Content
        /\ Absent \in Content /\ Empty \in Content
    BY MembersType DEF Content
  <2>l. /\ "check" \in Labels /\ "stage" \in Labels
        /\ "discard" \in Labels /\ "commit" \in Labels
        /\ "rollback" \in Labels /\ "cleanup" \in Labels
        /\ "committed" \in Labels /\ "rolled_back" \in Labels
        /\ "rejected" \in Labels /\ "collided" \in Labels
        /\ "unstaged" \in Labels /\ "incomplete" \in Labels
        /\ "crashed" \in Labels /\ "discard_raised" \in Labels
        /\ "rollback_raised" \in Labels /\ "cleanup_raised" \in Labels
    BY DEF Labels, Working, Returned, Broken
  <2> USE DEF TypeOK, Goto, Loop, Visited, Fault, call, files
  <2>1. CASE Validate(p)
    BY <2>0, <2>l, <2>1 DEF Validate
  <2>2. CASE Check(p)
    <3>1. PICK d \in Destinations : Check(p)!(d)
      BY <2>0, <2>l, <2>2 DEF Check
    <3>2. pc' \in [Publishers -> Labels]
      BY <2>l, <3>1
    <3>3. todo' \in [Publishers -> SUBSET Destinations]
      BY <2>0, <3>1
    <3>4. found' \in [Publishers -> SUBSET Destinations]
      BY <3>1
    <3>5. QED
      BY <3>1, <3>2, <3>3, <3>4
  <2>3. CASE Decide(p)
    BY <2>0, <2>l, <2>3 DEF Decide
  <2>4. CASE Stage(p)
    BY <2>0, <2>l, <2>4 DEF Stage
  <2>5. CASE StageFails(p)
    BY <2>0, <2>l, <2>5 DEF StageFails
  <2>6. CASE StageIncomplete(p)
    BY <2>0, <2>l, <2>6 DEF StageIncomplete
  <2>7. CASE Staged(p)
    BY <2>0, <2>l, <2>7 DEF Staged
  <2>8. CASE Discard(p)
    <3>1. PICK d \in Destinations : Discard(p)!(d)
      BY <2>0, <2>l, <2>8 DEF Discard
    <3>2. pc' \in [Publishers -> Labels]
      BY <2>l, <3>1
    <3>3. todo' \in [Publishers -> SUBSET Destinations]
      BY <2>0, <3>1
    <3>4. staging' \in [Publishers -> SUBSET Destinations]
      BY <3>1
    <3>5. faults' \in Nat
      BY <3>1
    <3>6. QED
      BY <3>1, <3>2, <3>3, <3>4, <3>5
  <2>9. CASE Discarded(p)
    BY <2>0, <2>l, <2>9 DEF Discarded
  <2>10. CASE Backup(p)
    <3>1. PICK d \in Destinations : Backup(p)!(d)
      BY <2>0, <2>l, <2>10 DEF Backup
    <3>2. pc' \in [Publishers -> Labels]
      BY <2>l, <3>1
    <3>3. todo' \in [Publishers -> SUBSET Destinations]
      BY <2>0, <3>1
    <3>4. backed' \in [Publishers -> SUBSET Destinations]
      BY <3>1
    <3>5. dest' \in [Destinations -> Content]
      BY <2>0, <3>1
    <3>6. backup' \in [Publishers -> [Destinations -> Content]]
      <4>1. backup \in [Publishers -> [Destinations -> Content]]
        OBVIOUS
      <4>2. \E c \in Content : \/ backup' = [backup EXCEPT ![p][d] = c]
                               \/ backup' = backup
        BY <2>0, <3>1
      <4> HIDE DEF TypeOK
      <4>3. \A c \in Content : [backup EXCEPT ![p][d] = c]
                                 \in [Publishers -> [Destinations -> Content]]
        BY <4>1, UpdateType
      <4>4. QED
        BY <4>1, <4>2, <4>3
    <3>7. QED
      BY <3>1, <3>2, <3>3, <3>4, <3>5, <3>6
  <2>11. CASE BackupFails(p)
    BY <2>0, <2>l, <2>11 DEF BackupFails
  <2>12. CASE Install(p)
    <3>1. PICK d \in Destinations : Install(p)!(d)
      BY <2>0, <2>l, <2>12 DEF Install
    <3>2. pc' \in [Publishers -> Labels]
      BY <2>l, <3>1
    <3>3. todo' \in [Publishers -> SUBSET Destinations]
      <4>1. todo[p] \ {d} \in SUBSET Destinations /\ backed[p] \in SUBSET Destinations
        OBVIOUS
      <4>2. \E S \in SUBSET Destinations : \/ todo' = [todo EXCEPT ![p] = S]
                                           \/ todo' = todo
        BY <4>1, <3>1
      <4>3. QED
        BY <4>2
    <3>4. committed' \in [Publishers -> SUBSET Destinations]
      BY <3>1
    <3>5. staging' \in [Publishers -> SUBSET Destinations]
      BY <3>1
    <3>6. dest' \in [Destinations -> Content]
      BY <2>0, <3>1
    <3>7. QED
      BY <3>1, <3>2, <3>3, <3>4, <3>5, <3>6
  <2>13. CASE InstallFails(p)
    BY <2>0, <2>l, <2>13 DEF InstallFails
  <2>14. CASE Rollback(p)
    <3>1. PICK d \in Destinations : Rollback(p)!(d)
      BY <2>0, <2>l, <2>14 DEF Rollback
    <3>2. pc' \in [Publishers -> Labels] /\ todo' \in [Publishers -> SUBSET Destinations]
      BY <2>0, <2>l, <3>1
    <3>3. staging' \in [Publishers -> SUBSET Destinations]
      BY <3>1 DEF Undo
    <3>4. dest' \in [Destinations -> Content]
      <4>1. backup[p][d] \in Content
        OBVIOUS
      <4>2. \E c \in Content : \/ dest' = [dest EXCEPT ![d] = c]
                               \/ dest' = dest
        BY <2>0, <3>1, <4>1 DEF Undo
      <4>3. QED
        BY <4>2
    <3>5. backup' \in [Publishers -> [Destinations -> Content]]
      <4>1. backup \in [Publishers -> [Destinations -> Content]]
        OBVIOUS
      <4>2. backup[p][d] \in Content
        BY <4>1
      <4>3. \E c \in Content : \/ backup' = [backup EXCEPT ![p][d] = c]
                               \/ backup' = backup
        BY <2>0, <3>1, <4>2 DEF Undo
      <4> HIDE DEF TypeOK
      <4>4. \A c \in Content : [backup EXCEPT ![p][d] = c]
                                 \in [Publishers -> [Destinations -> Content]]
        BY <4>1, UpdateType
      <4>5. QED
        BY <4>1, <4>3, <4>4
    <3>6. QED
      BY <3>1, <3>2, <3>3, <3>4, <3>5
  <2>20. CASE PutBack(p)
    <3>1. PICK d \in Destinations : PutBack(p)!(d)
      BY <2>20 DEF PutBack
    <3>2. dest' \in [Destinations -> Content]
      BY <3>1
    <3>3. backup \in [Publishers -> [Destinations -> Content]]
      OBVIOUS
    <3>4. backup' \in [Publishers -> [Destinations -> Content]]
      <4> HIDE DEF TypeOK
      <4>1. QED
        BY <2>0, <3>1, <3>3, UpdateType
    <3>5. QED
      BY <3>1, <3>2, <3>4 DEF local
  <2>15. CASE RollbackFails(p)
    BY <2>0, <2>l, <2>15 DEF RollbackFails
  <2>16. CASE Cleanup(p)
    <3>1. PICK d \in Destinations : Cleanup(p)!(d)
      BY <2>0, <2>l, <2>16 DEF Cleanup
    <3>2. pc' \in [Publishers -> Labels]
      BY <2>l, <3>1
    <3>3. todo' \in [Publishers -> SUBSET Destinations]
      <4>1. todo[p] \ {d} \in SUBSET Destinations /\ backed[p] \in SUBSET Destinations
        OBVIOUS
      <4>2. \E S \in SUBSET Destinations : \/ todo' = [todo EXCEPT ![p] = S]
                                           \/ todo' = todo
        BY <4>1, <3>1
      <4>3. QED
        BY <4>2
    <3>4. backup' \in [Publishers -> [Destinations -> Content]]
      <4>1. backup \in [Publishers -> [Destinations -> Content]]
        OBVIOUS
      <4>2. \E c \in Content : \/ backup' = [backup EXCEPT ![p][d] = c]
                               \/ backup' = backup
        BY <2>0, <3>1
      <4> HIDE DEF TypeOK
      <4>3. \A c \in Content : [backup EXCEPT ![p][d] = c]
                                 \in [Publishers -> [Destinations -> Content]]
        BY <4>1, UpdateType
      <4>4. QED
        BY <4>1, <4>2, <4>3
    <3>5. faults' \in Nat
      BY <3>1
    <3>6. QED
      BY <3>1, <3>2, <3>3, <3>4, <3>5
  <2>17. CASE Return(p)
    BY <2>0, <2>l, <2>17 DEF Return
  <2>18. CASE Crash(p)
    BY <2>0, <2>l, <2>18 DEF Crash
  <2>19. QED
    BY <1>2, <2>1, <2>2, <2>3, <2>4, <2>5, <2>6, <2>7, <2>8,
       <2>9, <2>10, <2>11, <2>12, <2>13, <2>14, <2>15, <2>16,
       <2>17, <2>18, <2>20 DEF Step
<1>3. QED
  BY <1>1, <1>2 DEF Next

(* Publication keeps every variable in its type. *)
THEOREM TypeCorrect == Spec => []TypeOK
<1>1. Init => TypeOK
  BY DEF Init, TypeOK, Content, Labels, Working
<1>2. QED
  BY <1>1, TypeCorrectStep, PTL DEF Spec

(* A step of one call changes nothing another call keeps, and no path but  *)
(* its own members.                                                        *)
LEMMA OtherCalls ==
    ASSUME TypeOK, NEW p \in Publishers, NEW q \in Publishers, p # q,
           todo[p] \subseteq Members(p), Step(p)
    PROVE  /\ pc'[q] = pc[q] /\ todo'[q] = todo[q]
           /\ existed'[q] = existed[q] /\ backed'[q] = backed[q]
           /\ committed'[q] = committed[q] /\ backup'[q] = backup[q]
           /\ UNCHANGED call
           /\ \A d \in Destinations \ Members(p) : dest'[d] = dest[d]
<1> USE DEF TypeOK, Goto, Loop, Visited, Visits, Fault, call, files
<1>1. CASE Validate(p)
  BY <1>1 DEF Validate
<1>2. CASE Check(p)
  BY <1>2 DEF Check
<1>3. CASE Decide(p)
  BY <1>3 DEF Decide
<1>4. CASE Stage(p)
  BY <1>4 DEF Stage
<1>5. CASE StageFails(p)
  BY <1>5 DEF StageFails
<1>6. CASE StageIncomplete(p)
  BY <1>6 DEF StageIncomplete
<1>7. CASE Staged(p)
  BY <1>7 DEF Staged
<1>8. CASE Discard(p)
  BY <1>8 DEF Discard
<1>9. CASE Discarded(p)
  BY <1>9 DEF Discarded
<1>10. CASE Backup(p)
  BY <1>10 DEF Backup
<1>11. CASE BackupFails(p)
  BY <1>11 DEF BackupFails
<1>12. CASE Install(p)
  BY <1>12 DEF Install
<1>13. CASE InstallFails(p)
  BY <1>13 DEF InstallFails
<1>14. CASE Rollback(p)
  BY <1>14 DEF Rollback, Undo
<1>20. CASE PutBack(p)
  BY <1>20 DEF PutBack, local
<1>15. CASE RollbackFails(p)
  BY <1>15 DEF RollbackFails
<1>16. CASE Cleanup(p)
  BY <1>16 DEF Cleanup
<1>17. CASE Return(p)
  BY <1>17 DEF Return
<1>18. CASE Crash(p)
  BY <1>18 DEF Crash
<1>19. QED
  BY <1>1, <1>2, <1>3, <1>4, <1>5, <1>6, <1>7, <1>8, <1>9, <1>10,
     <1>11, <1>12, <1>13, <1>14, <1>15, <1>16, <1>17, <1>18, <1>20 DEF Step

(* A call's own steps keep its part of the invariant. *)
LEMMA OwnCall ==
    ASSUME TypeOK, NEW p \in Publishers, CallInv(p), Step(p)
    PROVE  CallInv(p)'
<1>0. Members(p)' = Members(p)
  BY DEF Step, Members, call, Validate, Check, Decide, Stage, StageFails,
         StageIncomplete, Staged, Discard, Discarded, Backup, BackupFails,
         Install, InstallFails, PutBack, Rollback, RollbackFails, Cleanup, Return, Crash
<1>m. Members(p) \in SUBSET Destinations
  BY MembersType
<1> USE <1>0, <1>m, ContentAssumption
       DEF TypeOK, CallInv, PreludeInv, ValidateInv,
           CheckInv, StageInv, CommitInv,
           RollbackInv, SealedInv, BrokenInv, Untouched, Shape, Prelude,
           Goto, Loop, Visited, Visits, Fault, call, files
<1>1. CASE Validate(p)
  BY <1>1 DEF Validate
<1>2. CASE Check(p)
  BY <1>2 DEF Check
<1>3. CASE Decide(p)
  BY <1>3 DEF Decide
<1>4. CASE Stage(p)
  <2>1. PICK d \in Destinations : Stage(p)!(d)
    BY <1>4 DEF Stage
  <2>2. \A e \in Members(p) : dest[e] = before[e] /\ before[e] # Directory
    BY <2>1
  <2>3. todo'[p] = todo[p] \ {d} /\ pc'[p] = "stage" /\ d \in Members(p)
    BY <2>1
  <2>4. \A e \in Members(p) \ {d} : e \in existed'[p] <=> e \in existed[p]
    BY <2>1
  <2>5. d \in existed'[p] <=> \/ d \in existed[p]
                              \/ before[d] # Absent
    BY <2>1, <2>2, <2>3
  <2>6. d \notin existed[p]
    BY <2>1
  <2>7. StageInv(p)'
    BY <2>1, <2>2, <2>3, <2>4, <2>5, <2>6
  <2>8. QED
    BY <2>1, <2>7
<1>5. CASE StageFails(p)
  BY <1>5 DEF StageFails
<1>6. CASE StageIncomplete(p)
  BY <1>6 DEF StageIncomplete
<1>7. CASE Staged(p)
  BY <1>7 DEF Staged
<1>8. CASE Discard(p)
  BY <1>8 DEF Discard
<1>9. CASE Discarded(p)
  BY <1>9 DEF Discarded
<1>10. CASE Backup(p)
  BY <1>10 DEF Backup
<1>11. CASE BackupFails(p)
  BY <1>11 DEF BackupFails
<1>12. CASE Install(p)
  <2>1. PICK d \in Destinations : Install(p)!(d)
    BY <1>12 DEF Install
  <2>2. /\ d \in Members(p) /\ d \notin committed[p]
        /\ committed'[p] = committed[p] \cup {d}
        /\ dest'[d] = p
        /\ \A e \in Members(p) \ {d} : dest'[e] = dest[e]
        /\ UNCHANGED <<existed, backed, backup, before>>
    BY <2>1
  <2>3. \A e \in Members(p) : Shape(p, e)'
    BY <2>1, <2>2
  <2>4. CASE todo[p] = {d}
    <3>1. pc'[p] = "cleanup" /\ todo'[p] = backed[p]
      BY <2>1, <2>4
    <3>2. committed'[p] = Members(p)
      BY <2>1, <2>2, <2>4
    <3>3. \A e \in Members(p) : dest'[e] = p
      BY <2>3, <3>2
    <3>4. QED
      BY <2>2, <3>1, <3>2, <3>3
  <2>5. CASE todo[p] # {d}
    <3>1. pc'[p] = "commit" /\ todo'[p] = todo[p] \ {d}
      BY <2>1, <2>5
    <3>2. CommitInv(p)'
      BY <2>1, <2>2, <2>3, <3>1
    <3>3. QED
      BY <2>2, <3>1, <3>2
  <2>6. QED
    BY <2>4, <2>5
<1>13. CASE InstallFails(p)
  BY <1>13 DEF InstallFails
<1>14. CASE Rollback(p)
  <2>1. PICK d \in Destinations : Rollback(p)!(d)
    BY <1>14 DEF Rollback
  <2>2. /\ d \in Members(p) /\ UNCHANGED <<existed, backed, committed, before>>
        /\ todo'[p] = todo[p] \ {d}
        /\ pc'[p] = IF todo[p] = {d} THEN "rolled_back" ELSE "rollback"
    BY <2>1
  <2>3. \A e \in Members(p) \ {d} : dest'[e] = dest[e] /\ backup'[p][e] = backup[p][e]
    BY <2>1 DEF Undo
  <2>4. dest'[d] = before[d]
    <3>1. CASE d \in committed[p]
      BY <2>1, <3>1 DEF Undo
    <3>2. CASE d \notin committed[p]
      BY <2>1, <3>2 DEF Undo
    <3>3. QED
      BY <3>1, <3>2
  <2>5. \A e \in Members(p) :
           IF e \in todo'[p]
           THEN \/ Shape(p, e)'
                \/ e \in backed'[p] \ committed'[p] /\ dest'[e] = before'[e]
           ELSE dest'[e] = before'[e]
    <3>1. d \notin todo'[p] /\ before' = before
      BY <2>2
    <3>2. \A e \in Members(p) \ {d} : e \in todo'[p] <=> e \in todo[p]
      BY <2>2
    <3>3. \A e \in Members(p) : IF e \in todo[p]
                                 THEN \/ Shape(p, e)
                                      \/ e \in backed[p] \ committed[p] /\ dest[e] = before[e]
                                 ELSE dest[e] = before[e]
      BY <2>1
    <3>4. QED
      BY <2>2, <2>3, <2>4, <3>1, <3>2, <3>3
  <2>6. RollbackInv(p)'
    <3>1. committed[p] # Members(p) /\ \A e \in backed[p] : before[e] # Absent
      BY <2>1
    <3> HIDE DEF TypeOK, CallInv, Shape
    <3>2. QED
      BY <2>2, <2>5, <3>1
  <2>7. pc'[p] = "rolled_back" => Untouched(p)'
    <3>1. CASE todo[p] = {d}
      <4>1. todo'[p] = {}
        BY <2>2, <3>1
      <4> HIDE DEF TypeOK, CallInv, Shape
      <4>2. QED
        BY <2>5, <4>1
    <3>2. CASE todo[p] # {d}
      BY <2>2, <3>2
    <3>3. QED
      BY <3>1, <3>2
  <2>8. QED
    BY <2>2, <2>6, <2>7
<1>20. CASE PutBack(p)
  <2>1. PICK d \in Destinations : PutBack(p)!(d)
    BY <1>20 DEF PutBack
  <2>2. d \in Members(p) /\ backup[p][d] = before[d]
    BY <2>1
  <2>3. \A e \in Members(p) \ {d} : dest'[e] = dest[e] /\ backup'[p][e] = backup[p][e]
    BY <2>1
  <2>4. dest'[d] = before[d]
    BY <2>1, <2>2
  <2>5. UNCHANGED <<pc, todo, existed, backed, committed, before>>
    BY <2>1 DEF local
  <2>6. RollbackInv(p)'
    BY <2>1, <2>2, <2>3, <2>4, <2>5
  <2>7. QED
    BY <2>1, <2>5, <2>6
<1>15. CASE RollbackFails(p)
  BY <1>15 DEF RollbackFails
<1>16. CASE Cleanup(p)
  BY <1>16 DEF Cleanup
<1>17. CASE Return(p)
  BY <1>17 DEF Return
<1>18. CASE Crash(p)
  <2>1. pc'[p] = "crashed"
    BY <1>18 DEF Crash
  <2>2. BrokenInv(p)'
    <3>1. CASE pc[p] \in Prelude
      BY <1>18, <3>1 DEF Crash
    <3>2. CASE pc[p] = "commit"
      BY <1>18, <3>2 DEF Crash
    <3>3. CASE pc[p] = "rollback"
      BY <1>18, <3>3 DEF Crash
    <3>4. CASE pc[p] = "cleanup"
      BY <1>18, <3>4 DEF Crash
    <3>5. QED
      BY <1>18, <3>1, <3>2, <3>3, <3>4 DEF Crash, Working
  <2>3. QED
    BY <1>18, <2>1, <2>2 DEF Crash
<1>19. QED
  BY <1>1, <1>2, <1>3, <1>4, <1>5, <1>6, <1>7, <1>8, <1>9, <1>10,
     <1>11, <1>12, <1>13, <1>14, <1>15, <1>16, <1>17, <1>18, <1>20 DEF Step

(* Whatever the operations that fail, each call keeps its invariant as     *)
(* long as no other call publishes at its paths.                           *)
LEMMA Inductive ==
    ASSUME TypeOK, Exclusive, IInv, Next
    PROVE  IInv'
<1>1. PICK p \in Publishers : Step(p)
  BY DEF Next
<1>2. CallInv(p)'
  BY <1>1, OwnCall DEF IInv
<1>3. ASSUME NEW q \in Publishers, p # q
      PROVE  CallInv(q)'
  <2>1. CallInv(q) /\ todo[p] \subseteq Members(p)
    BY DEF IInv, CallInv
  <2>2. /\ pc'[q] = pc[q] /\ todo'[q] = todo[q]
        /\ existed'[q] = existed[q] /\ backed'[q] = backed[q]
        /\ committed'[q] = committed[q] /\ backup'[q] = backup[q]
        /\ UNCHANGED call
        /\ \A d \in Destinations \ Members(p) : dest'[d] = dest[d]
    BY <1>1, <1>3, <2>1, OtherCalls
  <2>3. Members(q)' = Members(q) /\ before' = before
    BY <2>2 DEF Members, call
  <2>4. \A d \in Members(q) : dest'[d] = dest[d]
    BY <1>3, <2>2, MembersType DEF Exclusive
  <2>5. QED
    BY <2>1, <2>2, <2>3, <2>4
       DEF CallInv, PreludeInv, ValidateInv, CheckInv, StageInv, CommitInv,
           RollbackInv, SealedInv, BrokenInv, Untouched, Shape
<1>4. QED
  BY <1>2, <1>3 DEF IInv

(* Requests never change, so calls exclusive once are so forever. *)
LEMMA ExclusiveStable == Exclusive /\ [Next]_vars => Exclusive'
<1> SUFFICES ASSUME Exclusive, [Next]_vars PROVE Exclusive'
  OBVIOUS
<1>1. request' = request
  BY DEF Next, Step, vars, call, Validate, Check, Decide, Stage, StageFails,
         StageIncomplete, Staged, Discard, Discarded, Backup, BackupFails,
         Install, InstallFails, PutBack, Rollback, RollbackFails, Cleanup, Return, Crash
<1>2. QED
  BY <1>1 DEF Exclusive, Members

(* The inductive invariant holds under exclusive use. *)
LEMMA Invariance == ExclusiveSpec => [](TypeOK /\ Exclusive /\ IInv)
<1>1. Init => IInv
  BY DEF Init, IInv, CallInv, PreludeInv, ValidateInv, CheckInv, StageInv,
         CommitInv, RollbackInv, SealedInv, BrokenInv, Untouched
<1>2. ExclusiveSpec => []TypeOK
  BY TypeCorrect, PTL DEF ExclusiveSpec, ExclusiveInit, Spec
<1>3. TypeOK /\ Exclusive /\ IInv /\ [Next]_vars => (Exclusive /\ IInv)'
  <2> SUFFICES ASSUME TypeOK, Exclusive, IInv, [Next]_vars
               PROVE  (Exclusive /\ IInv)'
    OBVIOUS
  <2>1. CASE Next
    BY <2>1, Inductive, ExclusiveStable
  <2>2. CASE UNCHANGED vars
    <3>1. \A p \in Publishers : Members(p)' = Members(p)
      BY <2>2 DEF vars, call, Members
    <3>2. UNCHANGED <<pc, todo, existed, backed, committed, dest, backup, before>>
      BY <2>2 DEF vars, call, local, files
    <3>3. Exclusive'
      BY <3>1 DEF Exclusive
    <3>4. ASSUME NEW p \in Publishers PROVE CallInv(p)'
      <4>1. CallInv(p)
        BY DEF IInv
      <4>2. QED
        BY <3>1, <3>2, <4>1 DEF CallInv, PreludeInv, ValidateInv, CheckInv,
           StageInv, CommitInv, RollbackInv, SealedInv, BrokenInv, Untouched,
           Shape
    <3>5. QED
      BY <3>3, <3>4 DEF IInv
  <2>3. QED
    BY <2>1, <2>2
<1>4. QED
  BY <1>1, <1>2, <1>3, PTL DEF ExclusiveSpec, ExclusiveInit

-----------------------------------------------------------------------------
(* The outcome of a call is atomic at set scope, for any number of calls,  *)
(* members and failing operations: a sealed call has every destination     *)
(* new, an undone one every destination as it was.                         *)
THEOREM OutcomeIsAtomic == ExclusiveSpec => []AllOrNothing
<1>1. TypeOK /\ IInv => AllOrNothing
  BY DEF IInv, CallInv, PreludeInv, SealedInv, BrokenInv, AllOrNothing,
         Sealed, Undone, Returned, Prelude
<1>2. QED
  BY <1>1, Invariance, PTL

(* No content that a call replaces is ever out of reach before the call    *)
(* has sealed, even if it dies or its rollback fails half-way.             *)
THEOREM OriginalsSurvive == ExclusiveSpec => []OriginalRecoverable
<1>1. TypeOK /\ IInv => OriginalRecoverable
  <2> SUFFICES ASSUME TypeOK, IInv, NEW p \in Publishers,
                      NEW d \in Members(p), before[d] = Original, ~Sealed(p)
               PROVE  dest[d] = Original \/ backup[p][d] = Original
    BY DEF OriginalRecoverable
  <2>1. CallInv(p)
    BY DEF IInv
  <2>2. pc[p] \in Labels
    BY DEF TypeOK
  <2>3. dest[d] = before[d] \/ Shape(p, d)
    BY <2>1, <2>2 DEF CallInv, PreludeInv, CommitInv, RollbackInv, BrokenInv,
       Sealed, Untouched, Prelude, Labels, Working, Returned, Broken
  <2>4. QED
    BY <2>3, ContentAssumption DEF Shape
<1>2. QED
  BY <1>1, Invariance, PTL

-----------------------------------------------------------------------------
(* Refinement of AtomicPublication. *)

(* One step of a call changes at most one of its destinations, to nothing, *)
(* to the call's own content or to what was there before.                  *)
LEMMA OneDestination ==
    ASSUME TypeOK, IInv, NEW p \in Publishers, Step(p)
    PROVE  \/ dest' = dest
           \/ \E d \in Members(p) : \E c \in {Absent, p, before[d]} :
                 dest' = [dest EXCEPT ![d] = c]
<1>0. CallInv(p)
  BY DEF IInv
<1>1. CASE Backup(p)
  BY <1>0, <1>1 DEF Backup, CallInv, Visits
<1>2. CASE Install(p)
  BY <1>0, <1>2 DEF Install, CallInv, Visits
<1>3. CASE Rollback(p)
  <2>1. PICK d \in Destinations : Rollback(p)!(d)
    BY <1>3 DEF Rollback
  <2>2. d \in Members(p) /\ (d \in committed[p] => Shape(p, d))
    BY <1>0, <2>1 DEF CallInv, RollbackInv, Visits
  <2>3. \/ dest' = dest
        \/ \E c \in {Absent, p, before[d]} : dest' = [dest EXCEPT ![d] = c]
    BY <2>1, <2>2 DEF Undo, Shape
  <2>4. QED
    BY <2>2, <2>3
<1>5. CASE PutBack(p)
  <2>1. PICK d \in Destinations : PutBack(p)!(d)
    BY <1>5 DEF PutBack
  <2>2. d \in Members(p) /\ d \in todo[p] /\ before[d] # Absent
    BY <1>0, <2>1 DEF CallInv, RollbackInv, Visits
  <2>4. backup[p][d] = before[d]
    BY <1>0, <2>1, <2>2 DEF CallInv, RollbackInv, Shape
  <2>3. QED
    BY <2>1, <2>2, <2>4
<1>4. QED
  BY <1>1, <1>2, <1>3, <1>5
     DEF Step, files, Validate, Check, Decide, Stage, StageFails,
         StageIncomplete, Staged, Discard, Discarded, BackupFails,
         InstallFails, RollbackFails, Cleanup, Return, Crash

(* A call that is no longer working changes no destination and keeps its   *)
(* outcome; one that dies or cannot undo leaves them as they are then.     *)
LEMMA OutcomeSteps ==
    ASSUME TypeOK, IInv, Step(Subject)
    PROVE  /\ Outcome # "working" => dest' = dest /\ Outcome' = Outcome
           /\ Outcome' = "interrupted" => dest' = dest
<1> USE SubjectAssumption
<1>0. CallInv(Subject) /\ Members(Subject)' = Members(Subject)
  BY DEF IInv, Step, Members, call, Validate, Check, Decide, Stage, StageFails,
         StageIncomplete, Staged, Discard, Discarded, Backup, BackupFails,
         Install, InstallFails, PutBack, Rollback, RollbackFails, Cleanup, Return, Crash
<1>1. pc[Subject] \in Working
  BY DEF Working, Step, Validate, Check, Decide, Stage, StageFails,
         StageIncomplete, Staged, Discard, Discarded, Backup, BackupFails,
         Install, InstallFails, PutBack, Rollback, RollbackFails, Cleanup, Return, Crash
<1>2. Outcome # "working" => pc[Subject] = "cleanup"
  BY <1>1 DEF Outcome, Sealed, Undone, Working, Returned
<1>3. CASE pc[Subject] = "cleanup"
  <2>1. Cleanup(Subject) \/ Return(Subject) \/ Crash(Subject)
    BY <1>3 DEF Step, Validate, Check, Decide, Stage, StageFails,
       StageIncomplete, Staged, Discard, Discarded, Backup, BackupFails,
       Install, InstallFails, PutBack, Rollback, RollbackFails
  <2>2. dest' = dest /\ committed' = committed
    BY <2>1 DEF Cleanup, Return, Crash, files
  <2>3. pc'[Subject] \in {"cleanup", "cleanup_raised", "committed", "crashed"}
    BY <1>3, <2>1 DEF Cleanup, Return, Crash, Goto, TypeOK
  <2>4. Sealed(Subject) /\ Sealed(Subject)'
    BY <1>0, <1>3, <2>2, <2>3 DEF Sealed, CallInv, SealedInv
  <2>5. QED
    BY <2>2, <2>4 DEF Outcome
<1>4. CASE pc[Subject] # "cleanup"
  <2>1. Outcome = "working"
    BY <1>2, <1>4
  <2>2. ASSUME Outcome' = "interrupted" PROVE dest' = dest
    <3>1. pc'[Subject] \notin Working \cup Undone
      BY <2>2 DEF Outcome
    <3>2. pc'[Subject] \in {"rollback_raised", "crashed"}
                           \cup {"cleanup_raised", "committed", "cleanup"}
      <4>1. pc' \in [Publishers -> Labels]
        BY TypeCorrectStep DEF TypeOK, Next
      <4>2. pc'[Subject] \in Labels
        BY <4>1
      <4>3. QED
        BY <3>1, <4>2 DEF Labels, Undone, Returned, Broken
    <3>3. pc'[Subject] \in {"rollback_raised", "crashed"}
      BY <2>2, <3>2 DEF Outcome, Sealed
    <3>4. RollbackFails(Subject) \/ Crash(Subject)
      BY <3>3 DEF TypeOK, Goto, Loop, call, local, Step, Validate, Check,
         Decide, Stage, StageFails,
         StageIncomplete, Staged, Discard, Discarded, Backup, BackupFails,
         Install, InstallFails, PutBack, Rollback, Cleanup, Return
    <3>5. QED
      BY <3>4 DEF RollbackFails, Crash, files
  <2>3. QED
    BY <2>1, <2>2
<1>5. QED
  BY <1>3, <1>4

(* A call publishes its whole set or restores it, and shows only old,      *)
(* missing or new content meanwhile: FileSetTransaction implements         *)
(* AtomicPublication.                                                      *)
THEOREM ImplementsAtomicPublication == ExclusiveSpec => ImplementsAtomic
<1> DEFINE View == [d \in Members(Subject) |-> dest[d]]
           Before == [d \in Members(Subject) |-> before[d]]
<1> USE SubjectAssumption
<1>1. Init => Atomic!Init
  BY DEF Init, Atomic!Init, Outcome, Sealed, Undone, Returned, Working
<1>2. ASSUME TypeOK, TypeOK', Exclusive, IInv, AllOrNothing', [Next]_vars
      PROVE  [Atomic!Next]_(Atomic!avars)
  <2> USE <1>2
  <2>1. CASE UNCHANGED vars
    BY <2>1 DEF vars, call, local, files, Atomic!avars, Outcome, Sealed, Members
  <2>2. ASSUME NEW q \in Publishers, q # Subject, Step(q)
        PROVE  UNCHANGED Atomic!avars
    <3>1. todo[q] \subseteq Members(q)
      BY DEF IInv, CallInv
    <3>2. /\ pc'[Subject] = pc[Subject] /\ UNCHANGED call
          /\ committed'[Subject] = committed[Subject]
          /\ \A d \in Destinations \ Members(q) : dest'[d] = dest[d]
      BY <2>2, <3>1, OtherCalls
    <3>3. Members(Subject)' = Members(Subject) /\ before' = before
      BY <3>2 DEF Members, call
    <3>4. \A d \in Members(Subject) : dest'[d] = dest[d]
      BY <2>2, <3>2, MembersType DEF Exclusive
    <3>5. View' = View /\ Before' = Before
      BY <3>3, <3>4
    <3>6. Outcome' = Outcome
      BY <3>2, <3>3 DEF Outcome, Sealed
    <3>7. QED
      BY <3>5, <3>6 DEF Atomic!avars
  <2>3. ASSUME Step(Subject) PROVE [Atomic!Next]_(Atomic!avars)
    <3>1. Members(Subject)' = Members(Subject) /\ before' = before
      BY <2>3 DEF Step, Members, call, Validate, Check, Decide, Stage,
         StageFails, StageIncomplete, Staged, Discard, Discarded, Backup,
         BackupFails, Install, InstallFails, PutBack, Rollback, RollbackFails, Cleanup,
         Return, Crash
    <3>2. Before' = Before
      BY <3>1
    <3>3. CASE dest' = dest /\ Outcome' = Outcome
      BY <3>1, <3>2, <3>3 DEF Atomic!avars
    <3>4. CASE Outcome = "working" /\ Outcome' = "published"
      <4>1. View' = [d \in DOMAIN Before |-> Subject]
        BY <3>1, <3>4 DEF AllOrNothing, Outcome
      <4>2. Atomic!Publish
        BY <3>2, <3>4, <4>1 DEF Atomic!Publish, Atomic!Published
      <4>3. QED
        BY <4>2 DEF Atomic!Next
    <3>5. CASE Outcome = "working" /\ Outcome' = "restored"
      <4>1. View' = Before
        BY <3>1, <3>5 DEF AllOrNothing, Outcome, Untouched
      <4>2. Atomic!Restore
        BY <3>2, <3>5, <4>1 DEF Atomic!Restore
      <4>3. QED
        BY <4>2 DEF Atomic!Next
    <3>6. CASE Outcome = "working" /\ Outcome' = "interrupted"
      <4>1. View' = View
        BY <2>3, <3>1, <3>6, OutcomeSteps
      <4>2. Atomic!Interrupt
        BY <3>2, <3>6, <4>1 DEF Atomic!Interrupt
      <4>3. QED
        BY <4>2 DEF Atomic!Next
    <3>7. CASE Outcome = "working" /\ Outcome' = "working" /\ dest' # dest
      <4>1. PICK d \in Members(Subject) :
               \E c \in {Absent, Subject, before[d]} :
                  dest' = [dest EXCEPT ![d] = c]
        BY <2>3, <3>7, OneDestination
      <4>2. PICK c \in {Absent, Subject, before[d]} :
               dest' = [dest EXCEPT ![d] = c]
        BY <4>1
      <4>3. View' = [View EXCEPT ![d] = c]
        BY <3>1, <4>2, MembersType DEF TypeOK
      <4>4. Atomic!Expose
        BY <3>2, <3>7, <4>2, <4>3 DEF Atomic!Expose
      <4>5. QED
        BY <4>4 DEF Atomic!Next
    <3>8. QED
      <4>1. Outcome' \in {"working", "published", "restored", "interrupted"}
        BY DEF Outcome
      <4>2. QED
        BY <2>3, <3>3, <3>4, <3>5, <3>6, <3>7, <4>1, OutcomeSteps
  <2>4. QED
    BY <2>1, <2>2, <2>3 DEF Next
<1>3. QED
  BY <1>1, <1>2, Invariance, OutcomeIsAtomic, PTL
     DEF ExclusiveSpec, ExclusiveInit,
         ImplementsAtomic, Atomic!Spec
=============================================================================
