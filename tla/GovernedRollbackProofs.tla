------------------------- MODULE GovernedRollbackProofs -------------------------
(***************************************************************************)
(* Proofs about GovernedRollback, for any number of files, runs, records   *)
(* and Rollbacks.                                                          *)
(***************************************************************************)
EXTENDS GovernedRollback, WellFoundedInduction, TLAPS

-----------------------------------------------------------------------------
(* Records and the files they are of.                                      *)

(* A step of a run writes at most one record, of a governed file, with an  *)
(* id of its own, and forgets none.                                        *)
LEMMA RunsRecord ==
    ASSUME NEW r \in Runs, RunStep(r)
    PROVE  /\ manifests \subseteq manifests'
           /\ \/ UNCHANGED <<mutations, nextId>>
              \/ \E m : /\ mutations' = mutations \cup {m} /\ m.id = nextId
                        /\ nextId' = nextId + 1 /\ m.file \in manifests'
<1>1. ASSUME NEW f \in Files, Inventory(r, f)
      PROVE  /\ manifests \subseteq manifests'
             /\ \E m : /\ mutations' = mutations \cup {m} /\ m.id = nextId
                       /\ nextId' = nextId + 1 /\ m.file \in manifests'
  <2> DEFINE m == [id |-> nextId, file |-> f, run |-> r, type |-> "inventory",
                   action |-> "record_only", path |-> <<"inbox", f>>]
  <2>1. mutations' = mutations \cup {m} /\ nextId' = nextId + 1
    BY <1>1 DEF Inventory, Record
  <2>2. m.id = nextId /\ m.file = f
    OBVIOUS
  <2>3. manifests' = manifests \cup {f}
    BY <1>1 DEF Inventory
  <2> HIDE DEF m
  <2> QED
    BY <2>1, <2>2, <2>3
<1>2. ASSUME NEW f \in Files, Classify(r, f)
      PROVE  /\ manifests \subseteq manifests'
             /\ \E m : /\ mutations' = mutations \cup {m} /\ m.id = nextId
                       /\ nextId' = nextId + 1 /\ m.file \in manifests'
  <2> DEFINE m == [id |-> nextId, file |-> f, run |-> r, type |-> "classification",
                   action |-> "record_only", path |-> NoPath]
  <2>1. mutations' = mutations \cup {m} /\ nextId' = nextId + 1
    BY <1>2 DEF Classify, Record
  <2>2. m.id = nextId /\ m.file = f
    OBVIOUS
  <2>3. manifests' = manifests /\ f \in manifests
    BY <1>2 DEF Classify
  <2> HIDE DEF m
  <2> QED
    BY <2>1, <2>2, <2>3
<1>3. ASSUME Log(r)
      PROVE  /\ manifests \subseteq manifests'
             /\ \E m : /\ mutations' = mutations \cup {m} /\ m.id = nextId
                       /\ nextId' = nextId + 1 /\ m.file \in manifests'
  <2> DEFINE f == run[r].file
             m == [id |-> nextId, file |-> f, run |-> r, type |-> "mutation",
                   action |-> IF run[r].does = "moved" THEN "move" ELSE "create",
                   path |-> run[r].path]
  <2>1. mutations' = mutations \cup {m} /\ nextId' = nextId + 1
    BY <1>3 DEF Log, Record
  <2>2. m.id = nextId /\ m.file = f
    OBVIOUS
  <2>3. manifests' = manifests /\ f \in manifests
    BY <1>3 DEF Log
  <2> HIDE DEF m
  <2> QED
    BY <2>1, <2>2, <2>3
<1>4. ASSUME \/ \E f \in Files : Select(r, f)
             \/ Refuse(r) \/ Publish(r) \/ LoseEvidence(r)
             \/ \E place \in Places : Move(r, place)
      PROVE  UNCHANGED <<manifests, mutations, nextId>>
  BY <1>4 DEF Select, Refuse, Publish, LoseEvidence, Move
<1> QED
  BY <1>1, <1>2, <1>3, <1>4 DEF RunStep

(* A step of a Rollback records nothing. *)
LEMMA RollbacksForget ==
    ASSUME NEW b \in Rollbacks, RollbackStep(b)
    PROVE  mutations' \subseteq mutations /\ nextId' = nextId
<1>1. CASE Ungovern(b)
  BY <1>1 DEF Ungovern
<1>2. CASE Forget(b)
  BY <1>2 DEF Forget
<1>3. CASE Reverse(b)
  BY <1>3 DEF Reverse
<1>4. ASSUME \/ \E o \in Openings : Open(b, o) \/ ChooseScope(b, o)
             \/ Preview(b) \/ Execute(b) \/ Request(b)
             \/ Stop(b) \/ Look(b) \/ Complete(b) \/ Break(b)
      PROVE  UNCHANGED filesVars
  BY <1>4 DEF Open, ChooseScope, Preview, Execute, Request, Stop, Look, Complete, Break
<1> QED
  BY <1>1, <1>2, <1>3, <1>4 DEF RollbackStep, filesVars

(* Only Ungovern drops a file. *)
LEMMA OthersGovern ==
    ASSUME NEW b \in Rollbacks, RollbackStep(b), ~Ungovern(b)
    PROVE  UNCHANGED <<manifests, overtaken>>
<1>1. CASE Forget(b) \/ Reverse(b)
  BY <1>1 DEF RollbackStep, Forget, Reverse, drops, Look, Break, filesVars
<1>2. CASE Look(b) \/ Break(b)
  BY <1>2 DEF Look, Break, filesVars
<1>3. ASSUME \/ \E o \in Openings : Open(b, o) \/ ChooseScope(b, o)
             \/ Preview(b) \/ Execute(b) \/ Request(b) \/ Stop(b) \/ Complete(b)
      PROVE  UNCHANGED manifests
  BY <1>3 DEF Open, ChooseScope, Preview, Execute, Request, Stop, Complete, filesVars
<1> QED
  BY <1>1, <1>2, <1>3 DEF RollbackStep, drops

(* What a Rollback found without records has by now only such as were      *)
(* written since.                                                          *)
Since(d) ==
    /\ d.since \in Nat /\ d.since <= nextId
    /\ \A m \in mutations : m.file = d.file => d.since <= m.id

DropsInv ==
    /\ nextId \in Nat
    /\ drop = [b \in Rollbacks |-> drop[b]]
    /\ \A b \in Rollbacks : \A d \in drop[b] : Since(d)

LEMMA DropsStep == DropsInv /\ [Next]_vars => DropsInv'
<1> SUFFICES ASSUME DropsInv, [Next]_vars PROVE DropsInv'
  OBVIOUS
<1>1. ASSUME mutations' \subseteq mutations, nextId' = nextId, NEW d, Since(d)
      PROVE  Since(d)'
  BY <1>1 DEF Since
<1>2. ASSUME NEW r \in Runs, RunStep(r), UNCHANGED drop PROVE DropsInv'
  <2>1. ASSUME NEW m, mutations' = mutations \cup {m}, m.id = nextId,
               nextId' = nextId + 1, NEW d, Since(d)
        PROVE  Since(d)'
    BY <2>1 DEF Since, DropsInv
  <2>2. \A d : Since(d) => Since(d)'
    <3>1. CASE UNCHANGED <<mutations, nextId>>
      BY <1>1, <3>1
    <3> QED
      BY <1>2, <2>1, <3>1, RunsRecord
  <2>3. nextId' \in Nat
    BY <1>2, RunsRecord DEF DropsInv
  <2> QED
    BY <1>2, <2>2, <2>3 DEF DropsInv
<1>3. ASSUME NEW b \in Rollbacks, RollbackStep(b) PROVE DropsInv'
  <2>1. mutations' \subseteq mutations /\ nextId' = nextId
    BY <1>3, RollbacksForget
  <2>2. CASE Look(b)
    <3>1. PICK f : drop' = [drop EXCEPT ![b] = IF Unmentioned(f)
                               THEN {[file |-> f, since |-> nextId]} ELSE {}]
      BY <2>2 DEF Look
    <3>2. UNCHANGED mutations
      BY <2>2 DEF Look, filesVars
    <3>3. \A d \in drop'[b] : Since(d)'
      BY <2>1, <3>1, <3>2 DEF DropsInv, Unmentioned, History, Since
    <3>4. /\ drop' = [c \in Rollbacks |-> drop'[c]]
          /\ \A c \in Rollbacks : c # b => drop'[c] = drop[c]
      BY <3>1 DEF DropsInv
    <3> QED
      BY <1>1, <2>1, <3>3, <3>4 DEF DropsInv
  <2>3. CASE drop' = [drop EXCEPT ![b] = {}]
    <3>1. /\ drop' = [c \in Rollbacks |-> drop'[c]]
          /\ \A c \in Rollbacks : drop'[c] \subseteq drop[c]
      BY <2>3 DEF DropsInv
    <3> QED
      BY <1>1, <2>1, <3>1 DEF DropsInv
  <2>4. CASE UNCHANGED drop
    BY <1>1, <2>1, <2>4 DEF DropsInv
  <2> QED
    BY <1>3, <2>2, <2>3, <2>4 DEF RollbackStep, drops, Ungovern, Break
<1>4. CASE UNCHANGED vars
  <2>1. UNCHANGED <<mutations, nextId, drop>>
    BY <1>4 DEF vars, filesVars, rollbackVars, drops
  <2> QED
    BY <1>1, <2>1 DEF DropsInv
<1> QED
  BY <1>2, <1>3, <1>4 DEF Next, rollbackVars, drops

(* No step leaves a record of a file that is not governed, but one that    *)
(* was written while the file was about to be dropped.                     *)
LEMMA GovernedStep ==
    DropsInv /\ GovernedUnlessOvertaken /\ [Next]_vars => GovernedUnlessOvertaken'
<1> SUFFICES ASSUME DropsInv, GovernedUnlessOvertaken, [Next]_vars
             PROVE  GovernedUnlessOvertaken'
  OBVIOUS
<1>1. ASSUME NEW r \in Runs, RunStep(r), UNCHANGED overtaken
      PROVE  GovernedUnlessOvertaken'
  BY <1>1, RunsRecord DEF GovernedUnlessOvertaken
<1>2. ASSUME NEW b \in Rollbacks, Ungovern(b)
      PROVE  GovernedUnlessOvertaken'
  <2>1. PICK d \in drop[b] :
           /\ manifests' = manifests \ {d.file}
           /\ overtaken' = overtaken \cup {m \in History(d.file) : d.since <= m.id}
           /\ UNCHANGED mutations
    BY <1>2 DEF Ungovern
  <2>2. Since(d)
    BY DEF DropsInv
  <2> QED
    BY <2>1, <2>2 DEF Since, History, GovernedUnlessOvertaken
<1>3. ASSUME NEW b \in Rollbacks, RollbackStep(b), ~Ungovern(b)
      PROVE  GovernedUnlessOvertaken'
  BY <1>3, OthersGovern, RollbacksForget DEF GovernedUnlessOvertaken
<1>4. CASE UNCHANGED vars
  BY <1>4 DEF vars, filesVars, rollbackVars, drops, GovernedUnlessOvertaken
<1> QED
  BY <1>1, <1>2, <1>3, <1>4 DEF Next, rollbackVars, drops

(* A record belongs to a governed file, but for one that was written       *)
(* between a rollback's finding its file without records and its deleting  *)
(* the manifest, which are two calls of the database: what was recorded    *)
(* before is never stranded, whatever runs and rollbacks do beside.        *)
THEOREM RecordsAreGoverned == Spec => []GovernedUnlessOvertaken
<1>1. RollbackInit => DropsInv /\ GovernedUnlessOvertaken
  BY DEF RollbackInit, Init, DropsInv, GovernedUnlessOvertaken
<1> QED
  BY DropsStep, GovernedStep, <1>1, PTL DEF Spec

-----------------------------------------------------------------------------
(* What is reversed was shown.  The answer to a Rollback's request is a    *)
(* function of the records, so that it can be spoken of for records held   *)
(* before.                                                                 *)

AnsweredBy(M, o) ==
    LET anchors == {m \in M : m.id = o.id}
        within(m) == CASE o.scope = "file" -> {m.file}
                       [] o.scope = "run" -> {x.file : x \in {y \in M : y.run = m.run}}
                       [] OTHER -> Files
        asked == CASE o.by = "run"  -> {m \in M : m.run = o.run}
                   [] o.by = "file" -> {m \in M : o.scope = "installation" \/ m.file = o.file}
                   [] OTHER -> {m \in M : \E a \in anchors : m.file \in within(a)}
    IN IF o.by = "mutation" THEN AfterBoundary(asked, CHOOSE a \in anchors : TRUE)
       ELSE asked

(* The answer now is the one the present records give. *)
LEMMA AnswerIsAnsweredBy ==
    ASSUME NEW o
    PROVE  Answer(o) = AnsweredBy(mutations, o)
BY DEF Answer, AnsweredBy, Requested, Anchors, Within

(* Only records there are, are answered. *)
LEMMA AnswerIsOfRecords ==
    ASSUME NEW o
    PROVE  Answer(o) \subseteq mutations
BY DEF Answer, Requested, AfterBoundary

(* The records there are or that a preview shows. *)
Known == mutations \cup UNION {object[b].preview : b \in Rollbacks}

(* A record is told by its id, also one that is deleted meanwhile. *)
IdsTell ==
    /\ nextId \in Nat
    /\ \A m \in Known : m.id \in Nat /\ m.id < nextId
    /\ \A m, n \in Known : m.id = n.id => m = n

(* The reversals under way, and those done. *)
Reversals(b) == {x.record : x \in work[b].rows} \cup work[b].undone

ShownInv(b) ==
    /\ work[b].at = "rest" => work[b] = NotWorking
    /\ work[b].at # "rest" => object[b].phase = "executing"
    /\ work[b].at = "compared" =>
          /\ work[b].rows = {} /\ work[b].undone = {}
          /\ Ids(AnsweredBy(work[b].seen, object[b].opening)) = Ids(object[b].preview)
    /\ work[b].at \in {"reversing", "reversed", "manifests"} /\ work[b].same =>
          Reversals(b) \subseteq object[b].preview

ObjectOf(phase, opening, preview) ==
    [phase |-> phase, opening |-> opening, preview |-> preview]
WorkOf(at, seen, same, rows, undone, touched) ==
    [at |-> at, seen |-> seen, same |-> same, rows |-> rows, undone |-> undone,
     touched |-> touched]

ObjectsShaped ==
    /\ object = [b \in Rollbacks |-> object[b]]
    /\ \A b \in Rollbacks :
          object[b] = ObjectOf(object[b].phase, object[b].opening, object[b].preview)

WorksShaped ==
    /\ work = [b \in Rollbacks |-> work[b]]
    /\ \A b \in Rollbacks :
          work[b] = WorkOf(work[b].at, work[b].seen, work[b].same, work[b].rows,
                           work[b].undone, work[b].touched)

ShownIInv ==
    IdsTell /\ ObjectsShaped /\ WorksShaped /\ \A b \in Rollbacks : ShownInv(b)

(* Only the entry of one Rollback is set. *)
OnlyObject(b) == ObjectsShaped' /\ \A c \in Rollbacks : c # b => object'[c] = object[c]
OnlyWork(b) == WorksShaped' /\ \A c \in Rollbacks : c # b => work'[c] = work[c]

(* One Rollback's protocol set to another state. *)
LEMMA ObjectSet ==
    ASSUME ObjectsShaped, NEW b \in Rollbacks, NEW p, NEW o, NEW v,
           object' = [object EXCEPT ![b] = ObjectOf(p, o, v)]
    PROVE  /\ OnlyObject(b)
           /\ object'[b].phase = p /\ object'[b].opening = o /\ object'[b].preview = v
<1>1. object'[b] = ObjectOf(p, o, v) /\ object' = [c \in Rollbacks |-> object'[c]]
  BY DEF ObjectsShaped
<1>2. \A c \in Rollbacks : c # b => object'[c] = object[c]
  BY DEF ObjectsShaped
<1>3. object'[b].phase = p /\ object'[b].opening = o /\ object'[b].preview = v
  BY <1>1 DEF ObjectOf
<1>4. \A c \in Rollbacks :
        object'[c] = ObjectOf(object'[c].phase, object'[c].opening, object'[c].preview)
  <2> TAKE c \in Rollbacks
  <2>1. CASE c = b
    BY <1>1, <1>3, <2>1
  <2>2. CASE c # b
    BY <1>2, <2>2 DEF ObjectsShaped
  <2> QED
    BY <2>1, <2>2
<1> QED
  BY <1>1, <1>2, <1>3, <1>4 DEF OnlyObject, ObjectsShaped

(* An entry of the right shape among the others. *)
LEMMA WorkSet ==
    ASSUME WorksShaped, NEW b \in Rollbacks,
           work' = [c \in Rollbacks |-> work'[c]],
           \A c \in Rollbacks : c # b => work'[c] = work[c],
           work'[b] = WorkOf(work'[b].at, work'[b].seen, work'[b].same, work'[b].rows,
                             work'[b].undone, work'[b].touched)
    PROVE  OnlyWork(b)
<1>1. \A c \in Rollbacks :
        work'[c] = WorkOf(work'[c].at, work'[c].seen, work'[c].same, work'[c].rows,
                          work'[c].undone, work'[c].touched)
  <2> TAKE c \in Rollbacks
  <2>1. CASE c = b
    BY <2>1
  <2>2. CASE c # b
    BY <2>2 DEF WorksShaped
  <2> QED
    BY <2>1, <2>2
<1> QED
  BY <1>1 DEF OnlyWork, WorksShaped

(* The protocol's step. *)
LEMMA BecomesSets ==
    ASSUME ObjectsShaped, NEW b \in Rollbacks, NEW p, NEW v, Becomes(b, p, v)
    PROVE  /\ OnlyObject(b)
           /\ object'[b].phase = p /\ object'[b].opening = object[b].opening
           /\ object'[b].preview = v
<1>1. PICK q, o, w : object[b] = ObjectOf(q, o, w)
  BY DEF ObjectsShaped
<1>2. [[ObjectOf(q, o, w) EXCEPT !.phase = p] EXCEPT !.preview = v] = ObjectOf(p, o, v)
  <2>1. [ObjectOf(q, o, w) EXCEPT !.phase = p] = ObjectOf(p, o, w)
    BY DEF ObjectOf
  <2>2. [ObjectOf(p, o, w) EXCEPT !.preview = v] = ObjectOf(p, o, v)
    BY DEF ObjectOf
  <2> QED
    BY <2>1, <2>2
<1>3. object[b].opening = o
  BY <1>1 DEF ObjectOf
<1>4. object' = [object EXCEPT ![b] = [[object[b] EXCEPT !.phase = p] EXCEPT !.preview = v]]
  BY DEF Becomes, ObjectsShaped
<1>5. object' = [object EXCEPT ![b] = ObjectOf(p, o, v)]
  BY <1>1, <1>2, <1>4
<1> QED
  BY <1>3, <1>5, ObjectSet

(* The entry of a Rollback at rest has the shape of the others. *)
LEMMA RestIsIdle == NotWorking = WorkOf("rest", {}, TRUE, {}, {}, {})
BY DEF NotWorking, WorkOf

(* So has a Rollback that is not open. *)
LEMMA ClosedIs == Closed = ObjectOf("closed", {}, {})
BY DEF Closed, ObjectOf

(* One field after the other. *)
LEMMA WorkFields ==
    ASSUME NEW a, NEW s, NEW q, NEW r, NEW u, NEW t, NEW x
    PROVE  /\ [WorkOf(a, s, q, r, u, t) EXCEPT !.at = x] = WorkOf(x, s, q, r, u, t)
           /\ [WorkOf(a, s, q, r, u, t) EXCEPT !.seen = x] = WorkOf(a, x, q, r, u, t)
           /\ [WorkOf(a, s, q, r, u, t) EXCEPT !.same = x] = WorkOf(a, s, x, r, u, t)
           /\ [WorkOf(a, s, q, r, u, t) EXCEPT !.rows = x] = WorkOf(a, s, q, x, u, t)
           /\ [WorkOf(a, s, q, r, u, t) EXCEPT !.undone = x] = WorkOf(a, s, q, r, x, t)
           /\ [WorkOf(a, s, q, r, u, t) EXCEPT !.touched = x] = WorkOf(a, s, q, r, u, x)
<1>1. [WorkOf(a, s, q, r, u, t) EXCEPT !.at = x] = WorkOf(x, s, q, r, u, t)
  BY DEF WorkOf
<1>2. [WorkOf(a, s, q, r, u, t) EXCEPT !.seen = x] = WorkOf(a, x, q, r, u, t)
  BY DEF WorkOf
<1>3. [WorkOf(a, s, q, r, u, t) EXCEPT !.same = x] = WorkOf(a, s, x, r, u, t)
  BY DEF WorkOf
<1>4. [WorkOf(a, s, q, r, u, t) EXCEPT !.rows = x] = WorkOf(a, s, q, x, u, t)
  BY DEF WorkOf
<1>5. [WorkOf(a, s, q, r, u, t) EXCEPT !.undone = x] = WorkOf(a, s, q, r, x, t)
  BY DEF WorkOf
<1>6. [WorkOf(a, s, q, r, u, t) EXCEPT !.touched = x] = WorkOf(a, s, q, r, u, x)
  BY DEF WorkOf
<1> QED
  BY <1>1, <1>2, <1>3, <1>4, <1>5, <1>6

(* The steps of a reversal, as what they make of the entry: it only goes on. *)
LEMMA AtSets ==
    ASSUME WorksShaped, NEW b \in Rollbacks, NEW a,
           work' = [work EXCEPT ![b].at = a]
    PROVE  /\ OnlyWork(b)
           /\ work'[b].at = a /\ work'[b].seen = work[b].seen /\ work'[b].same = work[b].same
           /\ work'[b].rows = work[b].rows /\ work'[b].undone = work[b].undone
<1>1. PICK a0, s, q, r, u, t : work[b] = WorkOf(a0, s, q, r, u, t)
  BY DEF WorksShaped
<1>2. /\ work[b].at = a0 /\ work[b].seen = s /\ work[b].same = q /\ work[b].rows = r
      /\ work[b].undone = u /\ work[b].touched = t
  BY <1>1 DEF WorkOf
<1>3. work' = [work EXCEPT ![b] = [work[b] EXCEPT !.at = a]]
  BY DEF WorksShaped
<1>4. [work[b] EXCEPT !.at = a] = WorkOf(a, s, q, r, u, t)
  <2>1. [work[b] EXCEPT !.at = a] = WorkOf(a, s, q, r, u, t)
    BY <1>1, WorkFields
  <2> QED
    BY <2>1
<1>5. work' = [work EXCEPT ![b] = WorkOf(a, s, q, r, u, t)]
  BY <1>3, <1>4
<1>6. /\ work'[b] = WorkOf(a, s, q, r, u, t)
      /\ work' = [c \in Rollbacks |-> work'[c]]
      /\ \A c \in Rollbacks : c # b => work'[c] = work[c]
  BY <1>5 DEF WorksShaped
<1>7. /\ work'[b].at = a /\ work'[b].seen = s /\ work'[b].same = q
      /\ work'[b].rows = r /\ work'[b].undone = u /\ work'[b].touched = t
  <2>1. WorkOf(a, s, q, r, u, t).at = a
    BY DEF WorkOf
  <2>2. WorkOf(a, s, q, r, u, t).seen = s
    BY DEF WorkOf
  <2>3. WorkOf(a, s, q, r, u, t).same = q
    BY DEF WorkOf
  <2>4. WorkOf(a, s, q, r, u, t).rows = r
    BY DEF WorkOf
  <2>5. WorkOf(a, s, q, r, u, t).undone = u
    BY DEF WorkOf
  <2>6. WorkOf(a, s, q, r, u, t).touched = t
    BY DEF WorkOf
  <2> QED
    BY <1>6, <2>1, <2>2, <2>3, <2>4, <2>5, <2>6
<1>8. work'[b] = WorkOf(work'[b].at, work'[b].seen, work'[b].same, work'[b].rows,
                        work'[b].undone, work'[b].touched)
  BY <1>6, <1>7
<1>9. OnlyWork(b)
  BY <1>6, <1>8, WorkSet
<1> QED
  BY <1>2, <1>7, <1>9

(* What execute, the applied rollback's request and the deletion of a     *)
(* record set of the entry.                                                *)
Compared(b, a, M) == work' = [work EXCEPT ![b].at = a, ![b].seen = M]
Asked(b, a, M, e, R) ==
    work' = [work EXCEPT ![b].at = a, ![b].seen = M, ![b].same = e, ![b].rows = R]
Deleted(b, a, R, U, T) ==
    work' = [work EXCEPT ![b].at = a, ![b].rows = R, ![b].undone = U, ![b].touched = T]

(* execute *)
LEMMA ExecuteSets ==
    ASSUME WorksShaped, NEW b \in Rollbacks, NEW a, NEW M,
           Compared(b, a, M)
    PROVE  /\ OnlyWork(b)
           /\ work'[b].at = a /\ work'[b].seen = M /\ work'[b].same = work[b].same
           /\ work'[b].rows = work[b].rows /\ work'[b].undone = work[b].undone
<1>1. PICK a0, s, q, r, u, t : work[b] = WorkOf(a0, s, q, r, u, t)
  BY DEF WorksShaped
<1>2. /\ work[b].at = a0 /\ work[b].seen = s /\ work[b].same = q /\ work[b].rows = r
      /\ work[b].undone = u /\ work[b].touched = t
  BY <1>1 DEF WorkOf
<1>3. work' = [work EXCEPT ![b] = [[work[b] EXCEPT !.at = a] EXCEPT !.seen = M]]
  BY DEF WorksShaped, Compared
<1>4. [[work[b] EXCEPT !.at = a] EXCEPT !.seen = M] = WorkOf(a, M, q, r, u, t)
  <2>1. [work[b] EXCEPT !.at = a] = WorkOf(a, s, q, r, u, t)
    BY <1>1, WorkFields
  <2>2. [WorkOf(a, s, q, r, u, t) EXCEPT !.seen = M] = WorkOf(a, M, q, r, u, t)
    BY DEF WorkOf
  <2> QED
    BY <2>1, <2>2
<1>5. work' = [work EXCEPT ![b] = WorkOf(a, M, q, r, u, t)]
  BY <1>3, <1>4
<1>6. /\ work'[b] = WorkOf(a, M, q, r, u, t)
      /\ work' = [c \in Rollbacks |-> work'[c]]
      /\ \A c \in Rollbacks : c # b => work'[c] = work[c]
  BY <1>5 DEF WorksShaped
<1>7. /\ work'[b].at = a /\ work'[b].seen = M /\ work'[b].same = q
      /\ work'[b].rows = r /\ work'[b].undone = u /\ work'[b].touched = t
  <2>1. WorkOf(a, M, q, r, u, t).at = a
    BY DEF WorkOf
  <2>2. WorkOf(a, M, q, r, u, t).seen = M
    BY DEF WorkOf
  <2>3. WorkOf(a, M, q, r, u, t).same = q
    BY DEF WorkOf
  <2>4. WorkOf(a, M, q, r, u, t).rows = r
    BY DEF WorkOf
  <2>5. WorkOf(a, M, q, r, u, t).undone = u
    BY DEF WorkOf
  <2>6. WorkOf(a, M, q, r, u, t).touched = t
    BY DEF WorkOf
  <2> QED
    BY <1>6, <2>1, <2>2, <2>3, <2>4, <2>5, <2>6
<1>8. work'[b] = WorkOf(work'[b].at, work'[b].seen, work'[b].same, work'[b].rows,
                        work'[b].undone, work'[b].touched)
  BY <1>6, <1>7
<1>9. OnlyWork(b)
  BY <1>6, <1>8, WorkSet
<1> QED
  BY <1>2, <1>7, <1>9

(* The applied rollback's own request. *)
LEMMA RequestSets ==
    ASSUME WorksShaped, NEW b \in Rollbacks, NEW a, NEW M, NEW e, NEW R,
           Asked(b, a, M, e, R)
    PROVE  /\ OnlyWork(b)
           /\ work'[b].at = a /\ work'[b].seen = M /\ work'[b].same = e
           /\ work'[b].rows = R /\ work'[b].undone = work[b].undone
<1>1. PICK a0, s, q, r, u, t : work[b] = WorkOf(a0, s, q, r, u, t)
  BY DEF WorksShaped
<1>2. /\ work[b].at = a0 /\ work[b].seen = s /\ work[b].same = q /\ work[b].rows = r
      /\ work[b].undone = u /\ work[b].touched = t
  BY <1>1 DEF WorkOf
<1>3. work' = [work EXCEPT ![b] =
          [[[[work[b] EXCEPT !.at = a] EXCEPT !.seen = M] EXCEPT !.same = e] EXCEPT !.rows = R]]
  BY DEF WorksShaped, Asked
<1>4. [[[[work[b] EXCEPT !.at = a] EXCEPT !.seen = M] EXCEPT !.same = e] EXCEPT !.rows = R]
      = WorkOf(a, M, e, R, u, t)
  <2>1. [work[b] EXCEPT !.at = a] = WorkOf(a, s, q, r, u, t)
    BY <1>1, WorkFields
  <2>2. [WorkOf(a, s, q, r, u, t) EXCEPT !.seen = M] = WorkOf(a, M, q, r, u, t)
    BY DEF WorkOf
  <2>3. [WorkOf(a, M, q, r, u, t) EXCEPT !.same = e] = WorkOf(a, M, e, r, u, t)
    BY DEF WorkOf
  <2>4. [WorkOf(a, M, e, r, u, t) EXCEPT !.rows = R] = WorkOf(a, M, e, R, u, t)
    BY DEF WorkOf
  <2> QED
    BY <2>1, <2>2, <2>3, <2>4
<1>5. work' = [work EXCEPT ![b] = WorkOf(a, M, e, R, u, t)]
  BY <1>3, <1>4
<1>6. /\ work'[b] = WorkOf(a, M, e, R, u, t)
      /\ work' = [c \in Rollbacks |-> work'[c]]
      /\ \A c \in Rollbacks : c # b => work'[c] = work[c]
  BY <1>5 DEF WorksShaped
<1>7. /\ work'[b].at = a /\ work'[b].seen = M /\ work'[b].same = e
      /\ work'[b].rows = R /\ work'[b].undone = u /\ work'[b].touched = t
  <2>1. WorkOf(a, M, e, R, u, t).at = a
    BY DEF WorkOf
  <2>2. WorkOf(a, M, e, R, u, t).seen = M
    BY DEF WorkOf
  <2>3. WorkOf(a, M, e, R, u, t).same = e
    BY DEF WorkOf
  <2>4. WorkOf(a, M, e, R, u, t).rows = R
    BY DEF WorkOf
  <2>5. WorkOf(a, M, e, R, u, t).undone = u
    BY DEF WorkOf
  <2>6. WorkOf(a, M, e, R, u, t).touched = t
    BY DEF WorkOf
  <2> QED
    BY <1>6, <2>1, <2>2, <2>3, <2>4, <2>5, <2>6
<1>8. work'[b] = WorkOf(work'[b].at, work'[b].seen, work'[b].same, work'[b].rows,
                        work'[b].undone, work'[b].touched)
  BY <1>6, <1>7
<1>9. OnlyWork(b)
  BY <1>6, <1>8, WorkSet
<1> QED
  BY <1>2, <1>7, <1>9

(* One record deleted. *)
LEMMA ForgetSets ==
    ASSUME WorksShaped, NEW b \in Rollbacks, NEW a, NEW R, NEW U, NEW T,
           Deleted(b, a, R, U, T)
    PROVE  /\ OnlyWork(b)
           /\ work'[b].at = a /\ work'[b].seen = work[b].seen /\ work'[b].same = work[b].same
           /\ work'[b].rows = R /\ work'[b].undone = U
<1>1. PICK a0, s, q, r, u, t : work[b] = WorkOf(a0, s, q, r, u, t)
  BY DEF WorksShaped
<1>2. /\ work[b].at = a0 /\ work[b].seen = s /\ work[b].same = q /\ work[b].rows = r
      /\ work[b].undone = u /\ work[b].touched = t
  BY <1>1 DEF WorkOf
<1>3. work' = [work EXCEPT ![b] =
          [[[[work[b] EXCEPT !.at = a] EXCEPT !.rows = R] EXCEPT !.undone = U] EXCEPT !.touched = T]]
  BY DEF WorksShaped, Deleted
<1>4. [[[[work[b] EXCEPT !.at = a] EXCEPT !.rows = R] EXCEPT !.undone = U] EXCEPT !.touched = T]
      = WorkOf(a, s, q, R, U, T)
  <2>1. [work[b] EXCEPT !.at = a] = WorkOf(a, s, q, r, u, t)
    BY <1>1, WorkFields
  <2>2. [WorkOf(a, s, q, r, u, t) EXCEPT !.rows = R] = WorkOf(a, s, q, R, u, t)
    BY DEF WorkOf
  <2>3. [WorkOf(a, s, q, R, u, t) EXCEPT !.undone = U] = WorkOf(a, s, q, R, U, t)
    BY DEF WorkOf
  <2>4. [WorkOf(a, s, q, R, U, t) EXCEPT !.touched = T] = WorkOf(a, s, q, R, U, T)
    BY DEF WorkOf
  <2> QED
    BY <2>1, <2>2, <2>3, <2>4
<1>5. work' = [work EXCEPT ![b] = WorkOf(a, s, q, R, U, T)]
  BY <1>3, <1>4
<1>6. /\ work'[b] = WorkOf(a, s, q, R, U, T)
      /\ work' = [c \in Rollbacks |-> work'[c]]
      /\ \A c \in Rollbacks : c # b => work'[c] = work[c]
  BY <1>5 DEF WorksShaped
<1>7. /\ work'[b].at = a /\ work'[b].seen = s /\ work'[b].same = q
      /\ work'[b].rows = R /\ work'[b].undone = U /\ work'[b].touched = T
  <2>1. WorkOf(a, s, q, R, U, T).at = a
    BY DEF WorkOf
  <2>2. WorkOf(a, s, q, R, U, T).seen = s
    BY DEF WorkOf
  <2>3. WorkOf(a, s, q, R, U, T).same = q
    BY DEF WorkOf
  <2>4. WorkOf(a, s, q, R, U, T).rows = R
    BY DEF WorkOf
  <2>5. WorkOf(a, s, q, R, U, T).undone = U
    BY DEF WorkOf
  <2>6. WorkOf(a, s, q, R, U, T).touched = T
    BY DEF WorkOf
  <2> QED
    BY <1>6, <2>1, <2>2, <2>3, <2>4, <2>5, <2>6
<1>8. work'[b] = WorkOf(work'[b].at, work'[b].seen, work'[b].same, work'[b].rows,
                        work'[b].undone, work'[b].touched)
  BY <1>6, <1>7
<1>9. OnlyWork(b)
  BY <1>6, <1>8, WorkSet
<1> QED
  BY <1>2, <1>7, <1>9

(* One file looked at. *)
LEMMA TouchedSets ==
    ASSUME WorksShaped, NEW b \in Rollbacks, NEW T,
           work' = [work EXCEPT ![b].touched = T]
    PROVE  /\ OnlyWork(b)
           /\ work'[b].at = work[b].at /\ work'[b].seen = work[b].seen
           /\ work'[b].same = work[b].same
           /\ work'[b].rows = work[b].rows /\ work'[b].undone = work[b].undone
<1>1. PICK a0, s, q, r, u, t : work[b] = WorkOf(a0, s, q, r, u, t)
  BY DEF WorksShaped
<1>2. /\ work[b].at = a0 /\ work[b].seen = s /\ work[b].same = q /\ work[b].rows = r
      /\ work[b].undone = u /\ work[b].touched = t
  BY <1>1 DEF WorkOf
<1>3. work' = [work EXCEPT ![b] = [work[b] EXCEPT !.touched = T]]
  BY DEF WorksShaped
<1>4. [work[b] EXCEPT !.touched = T] = WorkOf(a0, s, q, r, u, T)
  <2>1. [WorkOf(a0, s, q, r, u, t) EXCEPT !.touched = T] = WorkOf(a0, s, q, r, u, T)
    BY DEF WorkOf
  <2> QED
    BY <1>1, <2>1
<1>5. work' = [work EXCEPT ![b] = WorkOf(a0, s, q, r, u, T)]
  BY <1>3, <1>4
<1>6. /\ work'[b] = WorkOf(a0, s, q, r, u, T)
      /\ work' = [c \in Rollbacks |-> work'[c]]
      /\ \A c \in Rollbacks : c # b => work'[c] = work[c]
  BY <1>5 DEF WorksShaped
<1>7. /\ work'[b].at = a0 /\ work'[b].seen = s /\ work'[b].same = q
      /\ work'[b].rows = r /\ work'[b].undone = u /\ work'[b].touched = T
  <2>1. WorkOf(a0, s, q, r, u, T).at = a0
    BY DEF WorkOf
  <2>2. WorkOf(a0, s, q, r, u, T).seen = s
    BY DEF WorkOf
  <2>3. WorkOf(a0, s, q, r, u, T).same = q
    BY DEF WorkOf
  <2>4. WorkOf(a0, s, q, r, u, T).rows = r
    BY DEF WorkOf
  <2>5. WorkOf(a0, s, q, r, u, T).undone = u
    BY DEF WorkOf
  <2>6. WorkOf(a0, s, q, r, u, T).touched = T
    BY DEF WorkOf
  <2> QED
    BY <1>6, <2>1, <2>2, <2>3, <2>4, <2>5, <2>6
<1>8. work'[b] = WorkOf(work'[b].at, work'[b].seen, work'[b].same, work'[b].rows,
                        work'[b].undone, work'[b].touched)
  BY <1>6, <1>7
<1>9. OnlyWork(b)
  BY <1>6, <1>8, WorkSet
<1> QED
  BY <1>2, <1>7, <1>9

(* One Rollback moves, the others stand still, and no record is new. *)
LEMMA OneMoves ==
    ASSUME ShownIInv, NEW b \in Rollbacks, OnlyObject(b), OnlyWork(b),
           mutations' \subseteq mutations, nextId' = nextId,
           object'[b].preview \subseteq Known, ShownInv(b)'
    PROVE  ShownIInv'
<1>1. Known' \subseteq Known
  BY DEF Known, OnlyObject
<1>2. IdsTell'
  BY <1>1 DEF ShownIInv, IdsTell
<1>3. \A c \in Rollbacks : c # b => ShownInv(c)'
  BY DEF ShownIInv, ShownInv, Reversals, OnlyObject, OnlyWork
<1> QED
  BY <1>2, <1>3 DEF ShownIInv, OnlyObject, OnlyWork

(* Entries that stay as they are, or return to rest. *)
LEMMA Still ==
    ASSUME ObjectsShaped, WorksShaped, NEW b \in Rollbacks
    PROVE  /\ UNCHANGED object => OnlyObject(b)
           /\ UNCHANGED work => OnlyWork(b)
<1>1. ASSUME UNCHANGED object PROVE OnlyObject(b)
  BY <1>1 DEF OnlyObject, ObjectsShaped
<1>2. ASSUME UNCHANGED work PROVE OnlyWork(b)
  BY <1>2 DEF OnlyWork, WorksShaped
<1> QED
  BY <1>1, <1>2

(* A call that ends leaves nothing of it. *)
LEMMA IdleSets ==
    ASSUME WorksShaped, NEW b \in Rollbacks, work' = [work EXCEPT ![b] = NotWorking]
    PROVE  OnlyWork(b) /\ work'[b] = NotWorking
<1>1. /\ work'[b] = NotWorking
      /\ work' = [c \in Rollbacks |-> work'[c]]
      /\ \A c \in Rollbacks : c # b => work'[c] = work[c]
  BY DEF WorksShaped
<1>2. /\ NotWorking.at = "rest" /\ NotWorking.seen = {} /\ NotWorking.same = TRUE
      /\ NotWorking.rows = {} /\ NotWorking.undone = {} /\ NotWorking.touched = {}
  BY DEF NotWorking
<1>3. work'[b] = WorkOf(work'[b].at, work'[b].seen, work'[b].same, work'[b].rows,
                        work'[b].undone, work'[b].touched)
  BY <1>1, <1>2, RestIsIdle
<1> QED
  BY <1>1, <1>3, WorkSet

(* A Rollback lost with its process. *)
LEMMA ClosedSets ==
    ASSUME ObjectsShaped, NEW b \in Rollbacks, object' = [object EXCEPT ![b] = Closed]
    PROVE  OnlyObject(b) /\ object'[b].preview = {}
<1>1. /\ object'[b] = Closed
      /\ object' = [c \in Rollbacks |-> object'[c]]
      /\ \A c \in Rollbacks : c # b => object'[c] = object[c]
  BY DEF ObjectsShaped
<1>2. object'[b] = ObjectOf("closed", {}, {})
  BY <1>1, ClosedIs
<1>3. object'[b].phase = "closed" /\ object'[b].opening = {} /\ object'[b].preview = {}
  BY <1>2 DEF ObjectOf
<1>4. \A c \in Rollbacks :
        object'[c] = ObjectOf(object'[c].phase, object'[c].opening, object'[c].preview)
  <2> TAKE c \in Rollbacks
  <2>1. CASE c = b
    BY <1>2, <1>3, <2>1
  <2>2. CASE c # b
    BY <1>1, <2>2 DEF ObjectsShaped
  <2> QED
    BY <2>1, <2>2
<1> QED
  BY <1>1, <1>3, <1>4 DEF OnlyObject, ObjectsShaped

(* A Rollback that opens, or takes another scope. *)
LEMMA OpenSets ==
    ASSUME ObjectsShaped, NEW b \in Rollbacks, NEW o,
           object' = [object EXCEPT ![b] =
                         [phase |-> "request", opening |-> o, preview |-> {}]]
    PROVE  OnlyObject(b) /\ object'[b].preview = {}
<1>1. /\ object'[b] = [phase |-> "request", opening |-> o, preview |-> {}]
      /\ object' = [c \in Rollbacks |-> object'[c]]
      /\ \A c \in Rollbacks : c # b => object'[c] = object[c]
  BY DEF ObjectsShaped
<1>2. object'[b] = ObjectOf("request", o, {})
  BY <1>1 DEF ObjectOf
<1>3. object'[b].phase = "request" /\ object'[b].opening = o /\ object'[b].preview = {}
  BY <1>2 DEF ObjectOf
<1>4. \A c \in Rollbacks :
        object'[c] = ObjectOf(object'[c].phase, object'[c].opening, object'[c].preview)
  <2> TAKE c \in Rollbacks
  <2>1. CASE c = b
    BY <1>2, <1>3, <2>1
  <2>2. CASE c # b
    BY <1>1, <2>2 DEF ObjectsShaped
  <2> QED
    BY <2>1, <2>2
<1> QED
  BY <1>1, <1>3, <1>4 DEF OnlyObject, ObjectsShaped

(* At rest nothing is under way. *)
LEMMA AtRestShown ==
    ASSUME NEW b \in Rollbacks, work'[b] = NotWorking
    PROVE  ShownInv(b)'
<1>1. work'[b].at = "rest"
  BY DEF NotWorking
<1> QED
  BY <1>1 DEF ShownInv

(* The steps that leave a Rollback at rest. *)
LEMMA RestingSteps ==
    ASSUME ShownIInv, NEW b \in Rollbacks,
           \/ \E o \in Openings : Open(b, o) \/ ChooseScope(b, o)
           \/ Preview(b) \/ Complete(b) \/ Break(b)
    PROVE  ShownIInv'
<1>1. ObjectsShaped /\ WorksShaped /\ ShownInv(b) /\ mutations \subseteq Known
  BY DEF ShownIInv, Known
<1>2. object[b].preview \subseteq Known
  BY DEF Known
<1>3. UNCHANGED filesVars => mutations' \subseteq mutations /\ nextId' = nextId
  BY DEF filesVars
<1>4. ASSUME OnlyObject(b), object'[b].preview \subseteq Known, OnlyWork(b),
             work'[b] = NotWorking, UNCHANGED filesVars
      PROVE  ShownIInv'
  BY <1>3, <1>4, AtRestShown, OneMoves
<1>5. ASSUME work[b].at = "rest", UNCHANGED work
      PROVE  OnlyWork(b) /\ work'[b] = NotWorking
  BY <1>1, <1>5, Still DEF ShownInv
<1>6. ASSUME NEW o \in Openings, Open(b, o) \/ ChooseScope(b, o)
      PROVE  ShownIInv'
  <2>1. work[b].at = "rest"
    BY <1>1, <1>6 DEF Open, ChooseScope, Free, ShownInv
  <2>2. UNCHANGED <<filesVars, work>>
    BY <1>6 DEF Open, ChooseScope
  <2>3. OnlyObject(b) /\ object'[b].preview = {}
    BY <1>1, <1>6, OpenSets DEF Open, ChooseScope
  <2> QED
    BY <1>4, <1>5, <2>1, <2>2, <2>3
<1>7. ASSUME NEW p, NEW v, Becomes(b, p, v), v \subseteq Known
      PROVE  OnlyObject(b) /\ object'[b].preview \subseteq Known
  BY <1>1, <1>7, BecomesSets
<1>8. CASE Preview(b)
  <2>1. work[b].at = "rest" /\ UNCHANGED <<filesVars, work>>
    BY <1>8 DEF Preview, Free
  <2>2. Answer(object[b].opening) \subseteq Known
    BY <1>1, AnswerIsOfRecords
  <2>3. \/ Becomes(b, "request", {})
        \/ Becomes(b, "confirmation", Answer(object[b].opening))
    BY <1>8 DEF Preview
  <2> QED
    BY <1>4, <1>5, <1>7, <2>1, <2>2, <2>3
<1>9. CASE Complete(b)
  <2>1. OnlyWork(b) /\ work'[b] = NotWorking /\ UNCHANGED filesVars
    BY <1>1, <1>9, IdleSets DEF Complete
  <2>2. Becomes(b, "complete", {})
    BY <1>9 DEF Complete
  <2> QED
    BY <1>4, <1>7, <2>1, <2>2
<1>10. CASE Break(b)
  <2>1. OnlyWork(b) /\ work'[b] = NotWorking /\ UNCHANGED filesVars
    BY <1>1, <1>10, IdleSets DEF Break
  <2>2. CASE Becomes(b, "request", {})
    BY <1>4, <1>7, <2>1, <2>2
  <2>3. CASE UNCHANGED object
    BY <1>1, <1>2, <1>4, <2>1, <2>3, Still
  <2>4. CASE object' = [object EXCEPT ![b] = Closed]
    BY <1>1, <1>4, <2>1, <2>4, ClosedSets
  <2> QED
    BY <1>10, <2>2, <2>3, <2>4 DEF Break
<1> QED
  BY <1>6, <1>8, <1>9, <1>10

(* execute: what is reached now is what the preview showed. *)
LEMMA ExecuteStep ==
    ASSUME ShownIInv, NEW b \in Rollbacks, Execute(b)
    PROVE  ShownIInv'
<1>1. ObjectsShaped /\ WorksShaped /\ ShownInv(b)
  BY DEF ShownIInv
<1>2. work[b] = NotWorking /\ UNCHANGED filesVars
  BY <1>1 DEF Execute, Free, ShownInv
<1>3. mutations' \subseteq mutations /\ nextId' = nextId
  BY <1>2 DEF filesVars
<1>4. object[b].preview \subseteq Known
  BY DEF Known
<1>5. CASE StillAsPreviewed(b)
  <2>1. /\ Becomes(b, "executing", object[b].preview)
        /\ Compared(b, "compared", mutations)
    BY <1>5 DEF Execute, Compared
  <2>2. /\ OnlyObject(b) /\ object'[b].phase = "executing"
        /\ object'[b].opening = object[b].opening
        /\ object'[b].preview = object[b].preview
    BY <1>1, <2>1, BecomesSets
  <2>3. /\ OnlyWork(b) /\ work'[b].at = "compared" /\ work'[b].seen = mutations
        /\ work'[b].rows = work[b].rows /\ work'[b].undone = work[b].undone
    BY <1>1, <2>1, ExecuteSets
  <2>4. work'[b].rows = {} /\ work'[b].undone = {}
    BY <1>2, <2>3 DEF NotWorking
  <2>5. Ids(AnsweredBy(mutations, object[b].opening)) = Ids(object[b].preview)
    BY <1>5, AnswerIsAnsweredBy DEF StillAsPreviewed
  <2>6. ShownInv(b)'
    BY <2>2, <2>3, <2>4, <2>5 DEF ShownInv
  <2> QED
    BY <1>3, <1>4, <2>2, <2>3, <2>6, OneMoves
<1>6. CASE ~StillAsPreviewed(b)
  <2>1. Becomes(b, "request", {}) /\ UNCHANGED work
    BY <1>6 DEF Execute
  <2>2. OnlyObject(b) /\ object'[b].preview = {}
    BY <1>1, <2>1, BecomesSets
  <2>3. OnlyWork(b) /\ work'[b] = NotWorking
    BY <1>1, <1>2, <2>1, Still
  <2> QED
    BY <1>3, <2>2, <2>3, AtRestShown, OneMoves
<1> QED
  BY <1>5, <1>6

(* Records that go by the same ids are the same. *)
LEMMA SameIdsSameRecords ==
    ASSUME IdsTell, NEW M, NEW N, M \subseteq Known, N \subseteq Known, Ids(M) = Ids(N)
    PROVE  M \subseteq N
<1> SUFFICES ASSUME NEW m \in M PROVE m \in N
  OBVIOUS
<1>1. m.id \in Ids(N)
  BY DEF Ids
<1>2. PICK n \in N : n.id = m.id
  BY <1>1 DEF Ids
<1> QED
  BY <1>2 DEF IdsTell

(* The rows of records are theirs. *)
LEMMA RowsAreOf ==
    ASSUME NEW M
    PROVE  {x.record : x \in Rows(M)} = M
<1> DEFINE row(m) == [record |-> m, to |-> RestoreTo(m)]
<1>1. \A m \in M : row(m).record = m
  OBVIOUS
<1>2. Rows(M) = {row(m) : m \in M}
  BY DEF Rows
<1> HIDE DEF row
<1>3. {x.record : x \in Rows(M)} \subseteq M
  BY <1>1, <1>2
<1>4. M \subseteq {x.record : x \in Rows(M)}
  BY <1>1, <1>2
<1> QED
  BY <1>3, <1>4

(* The records are those that were compared. *)
AsCompared(b) == mutations = work[b].seen

(* The applied rollback's own request: the records not having changed, it  *)
(* is answered what was compared.                                          *)
LEMMA RequestStep ==
    ASSUME ShownIInv, NEW b \in Rollbacks, Request(b)
    PROVE  ShownIInv'
<1>1. ObjectsShaped /\ WorksShaped /\ ShownInv(b) /\ IdsTell
  BY DEF ShownIInv
<1>2. UNCHANGED filesVars /\ work[b].at = "compared"
  BY DEF Request
<1>3. mutations' \subseteq mutations /\ nextId' = nextId
  BY <1>2 DEF filesVars
<1>4. object[b].preview \subseteq Known
  BY DEF Known
<1>5. CASE Refused(object[b].opening)
  <2>1. OnlyWork(b) /\ work'[b] = NotWorking
    BY <1>1, <1>5, IdleSets DEF Request
  <2>2. OnlyObject(b) /\ object'[b].preview = {}
    BY <1>1, <1>5, BecomesSets DEF Request
  <2> QED
    BY <1>3, <2>1, <2>2, AtRestShown, OneMoves
<1>6. CASE ~Refused(object[b].opening)
  <2>1. /\ Asked(b, "reversing", {}, AsCompared(b),
                 Rows(Answer(object[b].opening)))
        /\ UNCHANGED object
    BY <1>6 DEF Request, Asked, AsCompared
  <2>2. /\ OnlyWork(b) /\ work'[b].at = "reversing"
        /\ work'[b].same = AsCompared(b)
        /\ work'[b].rows = Rows(Answer(object[b].opening))
        /\ work'[b].undone = work[b].undone
    BY <1>1, <2>1, RequestSets
  <2>3. work[b].undone = {}
    BY <1>1, <1>2 DEF ShownInv
  <2>4. {x.record : x \in Rows(Answer(object[b].opening))} = Answer(object[b].opening)
    BY RowsAreOf
  <2>5. Reversals(b)' = Answer(object[b].opening)
    BY <2>2, <2>3, <2>4 DEF Reversals
  <2>6. ASSUME AsCompared(b)
        PROVE  Answer(object[b].opening) \subseteq object[b].preview
    <3>1. Ids(Answer(object[b].opening)) = Ids(object[b].preview)
      BY <1>1, <1>2, <2>6, AnswerIsAnsweredBy DEF ShownInv, AsCompared
    <3>2. Answer(object[b].opening) \subseteq Known
      BY AnswerIsOfRecords DEF Known
    <3> QED
      BY <1>1, <1>4, <3>1, <3>2, SameIdsSameRecords
  <2>7. work'[b].same => Reversals(b)' \subseteq object[b].preview
    BY <2>2, <2>5, <2>6
  <2>8. object'[b].phase = "executing"
    BY <1>1, <1>2, <2>1 DEF ShownInv
  <2>9. ShownInv(b)'
    BY <2>1, <2>2, <2>7, <2>8 DEF ShownInv
  <2>10. OnlyObject(b)
    BY <1>1, <2>1, Still
  <2> QED
    BY <1>3, <1>4, <2>1, <2>2, <2>9, <2>10, OneMoves
<1> QED
  BY <1>5, <1>6

(* What goes on reverses nothing that was not to be. *)
LEMMA ReversingGoesOn ==
    ASSUME ShownIInv, NEW b \in Rollbacks, OnlyWork(b), UNCHANGED object,
           mutations' \subseteq mutations, nextId' = nextId,
           work[b].at \in {"reversing", "reversed", "manifests"},
           work'[b].at \in {"reversing", "reversed", "manifests"},
           work'[b].same = work[b].same, Reversals(b)' \subseteq Reversals(b)
    PROVE  ShownIInv'
<1>1. ObjectsShaped /\ WorksShaped /\ ShownInv(b)
  BY DEF ShownIInv
<1>2. OnlyObject(b)
  BY <1>1, Still
<1>3. object[b].preview \subseteq Known
  BY DEF Known
<1>4. work'[b].same => Reversals(b)' \subseteq object'[b].preview
  BY <1>1 DEF ShownInv
<1>5. ShownInv(b)'
  BY <1>1, <1>4 DEF ShownInv
<1> QED
  BY <1>2, <1>3, <1>5, OneMoves

(* The steps of a reversal: a record is undone, then deleted, and nothing  *)
(* is added to what was to be reversed.                                    *)
LEMMA ReversalSteps ==
    ASSUME ShownIInv, NEW b \in Rollbacks, RollbackStep(b),
           Reverse(b) \/ Forget(b) \/ Stop(b) \/ Look(b) \/ Ungovern(b)
    PROVE  ShownIInv'
<1>1. WorksShaped
  BY DEF ShownIInv
<1>3. mutations' \subseteq mutations /\ nextId' = nextId
  BY RollbacksForget
<1>4. CASE Reverse(b)
  <2>1. /\ work[b].at = "reversing" /\ UNCHANGED object
        /\ work' = [work EXCEPT ![b].at = "reversed"]
    BY <1>4 DEF Reverse
  <2>2. /\ OnlyWork(b) /\ work'[b].at = "reversed" /\ work'[b].same = work[b].same
        /\ work'[b].rows = work[b].rows /\ work'[b].undone = work[b].undone
    BY <1>1, <2>1, AtSets
  <2>3. Reversals(b)' \subseteq Reversals(b)
    BY <2>2 DEF Reversals
  <2> QED
    BY <1>3, <2>1, <2>2, <2>3, ReversingGoesOn
<1>5. CASE Stop(b)
  <2>1. /\ work[b].at = "reversing" /\ UNCHANGED object
        /\ work' = [work EXCEPT ![b].at = "manifests"]
    BY <1>5 DEF Stop
  <2>2. /\ OnlyWork(b) /\ work'[b].at = "manifests" /\ work'[b].same = work[b].same
        /\ work'[b].rows = work[b].rows /\ work'[b].undone = work[b].undone
    BY <1>1, <2>1, AtSets
  <2>3. Reversals(b)' \subseteq Reversals(b)
    BY <2>2 DEF Reversals
  <2> QED
    BY <1>3, <2>1, <2>2, <2>3, ReversingGoesOn
<1>6. CASE Forget(b)
  <2>1. PICK x \in Newest(b) :
           /\ work[b].at = "reversed"
           /\ Deleted(b, "reversing", work[b].rows \ {x},
                      work[b].undone \cup {x.record},
                      work[b].touched \cup {x.record.file})
           /\ UNCHANGED object
    BY <1>6 DEF Forget, Deleted
  <2>2. /\ OnlyWork(b) /\ work'[b].at = "reversing" /\ work'[b].same = work[b].same
        /\ work'[b].rows = work[b].rows \ {x}
        /\ work'[b].undone = work[b].undone \cup {x.record}
    BY <1>1, <2>1, ForgetSets
  <2>3. x \in work[b].rows
    BY DEF Newest
  <2>4. Reversals(b)' \subseteq Reversals(b)
    BY <2>2, <2>3 DEF Reversals
  <2> QED
    BY <1>3, <2>1, <2>2, <2>4, ReversingGoesOn
<1>7. CASE Look(b)
  <2>1. PICK f \in work[b].touched :
           /\ work[b].at = "manifests" /\ UNCHANGED object
           /\ work' = [work EXCEPT ![b].touched = work[b].touched \ {f}]
    BY <1>7 DEF Look
  <2>2. /\ OnlyWork(b) /\ work'[b].at = work[b].at /\ work'[b].same = work[b].same
        /\ work'[b].rows = work[b].rows /\ work'[b].undone = work[b].undone
    BY <1>1, <2>1, TouchedSets
  <2>3. Reversals(b)' \subseteq Reversals(b)
    BY <2>2 DEF Reversals
  <2> QED
    BY <1>3, <2>1, <2>2, <2>3, ReversingGoesOn
<1>8. CASE Ungovern(b)
  <2>1. UNCHANGED <<object, work, mutations, nextId>>
    BY <1>8 DEF Ungovern
  <2> QED
    BY <2>1 DEF ShownIInv, IdsTell, Known, ObjectsShaped, WorksShaped, ShownInv, Reversals
<1> QED
  BY <1>4, <1>5, <1>6, <1>7, <1>8

(* A run's step records under a new id; no Rollback is touched. *)
LEMMA RunsShow ==
    ASSUME ShownIInv, NEW r \in Runs, RunStep(r), UNCHANGED rollbackVars
    PROVE  ShownIInv'
<1>1. UNCHANGED object /\ UNCHANGED work
  BY DEF rollbackVars
<1>2. /\ ObjectsShaped' /\ WorksShaped'
      /\ \A b \in Rollbacks : ShownInv(b)'
  BY <1>1 DEF ShownIInv, ObjectsShaped, WorksShaped, ShownInv, Reversals
<1>3. CASE UNCHANGED <<mutations, nextId>>
  BY <1>1, <1>2, <1>3 DEF ShownIInv, IdsTell, Known
<1>4. ASSUME NEW m, mutations' = mutations \cup {m}, m.id = nextId, nextId' = nextId + 1
      PROVE  IdsTell'
  <2>1. \A n \in Known' : n \in Known \/ n = m
    BY <1>1, <1>4 DEF Known
  <2>2. nextId \in Nat /\ \A n \in Known : n.id \in Nat /\ n.id < nextId
    BY DEF ShownIInv, IdsTell
  <2>3. \A n \in Known' : n.id \in Nat /\ n.id < nextId'
    BY <1>4, <2>1, <2>2
  <2>4. \A n, o \in Known' : n.id = o.id => n = o
    <3> SUFFICES ASSUME NEW n \in Known', NEW o \in Known', n.id = o.id PROVE n = o
      OBVIOUS
    <3>1. CASE n \in Known /\ o \in Known
      BY <3>1 DEF ShownIInv, IdsTell
    <3>2. CASE n = m /\ o = m
      BY <3>2
    <3>3. CASE n = m /\ o \in Known
      BY <1>4, <2>2, <3>3
    <3>4. CASE o = m /\ n \in Known
      BY <1>4, <2>2, <3>4
    <3> QED
      BY <2>1, <3>1, <3>2, <3>3, <3>4
  <2> QED
    BY <1>4, <2>2, <2>3, <2>4 DEF IdsTell
<1> QED
  BY <1>2, <1>3, <1>4, RunsRecord DEF ShownIInv

(* The invariant is inductive. *)
LEMMA ShownStep == ShownIInv /\ [Next]_vars => ShownIInv'
<1>1. ASSUME ShownIInv, NEW r \in Runs, RunStep(r), UNCHANGED rollbackVars
      PROVE  ShownIInv'
  BY <1>1, RunsShow
<1>2. ASSUME ShownIInv, NEW b \in Rollbacks, RollbackStep(b)
      PROVE  ShownIInv'
  BY <1>2, RestingSteps, ExecuteStep, RequestStep, ReversalSteps DEF RollbackStep
<1>3. ASSUME ShownIInv, UNCHANGED vars
      PROVE  ShownIInv'
  BY <1>3 DEF vars, filesVars, rollbackVars, ShownIInv, IdsTell, Known, ObjectsShaped,
              WorksShaped, ShownInv, Reversals
<1> QED
  BY <1>1, <1>2, <1>3 DEF Next

(* Nothing is open and nothing recorded at first. *)
LEMMA ShownInit == RollbackInit => ShownIInv
<1> SUFFICES ASSUME RollbackInit PROVE ShownIInv
  OBVIOUS
<1>1. /\ object = [b \in Rollbacks |-> Closed] /\ work = [b \in Rollbacks |-> NotWorking]
      /\ mutations = {} /\ nextId = 1
  BY DEF RollbackInit, Init
<1>2. \A b \in Rollbacks : object[b] = Closed /\ work[b] = NotWorking
  BY <1>1
<1>3. Closed.phase = "closed" /\ Closed.opening = {} /\ Closed.preview = {}
  BY DEF Closed
<1>4. ObjectsShaped
  <2>1. \A b \in Rollbacks :
          object[b] = ObjectOf(object[b].phase, object[b].opening, object[b].preview)
    BY <1>2, <1>3, ClosedIs
  <2>2. object = [b \in Rollbacks |-> object[b]]
    BY <1>1
  <2> QED
    BY <2>1, <2>2 DEF ObjectsShaped
<1>5. WorksShaped
  <2>1. /\ NotWorking.at = "rest" /\ NotWorking.seen = {} /\ NotWorking.same = TRUE
        /\ NotWorking.rows = {} /\ NotWorking.undone = {} /\ NotWorking.touched = {}
    BY DEF NotWorking
  <2>2. \A b \in Rollbacks :
          work[b] = WorkOf(work[b].at, work[b].seen, work[b].same, work[b].rows,
                           work[b].undone, work[b].touched)
    BY <1>2, <2>1, RestIsIdle
  <2>3. work = [b \in Rollbacks |-> work[b]]
    BY <1>1
  <2> QED
    BY <2>2, <2>3 DEF WorksShaped
<1>6. Known = {}
  BY <1>1, <1>2, <1>3 DEF Known
<1>7. IdsTell
  BY <1>1, <1>6 DEF IdsTell
<1>8. \A b \in Rollbacks : ShownInv(b)
  BY <1>2 DEF ShownInv, NotWorking
<1> QED
  BY <1>4, <1>5, <1>7, <1>8 DEF ShownIInv

(* What an execution reverses its preview showed, unless the records       *)
(* changed between the comparison and the applied rollback's own request:  *)
(* the ids Rollback.execute compares are enough, since no id is given      *)
(* twice.                                                                  *)
THEOREM ReversedWasShown == Spec => []ReversedWasShownUnlessChanged
<1>1. ShownIInv => ReversedWasShownUnlessChanged
  BY DEF ShownIInv, ShownInv, Reversals, ReversedWasShownUnlessChanged
<1> QED
  BY <1>1, ShownInit, ShownStep, PTL DEF Spec

-----------------------------------------------------------------------------
(* Boundaries.  A set of records with bounded ids has a newest and an      *)
(* oldest one.                                                             *)

(* A set of numbers has a least one. *)
LEMMA LeastOf ==
    ASSUME NEW S \in SUBSET Nat, S # {}
    PROVE  \E k \in S : \A j \in S : k <= j
<1> DEFINE R == {ss \in Nat \X Nat : ss[1] < ss[2]}
<1>1. IsWellFoundedOn(R, Nat)
  BY NatLessThanWellFounded DEF OpToRel
<1>2. PICK k \in S : \A j \in S : <<j, k>> \notin R
  <2> HIDE DEF R
  <2> QED
    BY <1>1, WFMin
<1>3. ASSUME NEW j \in S PROVE k <= j
  <2>1. <<j, k>> \notin R /\ <<j, k>> \in Nat \X Nat
    BY <1>2
  <2>2. <<j, k>>[1] = j /\ <<j, k>>[2] = k
    OBVIOUS
  <2> QED
    BY <2>1, <2>2
<1> QED
  BY <1>3

(* Records told apart by ids below a bound. *)
Numbered(M, l) ==
    /\ l \in Nat
    /\ \A m \in M : m.id \in Nat /\ m.id <= l
    /\ \A m, n \in M : m.id = n.id => m = n

(* The newest of numbered records is one of them, and the only one no      *)
(* other is newer than.                                                    *)
LEMMA NewestIs ==
    ASSUME NEW M, NEW l, Numbered(M, l), M # {}
    PROVE  /\ NewestOf(M) \in M
           /\ \A o \in M : o.id <= NewestOf(M).id
           /\ \A o \in M : (\A p \in M : p.id <= o.id) => o = NewestOf(M)
<1> DEFINE Gaps == {g \in Nat : \E m \in M : m.id + g = l}
<1>1. \A m \in M : l - m.id \in Gaps
  BY DEF Numbered
<1>2. PICK g \in Gaps : \A h \in Gaps : g <= h
  <2>1. Gaps \in SUBSET Nat /\ Gaps # {}
    BY <1>1
  <2> HIDE DEF Gaps
  <2> QED
    BY <2>1, LeastOf
<1>3. PICK m \in M : m.id + g = l
  BY <1>2
<1>4. \A o \in M : o.id <= m.id
  BY <1>1, <1>2, <1>3 DEF Numbered
<1>5. /\ NewestOf(M) \in M
      /\ \A o \in M : o.id <= NewestOf(M).id
  BY <1>4 DEF NewestOf
<1>6. ASSUME NEW o \in M, \A p \in M : p.id <= o.id PROVE o = NewestOf(M)
  <2>1. o.id = NewestOf(M).id
    BY <1>5, <1>6 DEF Numbered
  <2> QED
    BY <1>5, <1>6, <2>1 DEF Numbered
<1> QED
  BY <1>5, <1>6

(* So is the oldest, if there is one no other is older than. *)
LEMMA OldestIs ==
    ASSUME NEW M, NEW l, Numbered(M, l), NEW m \in M, \A o \in M : m.id <= o.id
    PROVE  OldestOf(M) = m
<1>1. OldestOf(M) \in M /\ \A o \in M : OldestOf(M).id <= o.id
  BY DEF OldestOf
<1>2. OldestOf(M).id = m.id
  BY <1>1 DEF Numbered
<1> QED
  BY <1>1, <1>2 DEF Numbered

(* What is shown keeps to the boundary the record with an id draws. *)
KeptTo(shown, id) ==
    LET a == CHOOSE m \in shown : m.id = id
    IN /\ \A m \in shown : m.file = a.file => a.id <= m.id
       /\ \A f \in Files \ {a.file} :
             LET of == {m \in shown : m.file = f}
             IN of # {} => OldestOf(of).type = a.type
                           /\ \A m \in of : m # OldestOf(of) => m.type # a.type

(* What is left of records after a boundary keeps to it. *)
LEMMA AfterBoundaryKeeps ==
    ASSUME NEW M, NEW l, Numbered(M, l), NEW a \in M
    PROVE  KeptTo(AfterBoundary(M, a), a.id)
<1> DEFINE shown == AfterBoundary(M, a)
           cut(f) == IF f = a.file THEN {a}
                     ELSE {m \in M : m.file = f /\ m.type = a.type}
<1>1. \A m : m \in shown <=> m \in M /\ cut(m.file) # {} /\ NewestOf(cut(m.file)).id <= m.id
  BY DEF AfterBoundary
<1>2. NewestOf({a}) = a
  <2>1. Numbered({a}, l)
    BY DEF Numbered
  <2> QED
    BY <2>1, NewestIs
<1>3. cut(a.file) = {a}
  OBVIOUS
<1>4. a \in shown
  <2>1. a.id <= a.id
    BY DEF Numbered
  <2> HIDE DEF cut, shown
  <2> QED
    BY <1>1, <1>2, <1>3, <2>1
<1>5. (CHOOSE m \in shown : m.id = a.id) = a
  BY <1>1, <1>4 DEF Numbered
<1>6. \A m \in shown : m.file = a.file => a.id <= m.id
  BY <1>1, <1>2, <1>3
<1>7. ASSUME NEW f \in Files \ {a.file}, {m \in shown : m.file = f} # {}
      PROVE  /\ OldestOf({m \in shown : m.file = f}).type = a.type
             /\ \A m \in {n \in shown : n.file = f} :
                   m # OldestOf({n \in shown : n.file = f}) => m.type # a.type
  <2> DEFINE of == {m \in shown : m.file = f}
             N == NewestOf(cut(f))
  <2>1. cut(f) = {m \in M : m.file = f /\ m.type = a.type}
    BY <1>7
  <2>2. cut(f) # {} /\ \A m \in of : N.id <= m.id
    BY <1>1, <1>7
  <2>3. N \in cut(f) /\ \A o \in cut(f) : o.id <= N.id
    <3>1. Numbered(cut(f), l)
      BY <2>1 DEF Numbered
    <3> HIDE DEF cut
    <3> QED
      BY <2>2, <3>1, NewestIs
  <2>4. N \in of
    <3>1. N \in M /\ N.file = f
      BY <2>1, <2>3
    <3>2. N.id <= N.id
      BY <3>1 DEF Numbered
    <3>3. N = NewestOf(cut(N.file))
      BY <3>1
    <3> HIDE DEF cut, N, shown
    <3>4. N \in shown
      BY <1>1, <2>2, <3>1, <3>2, <3>3
    <3> QED
      BY <3>1, <3>4
  <2>5. OldestOf(of) = N
    <3>1. Numbered(of, l)
      BY <1>1 DEF Numbered
    <3> HIDE DEF of, N
    <3> QED
      BY <2>2, <2>4, <3>1, OldestIs
  <2>6. ASSUME NEW m \in of, m # N PROVE m.type # a.type
    <3>1. m \in M /\ m.file = f /\ N.id <= m.id /\ N \in M
      BY <1>1, <2>1, <2>2, <2>3
    <3>2. m.id # N.id
      BY <2>6, <3>1 DEF Numbered
    <3>3. m.id \in Nat /\ N.id \in Nat
      BY <3>1 DEF Numbered
    <3>4. m \notin cut(f)
      <4> HIDE DEF cut, N, shown
      <4> QED
        BY <2>3, <3>1, <3>2, <3>3
    <3> QED
      BY <2>1, <3>1, <3>4
  <2>7. N.type = a.type
    BY <2>1, <2>3
  <2> HIDE DEF N
  <2> QED
    BY <2>5, <2>6, <2>7
<1> HIDE DEF shown
<1>8. KeptTo(shown, a.id)
  BY <1>5, <1>6, <1>7 DEF KeptTo
<1> QED
  BY <1>8 DEF shown

(* A preview from a mutation's boundary keeps to it. *)
Bounded(b) ==
    object[b].phase = "confirmation" /\ object[b].opening.by = "mutation"
      => KeptTo(object[b].preview, object[b].opening.id)

BoundaryInv ==
    /\ manifests \subseteq Files
    /\ \A m \in mutations : m.file \in Files
    /\ \A b \in Rollbacks : Bounded(b)

(* Only files are governed. *)
LEMMA FilesGoverned == manifests \subseteq Files /\ [Next]_vars => manifests' \subseteq Files
<1> SUFFICES ASSUME manifests \subseteq Files, [Next]_vars PROVE manifests' \subseteq Files
  OBVIOUS
<1>1. ASSUME NEW r \in Runs, RunStep(r) PROVE manifests' \subseteq Files
  BY <1>1 DEF RunStep, Inventory, Classify, Select, Refuse, Move, Publish, Log,
              LoseEvidence
<1>2. ASSUME NEW b \in Rollbacks, RollbackStep(b) PROVE manifests' \subseteq Files
  <2>1. CASE Ungovern(b)
    BY <2>1 DEF Ungovern
  <2>2. CASE Forget(b) \/ Reverse(b)
    BY <2>2 DEF Forget, Reverse
  <2>3. ASSUME \/ \E o \in Openings : Open(b, o) \/ ChooseScope(b, o)
               \/ Preview(b) \/ Execute(b) \/ Request(b)
               \/ Stop(b) \/ Look(b) \/ Complete(b) \/ Break(b)
        PROVE  UNCHANGED filesVars
    BY <2>3 DEF Open, ChooseScope, Preview, Execute, Request, Stop, Look, Complete, Break
  <2> QED
    BY <1>2, <2>1, <2>2, <2>3 DEF RollbackStep, filesVars
<1>3. CASE UNCHANGED vars
  BY <1>3 DEF vars, filesVars
<1> QED
  BY <1>1, <1>2, <1>3 DEF Next

(* Only files are recorded. *)
LEMMA FilesRecorded ==
    ASSUME manifests \subseteq Files, \A m \in mutations : m.file \in Files, [Next]_vars
    PROVE  \A m \in mutations' : m.file \in Files
<1>1. manifests' \subseteq Files
  BY FilesGoverned
<1>2. CASE \E r \in Runs : RunStep(r)
  BY <1>1, <1>2, RunsRecord
<1>3. CASE \E b \in Rollbacks : RollbackStep(b)
  BY <1>3, RollbacksForget
<1>4. CASE UNCHANGED vars
  BY <1>4 DEF vars, filesVars
<1> QED
  BY <1>2, <1>3, <1>4 DEF Next

(* What is answered from a mutation's boundary keeps to it. *)
LEMMA AnswerKeepsBoundary ==
    ASSUME IdsTell, \A m \in mutations : m.file \in Files,
           NEW o, o.by = "mutation", ~Refused(o)
    PROVE  KeptTo(Answer(o), o.id)
<1> DEFINE a == CHOOSE x \in Anchors(o) : TRUE
<1>1. Anchors(o) # {}
  BY DEF Refused
<1>2. a \in mutations /\ a.id = o.id
  BY <1>1 DEF Anchors
<1>3. a \in Requested(o)
  <2>1. a.file \in Files
    BY <1>2
  <2>2. a.file \in Within(a, o.scope)
    <3> HIDE DEF a
    <3>1. CASE o.scope = "file"
      BY <3>1 DEF Within
    <3>2. CASE o.scope = "run"
      <4>1. a \in {x \in mutations : x.run = a.run}
        BY <1>2
      <4>2. Within(a, o.scope) = {x.file : x \in {y \in mutations : y.run = a.run}}
        BY <3>2 DEF Within
      <4> QED
        BY <4>1, <4>2
    <3>3. CASE o.scope # "file" /\ o.scope # "run"
      BY <2>1, <3>3 DEF Within
    <3> QED
      BY <3>1, <3>2, <3>3
  <2>3. a \in Anchors(o)
    BY <1>1
  <2>4. Requested(o) = {m \in mutations : \E x \in Anchors(o) : m.file \in Within(x, o.scope)}
    BY DEF Requested
  <2> HIDE DEF a
  <2> QED
    BY <1>2, <2>2, <2>3, <2>4
<1>4. Numbered(Requested(o), nextId)
  BY DEF Numbered, Requested, IdsTell, Known
<1>5. Answer(o) = AfterBoundary(Requested(o), a)
  BY DEF Answer
<1> HIDE DEF a
<1> QED
  BY <1>2, <1>3, <1>4, <1>5, AfterBoundaryKeeps

(* A Rollback that moves shows for confirmation only a preview's answer. *)
LEMMA OnlyPreviewsConfirm ==
    ASSUME ObjectsShaped, NEW b \in Rollbacks, RollbackStep(b)
    PROVE  /\ \A c \in Rollbacks : c # b => object'[c] = object[c]
           /\ \/ object'[b] = object[b] \/ object'[b].phase # "confirmation"
              \/ /\ ~Refused(object[b].opening)
                 /\ object'[b].opening = object[b].opening
                 /\ object'[b].preview = Answer(object[b].opening)
<1>1. ASSUME NEW p, NEW v, Becomes(b, p, v), p # "confirmation"
      PROVE  /\ \A c \in Rollbacks : c # b => object'[c] = object[c]
             /\ object'[b].phase # "confirmation"
  BY <1>1, BecomesSets DEF OnlyObject
<1>2. ASSUME \E o \in Openings : Open(b, o) \/ ChooseScope(b, o)
      PROVE  /\ \A c \in Rollbacks : c # b => object'[c] = object[c]
             /\ object'[b].phase # "confirmation"
  BY <1>2 DEF Open, ChooseScope, ObjectsShaped
<1>3. CASE Preview(b)
  <2>1. CASE Refused(object[b].opening)
    BY <1>1, <1>3, <2>1 DEF Preview
  <2>2. CASE ~Refused(object[b].opening)
    <3>1. Becomes(b, "confirmation", Answer(object[b].opening))
      BY <1>3, <2>2 DEF Preview
    <3> QED
      BY <2>2, <3>1, BecomesSets DEF OnlyObject
  <2> QED
    BY <2>1, <2>2
<1>4. CASE Execute(b)
  <2>1. \/ Becomes(b, "executing", object[b].preview)
        \/ Becomes(b, "request", {})
    BY <1>4 DEF Execute
  <2> QED
    BY <1>1, <2>1
<1>5. CASE Request(b) \/ Complete(b)
  <2>1. UNCHANGED object \/ Becomes(b, "request", {}) \/ Becomes(b, "complete", {})
    BY <1>5 DEF Request, Complete
  <2> QED
    BY <1>1, <2>1
<1>6. CASE Reverse(b) \/ Forget(b) \/ Stop(b) \/ Look(b) \/ Ungovern(b)
  BY <1>6 DEF Reverse, Forget, Stop, Look, Ungovern
<1>7. CASE Break(b)
  <2>1. CASE object' = [object EXCEPT ![b] = Closed]
    BY <2>1 DEF Closed, ObjectsShaped
  <2>2. CASE UNCHANGED object \/ Becomes(b, "request", {})
    BY <1>1, <2>2
  <2> QED
    BY <1>7, <2>1, <2>2 DEF Break
<1> QED
  BY <1>2, <1>3, <1>4, <1>5, <1>6, <1>7 DEF RollbackStep

(* No step shows a preview that does not keep to its boundary. *)
LEMMA BoundaryStep == ShownIInv /\ BoundaryInv /\ [Next]_vars => BoundaryInv'
<1> SUFFICES ASSUME ShownIInv, BoundaryInv, [Next]_vars
             PROVE  \A b \in Rollbacks : Bounded(b)'
  BY FilesGoverned, FilesRecorded DEF BoundaryInv
<1>0. IdsTell /\ ObjectsShaped /\ \A m \in mutations : m.file \in Files
  BY DEF ShownIInv, BoundaryInv
<1>1. CASE UNCHANGED object
  BY <1>1 DEF BoundaryInv, Bounded
<1>2. ASSUME NEW b \in Rollbacks, RollbackStep(b) PROVE \A c \in Rollbacks : Bounded(c)'
  <2> TAKE c \in Rollbacks
  <2>1. CASE object'[c] = object[c]
    BY <2>1 DEF BoundaryInv, Bounded
  <2>2. CASE object'[c].phase # "confirmation"
    BY <2>2 DEF Bounded
  <2>3. CASE /\ ~Refused(object[c].opening)
             /\ object'[c].opening = object[c].opening
             /\ object'[c].preview = Answer(object[c].opening)
    <3>1. object[c].opening.by = "mutation"
            => KeptTo(Answer(object[c].opening), object[c].opening.id)
      BY <1>0, <2>3, AnswerKeepsBoundary
    <3> QED
      BY <2>3, <3>1 DEF Bounded
  <2> QED
    BY <1>0, <1>2, <2>1, <2>2, <2>3, OnlyPreviewsConfirm
<1> QED
  BY <1>1, <1>2 DEF Next, vars, rollbackVars

(* A preview from a mutation's boundary keeps to it: of the anchor's file  *)
(* it shows nothing before the anchor, and of every other file one record  *)
(* of the anchor's type, the latest, and what came after.                  *)
THEOREM BoundariesAreKept == Spec => []BoundaryKept
<1>1. BoundaryInv => BoundaryKept
  <2> SUFFICES ASSUME BoundaryInv, NEW b \in Rollbacks,
                      object[b].phase = "confirmation",
                      object[b].opening.by = "mutation"
               PROVE  KeptTo(object[b].preview, object[b].opening.id)
    BY DEF BoundaryKept, KeptTo
  <2> QED
    BY DEF BoundaryInv, Bounded
<1>2. RollbackInit => BoundaryInv
  <2> SUFFICES ASSUME RollbackInit PROVE BoundaryInv
    OBVIOUS
  <2>1. manifests = {} /\ mutations = {} /\ \A b \in Rollbacks : object[b] = Closed
    BY DEF RollbackInit, Init
  <2> QED
    BY <2>1 DEF BoundaryInv, Bounded, Closed
<1> QED
  BY <1>1, <1>2, ShownInit, ShownStep, BoundaryStep, PTL DEF Spec

-----------------------------------------------------------------------------
(* Where a file is.  HistoryTells is not true of several Rollbacks or runs *)
(* at once, nor where a route leads back: what follows is about one of     *)
(* each, and routes that lead on.                                          *)

(* Where a file can lie, and how far on a path is. *)
At(f) == Places \X {f}
Rank(p) == IF p[1] = "inbox" THEN 1 ELSE IF p[1] = "processing" THEN 2 ELSE 3

(* Routes lead on, from the inbox to the archive. *)
RoutesLeadOn ==
    \A p \in Places : \A q \in Routes[p] \cap Places : \A f \in Files :
        Rank(<<p, f>>) < Rank(<<q, f>>)

Placed(m) == m.type = "inventory" \/ m.action = "move"

(* The records, and what a run has in hand, are of places of their file. *)
PlacesInv ==
    /\ disk \in [Paths -> Files \cup {NoFile} \cup {Made[f] : f \in Files}]
    /\ \A m \in mutations :
          /\ m.file \in Files /\ m.run \in Runs
          /\ Placed(m) => m.path \in At(m.file)
          /\ m.type = "inventory" => m.action = "record_only" /\ m.path[1] = "inbox"
          /\ m.action = "move" => Rank(m.path) > 1
          /\ m.action = "create" => m.path = <<"outbox", m.file>>
    /\ DOMAIN run = Runs
    /\ \A r \in Runs :
          /\ run[r].does \in {"selected", "moved"} =>
                run[r].file \in Files /\ run[r].path \in At(run[r].file)
          /\ run[r].does = "moved" => Rank(run[r].path) > 1
          /\ run[r].does = "made" =>
                run[r].file \in Files /\ run[r].path = <<"outbox", run[r].file>>

Holds(does, f) == \E r \in Runs : run[r].does = does /\ run[r].file = f

Last(m, M) == m \in M /\ \A o \in M : o.id <= m.id

(* Of one file whose evidence is whole. *)
LiesOnce(f) == \E p \in At(f) : disk[p] = f /\ \A q \in At(f) \ {p} : disk[q] = NoFile

GoesOn(f) ==
    /\ \A m, n \in Placements(f) : m.id < n.id => Rank(m.path) < Rank(n.path)
    /\ \A r \in Runs : run[r].file = f =>
          /\ run[r].does = "selected" =>
                \A m \in Placements(f) : Rank(m.path) <= Rank(run[r].path)
          /\ run[r].does = "moved" =>
                /\ disk[run[r].path] = f
                /\ \A m \in Placements(f) : Rank(m.path) < Rank(run[r].path)

Told(f) ==
    \/ Placements(f) = {} \/ Holds("moved", f)
    \/ \E m \in Placements(f) :
          /\ Last(m, Placements(f))
          /\ \/ disk[m.path] = f
             \/ m.action = "move" /\ RestoreTo(m) # NoPath /\ disk[RestoreTo(m)] = f

Accounted(f) ==
    disk[<<"outbox", f>>] # NoFile =>
        (\E m \in History(f) : m.action = "create") \/ Holds("made", f)

FileInv(f) == LiesOnce(f) /\ GoesOn(f) /\ Told(f) /\ Accounted(f)

(* The rows of a rollback are of its file's history without a gap, and     *)
(* where they restore to is what the history says.                         *)
RowsInv(b) ==
    \A x \in work[b].rows :
       /\ x = [record |-> x.record, to |-> x.to]
       /\ x.record \in mutations /\ x.to = RestoreTo(x.record)
       /\ \A y \in work[b].rows, m \in mutations :
             /\ m.file = x.record.file /\ m.file = y.record.file
             /\ x.record.id <= m.id /\ m.id <= y.record.id
             => \E z \in work[b].rows : z.record = m

(* A record not among the rows of a file that has some placed is newer     *)
(* than them, and the file is where it left it.                            *)
Overtaken(b, f) ==
    (\E x \in work[b].rows : x.record.file = f /\ Placed(x.record)) =>
       \/ Holds("moved", f)
       \/ \E m \in Placements(f) :
             /\ Last(m, Placements(f))
             /\ disk[m.path] = f \/ \E x \in work[b].rows : x.record = m

(* A change is undone and its record not yet deleted. *)
UndoneInv(b, x) ==
    LET f == x.record.file IN
    /\ x.record.action = "move" =>
          x.to \in At(f) /\ disk[x.to] = f /\ Last(x.record, Placements(f))
    /\ x.record.action = "create" /\ disk[<<"outbox", f>>] # NoFile =>
          \/ \E m \in History(f) : m.action = "create" /\ m # x.record
          \/ Holds("made", f)

UnderWay(b) ==
    /\ work[b].at \in {"reversing", "reversed"} =>
          RowsInv(b) /\ \A f \in Files \ unrecorded : Overtaken(b, f)
    /\ work[b].at = "reversed" =>
          \A x \in Newest(b) : x.record.file \notin unrecorded => UndoneInv(b, x)

TellsInv ==
    /\ PlacesInv
    /\ \A f \in Files \ unrecorded : FileInv(f)
    /\ \A b \in Rollbacks : UnderWay(b)

OneAtATime == (\A r, s \in Runs : r = s) /\ (\A b, c \in Rollbacks : b = c)

(* What says where a record restores to. *)
Before(m) == {o \in Placements(m.file) : o.id < m.id}

(* Places, and how far they are. *)
LEMMA Whereabouts ==
    ASSUME NEW f \in Files
    PROVE  /\ At(f) \subseteq Paths /\ <<"outbox", f>> \in Paths
           /\ <<"outbox", f>> \notin At(f)
           /\ NoPath \notin At(f)
           /\ <<"inbox", f>> \in At(f) /\ Rank(<<"inbox", f>>) = 1
           /\ \A p \in At(f) : p = <<p[1], f>> /\ p[1] \in Places
           /\ \A g \in Files : g # f =>
                 /\ \A p \in At(f) : p \notin At(g) /\ p # <<"outbox", g>>
                 /\ <<"outbox", f>> \notin At(g) /\ <<"outbox", f>> # <<"outbox", g>>
<1>1. /\ At(f) \subseteq Paths /\ <<"outbox", f>> \in Paths
      /\ <<"outbox", f>> \notin At(f)
  BY DEF At, Paths, Places
<1>2. NoPath \notin At(f)
  BY DEF At, NoPath, Places
<1>3. <<"inbox", f>> \in At(f) /\ Rank(<<"inbox", f>>) = 1
  BY DEF At, Rank, Places
<1>4. \A p \in At(f) : p = <<p[1], f>> /\ p[1] \in Places
  BY DEF At
<1>5. ASSUME NEW g \in Files, g # f
      PROVE  /\ \A p \in At(f) : p \notin At(g) /\ p # <<"outbox", g>>
             /\ <<"outbox", f>> \notin At(g) /\ <<"outbox", f>> # <<"outbox", g>>
  BY <1>5 DEF At, Places
<1> QED
  BY <1>1, <1>2, <1>3, <1>4, <1>5

(* There are three ranks. *)
LEMMA Ranks == \A p : Rank(p) \in 1 .. 3 /\ (Rank(p) = 1 <=> p[1] = "inbox")
BY DEF Rank

(* The file lies in one place. *)
LEMMA OnePlace ==
    ASSUME NEW f, LiesOnce(f), NEW p \in At(f), disk[p] # NoFile
    PROVE  disk[p] = f /\ \A q \in At(f) : disk[q] # NoFile => q = p
BY DEF LiesOnce

(* Records there are, are told by their ids. *)
LEMMA Numbering ==
    ASSUME IdsTell, NEW M, M \subseteq mutations
    PROVE  Numbered(M, nextId)
BY DEF Numbered, IdsTell, Known

(* One of them is the last. *)
LEMMA LastIs ==
    ASSUME IdsTell, NEW M, M \subseteq mutations, M # {}
    PROVE  /\ Last(NewestOf(M), M)
           /\ \A o : Last(o, M) => o = NewestOf(M)
<1>1. Numbered(M, nextId)
  BY Numbering
<1> QED
  BY <1>1, NewestIs DEF Last

(* A record restores to the last of what was before it. *)
LEMMA Restores ==
    ASSUME IdsTell, NEW m
    PROVE  /\ Before(m) = {} => RestoreTo(m) = NoPath
           /\ Before(m) # {} => \E o : Last(o, Before(m)) /\ RestoreTo(m) = o.path
           /\ \A o : Last(o, Before(m)) => RestoreTo(m) = o.path
<1>1. RestoreTo(m) = IF Before(m) = {} THEN NoPath ELSE NewestOf(Before(m)).path
  BY DEF RestoreTo, Before
<1>2. Before(m) \subseteq mutations
  BY DEF Before, Placements, History
<1>3. \A o : Last(o, Before(m)) => Before(m) # {}
  BY DEF Last
<1> QED
  BY <1>1, <1>2, <1>3, LastIs

(* Where a record restores to is decided by what was before it. *)
LEMMA SameBefore ==
    ASSUME NEW m, Before(m)' = Before(m)
    PROVE  RestoreTo(m)' = RestoreTo(m)
BY DEF RestoreTo, Before

(* The records that place a file. *)
LEMMA PlacementsAre ==
    ASSUME NEW f
    PROVE  Placements(f) = {m \in mutations : m.file = f /\ Placed(m)}
BY DEF Placements, History, Placed

(* It is one of the file's places, and one before the record's. *)
LEMMA RestoredAt ==
    ASSUME IdsTell, PlacesInv, NEW m, RestoreTo(m) # NoPath
    PROVE  /\ RestoreTo(m) \in At(m.file)
           /\ \E o \in Placements(m.file) : Last(o, Before(m)) /\ RestoreTo(m) = o.path
<1>1. PICK o : Last(o, Before(m)) /\ RestoreTo(m) = o.path
  BY Restores
<1>2. o \in Placements(m.file)
  BY <1>1 DEF Last, Before
<1>3. o.path \in At(m.file)
  BY <1>2, PlacementsAre DEF PlacesInv
<1> QED
  BY <1>1, <1>2, <1>3

(* It lies before the record's on the routes. *)
LEMMA RestoredLower ==
    ASSUME IdsTell, PlacesInv, NEW f, GoesOn(f), NEW m \in Placements(f),
           RestoreTo(m) # NoPath
    PROVE  RestoreTo(m) \in At(f) /\ Rank(RestoreTo(m)) < Rank(m.path)
<1>1. m.file = f
  BY PlacementsAre
<1>2. PICK o \in Placements(f) : Last(o, Before(m)) /\ RestoreTo(m) = o.path
  BY <1>1, RestoredAt
<1>3. o.id < m.id
  BY <1>2 DEF Last, Before
<1> QED
  BY <1>1, <1>2, <1>3, RestoredAt DEF GoesOn

(* Hands and records that stay keep to their order. *)
LEMMA GoesOnStill ==
    ASSUME PlacesInv, NEW f, GoesOn(f), Placements(f)' \subseteq Placements(f),
           \A p \in At(f) : disk'[p] = disk[p],
           \A r \in Runs : run'[r].file = f /\ run'[r].does \in {"selected", "moved"}
                             => run'[r] = run[r]
    PROVE  GoesOn(f)'
BY DEF GoesOn, PlacesInv

(* What was made from a file stays accounted for. *)
LEMMA AccountedStill ==
    ASSUME NEW f, Accounted(f), disk'[<<"outbox", f>>] = disk[<<"outbox", f>>],
           History(f) \subseteq History(f)', Holds("made", f) => Holds("made", f)'
    PROVE  Accounted(f)'
BY DEF Accounted

(* A file that is not moved and not recorded to be stays told of. *)
LEMMA FileStill ==
    ASSUME IdsTell, PlacesInv, NEW f \in Files, FileInv(f),
           Placements(f)' = Placements(f),
           \A p \in At(f) : disk'[p] = disk[p],
           Holds("moved", f) => Holds("moved", f)',
           GoesOn(f)', Accounted(f)'
    PROVE  FileInv(f)'
<1>1. LiesOnce(f)'
  BY DEF FileInv, LiesOnce
<1>3. Told(f)'
  <2>1. CASE Placements(f) = {} \/ Holds("moved", f)
    BY <2>1 DEF Told
  <2>2. ASSUME NEW m \in Placements(f), Last(m, Placements(f)),
               \/ disk[m.path] = f
               \/ m.action = "move" /\ RestoreTo(m) # NoPath /\ disk[RestoreTo(m)] = f
        PROVE  Told(f)'
    <3>1. m.file = f /\ m.path \in At(f)
      BY PlacementsAre DEF PlacesInv
    <3>2. Before(m)' = Before(m)
      BY <3>1 DEF Before
    <3>3. RestoreTo(m)' = RestoreTo(m)
      BY <3>2, SameBefore
    <3>4. RestoreTo(m) # NoPath => RestoreTo(m) \in At(f)
      BY <3>1, RestoredAt
    <3>5. Last(m, Placements(f)')
      BY <2>2 DEF Last
    <3> QED
      BY <2>2, <3>1, <3>3, <3>4, <3>5 DEF Told
  <2> QED
    BY <2>1, <2>2 DEF FileInv, Told
<1> QED
  BY <1>1, <1>3 DEF FileInv

(* There is one run. *)
LEMMA OneRun ==
    ASSUME OneAtATime, NEW r \in Runs, NEW d, NEW f
    PROVE  /\ Holds(d, f) <=> run[r].does = d /\ run[r].file = f
           /\ Holds(d, f)' <=> run'[r].does = d /\ run'[r].file = f
BY DEF OneAtATime, Holds

(* What a run has in hand is set. *)
LEMMA RunSet ==
    ASSUME PlacesInv, NEW r \in Runs, NEW h, run' = [run EXCEPT ![r] = h]
    PROVE  run'[r] = h /\ DOMAIN run' = Runs
BY DEF PlacesInv

(* A rollback under way is not disturbed by a step that leaves its rows'   *)
(* history alone.                                                          *)
LEMMA UnderWayStill ==
    ASSUME IdsTell, NEW b \in Rollbacks, UnderWay(b), UNCHANGED work,
           mutations \subseteq mutations', unrecorded \subseteq unrecorded',
           \A m \in mutations' :
              m \in mutations \/ (m.id \in Nat /\ \A n \in mutations : n.id < m.id),
           \A m \in mutations : Before(m)' = Before(m),
           \A f \in Files \ unrecorded' : Overtaken(b, f) => Overtaken(b, f)',
           \A x \in work[b].rows : x.record.file \notin unrecorded' /\ UndoneInv(b, x)
                                     /\ x.record \in mutations /\ x.to = RestoreTo(x.record)
                => UndoneInv(b, x)'
    PROVE  UnderWay(b)'
<1>1. Newest(b)' = Newest(b) /\ Newest(b) \subseteq work[b].rows
  BY DEF Newest
<1>2. ASSUME RowsInv(b) PROVE RowsInv(b)'
  <2>1. ASSUME NEW x \in work[b].rows
        PROVE  /\ x = [record |-> x.record, to |-> x.to]
               /\ x.record \in mutations' /\ x.to = RestoreTo(x.record)'
    BY <1>2, <2>1, SameBefore DEF RowsInv
  <2>2. ASSUME NEW x \in work[b].rows, NEW y \in work[b].rows, NEW m \in mutations',
               m.file = x.record.file, m.file = y.record.file,
               x.record.id <= m.id, m.id <= y.record.id
        PROVE  \E z \in work[b].rows : z.record = m
    <3>1. y.record \in mutations /\ y.record.id \in Nat
      BY <1>2, <2>2 DEF RowsInv, IdsTell, Known
    <3>2. m \in mutations
      <4>1. CASE m.id \in Nat /\ \A n \in mutations : n.id < m.id
        <5>1. y.record.id < m.id
          BY <3>1, <4>1
        <5> QED
          BY <2>2, <3>1, <4>1, <5>1
      <4> QED
        BY <2>2, <4>1
    <3> QED
      BY <1>2, <2>2, <3>2 DEF RowsInv
  <2> QED
    BY <2>1, <2>2 DEF RowsInv
<1>3. \A x \in work[b].rows : RowsInv(b) => x.record \in mutations /\ x.to = RestoreTo(x.record)
  BY DEF RowsInv
<1>4. work[b].at = "reversed" =>
        \A x \in Newest(b)' : x.record.file \notin unrecorded' => UndoneInv(b, x)'
  BY <1>1, <1>3 DEF UnderWay
<1>5. work[b].at \in {"reversing", "reversed"} =>
        RowsInv(b)' /\ \A f \in Files \ unrecorded' : Overtaken(b, f)'
  BY <1>2 DEF UnderWay
<1> QED
  BY <1>4, <1>5 DEF UnderWay

(* Nothing new under way. *)
LEMMA NothingUnderWay ==
    ASSUME NEW b \in Rollbacks, work'[b].at \notin {"reversing", "reversed"}
    PROVE  UnderWay(b)'
BY DEF UnderWay

(* The record that is written. *)
Written(f, r, type, action, path) ==
    [id |-> nextId, file |-> f, run |-> r, type |-> type, action |-> action, path |-> path]

(* A record is written after the others. *)
LEMMA RecordAdds ==
    ASSUME IdsTell, NEW f, NEW r, NEW t, NEW a, NEW p, Record(f, r, t, a, p),
           NEW m, m = Written(f, r, t, a, p)
    PROVE  /\ mutations' = mutations \cup {m}
           /\ m.file = f /\ m.run = r /\ m.type = t /\ m.action = a /\ m.path = p
           /\ m.id \in Nat /\ \A n \in mutations : n.id < m.id
           /\ m \notin mutations
           /\ \A g : History(g)' = IF g = f THEN History(g) \cup {m} ELSE History(g)
           /\ \A g : Placements(g)' = IF g = f /\ Placed(m) THEN Placements(g) \cup {m}
                                      ELSE Placements(g)
           /\ \A n \in mutations : Before(n)' = Before(n)
           /\ Before(m)' = Placements(f)
<1>1. mutations' = mutations \cup {m}
  BY DEF Record, Written
<1>2. /\ m.file = f /\ m.run = r /\ m.type = t /\ m.action = a /\ m.path = p
      /\ m.id = nextId
  BY DEF Written
<1>3. m.id \in Nat /\ \A n \in mutations : n.id < m.id /\ n.id \in Nat
  BY <1>2 DEF IdsTell, Known
<1>4. m \notin mutations
  BY <1>3
<1>5. \A g : History(g)' = IF g = f THEN History(g) \cup {m} ELSE History(g)
  BY <1>1, <1>2 DEF History
<1>6. \A g : Placements(g)' = IF g = f /\ Placed(m) THEN Placements(g) \cup {m}
                              ELSE Placements(g)
  BY <1>1, <1>2, PlacementsAre DEF Placements, History, Placed
<1>7. ASSUME NEW n \in mutations PROVE Before(n)' = Before(n)
  BY <1>3, <1>6 DEF Before
<1>8. Before(m)' = Placements(f)
  <2>1. Before(m)' = {o \in Placements(f)' : o.id < m.id}
    BY <1>2 DEF Before
  <2>2. \A o \in Placements(f) : o.id < m.id
    BY <1>3 DEF Placements, History
  <2> QED
    BY <1>3, <1>6, <2>1, <2>2
<1> QED
  BY <1>1, <1>2, <1>3, <1>4, <1>5, <1>6, <1>7, <1>8

(* A file found in the inbox without a baseline has no place on record. *)
LEMMA NotInventoried ==
    ASSUME IdsTell, PlacesInv, NEW f \in Files, FileInv(f), ~Holds("moved", f),
           disk[<<"inbox", f>>] = f, ~\E m \in History(f) : m.type = "inventory"
    PROVE  Placements(f) = {}
<1> SUFFICES ASSUME Placements(f) # {} PROVE FALSE
  OBVIOUS
<1>1. \A m \in Placements(f) : m.path \in At(f) /\ Rank(m.path) > 1
  <2> SUFFICES ASSUME NEW m \in Placements(f) PROVE m.path \in At(f) /\ Rank(m.path) > 1
    OBVIOUS
  <2>1. m \in mutations /\ m.file = f /\ Placed(m)
    BY PlacementsAre
  <2>2. m.action = "move"
    BY <2>1 DEF Placed, History
  <2> QED
    BY <2>1, <2>2 DEF PlacesInv
<1>2. <<"inbox", f>> \in At(f) /\ Rank(<<"inbox", f>>) = 1 /\ f # NoFile
  BY Whereabouts, FilesAssumption
<1>3. \A p \in At(f) : disk[p] = f => p = <<"inbox", f>>
  BY <1>2, OnePlace DEF FileInv
<1>4. PICK m \in Placements(f) :
         \/ disk[m.path] = f
         \/ RestoreTo(m) # NoPath /\ disk[RestoreTo(m)] = f
  BY DEF FileInv, Told
<1>5. disk[m.path] # f
  <2> SUFFICES ASSUME disk[m.path] = f PROVE FALSE
    OBVIOUS
  <2>1. m.path = <<"inbox", f>>
    BY <1>1, <1>3
  <2> QED
    BY <1>1, <1>2, <2>1
<1>6. RestoreTo(m) # NoPath /\ disk[RestoreTo(m)] = f
  BY <1>4, <1>5
<1>7. m.file = f
  BY PlacementsAre
<1>8. PICK o \in Placements(f) : RestoreTo(m) = o.path
  BY <1>6, <1>7, RestoredAt
<1>9. o.path = <<"inbox", f>>
  BY <1>1, <1>3, <1>6, <1>8
<1> QED
  BY <1>1, <1>2, <1>9

(* A step leaves alone where a file lies. *)
Unmoved(f) ==
    /\ Placements(f)' = Placements(f)
    /\ \A p \in At(f) : disk'[p] = disk[p]
    /\ Holds("moved", f) => Holds("moved", f)'

(* And what was made from it. *)
LeftAlone(f) ==
    /\ Unmoved(f)
    /\ History(f) \subseteq History(f)' /\ disk'[<<"outbox", f>>] = disk[<<"outbox", f>>]
    /\ Holds("made", f) => Holds("made", f)'

(* What a step does to a file keeps it told of. *)
KeptTold(f) ==
    /\ FileInv(f)'
    /\ \A b \in Rollbacks : Overtaken(b, f) => Overtaken(b, f)'
    /\ \A b \in Rollbacks : \A x \in work[b].rows :
          x.record.file = f /\ x.record \in mutations /\ x.to = RestoreTo(x.record)
          /\ UndoneInv(b, x) => UndoneInv(b, x)'

(* Records are only added, and after the others. *)
OnlyAdded ==
    /\ mutations \subseteq mutations'
    /\ \A m \in mutations' :
          m \in mutations \/ (m.id \in Nat /\ \A n \in mutations : n.id < m.id)
    /\ \A m \in mutations : Before(m)' = Before(m)

(* The rows of a file that lies where it was. *)
LEMMA UnmovedRows ==
    ASSUME PlacesInv, NEW f, Unmoved(f), NEW b \in Rollbacks,
           work'[b].rows = work[b].rows
    PROVE  /\ Overtaken(b, f) => Overtaken(b, f)'
           /\ \A x : x.record.file = f /\ x.record.action = "move" /\ UndoneInv(b, x) =>
                 x.to \in At(f) /\ disk'[x.to] = f /\ Last(x.record, Placements(f)')
<1>1. \A m \in Placements(f) : m.path \in At(f)
  BY PlacementsAre DEF PlacesInv
<1>2. ASSUME Overtaken(b, f) PROVE Overtaken(b, f)'
  BY <1>1, <1>2 DEF Overtaken, Unmoved, Last
<1>3. ASSUME NEW x, x.record.file = f, x.record.action = "move", UndoneInv(b, x)
      PROVE  x.to \in At(f) /\ disk'[x.to] = f /\ Last(x.record, Placements(f)')
  BY <1>3 DEF UndoneInv, Unmoved
<1> QED
  BY <1>2, <1>3

(* What is undone of a file left alone stays undone. *)
LEMMA LeftAloneUndone ==
    ASSUME PlacesInv, NEW f, LeftAlone(f), UNCHANGED work, NEW b \in Rollbacks,
           NEW x, x.record.file = f, UndoneInv(b, x)
    PROVE  UndoneInv(b, x)'
<1>1. Unmoved(f)
  BY DEF LeftAlone
<1>2. x.record.action = "move" =>
         x.to \in At(f) /\ disk'[x.to] = f /\ Last(x.record, Placements(f)')
  BY <1>1, UnmovedRows
<1>3. x.record.action = "create" /\ disk'[<<"outbox", f>>] # NoFile =>
         \/ \E m \in History(f)' : m.action = "create" /\ m # x.record
         \/ Holds("made", f)'
  BY DEF UndoneInv, LeftAlone
<1>4. UndoneInv(b, x)' <=>
         /\ x.record.action = "move" =>
               x.to \in At(f) /\ disk'[x.to] = f /\ Last(x.record, Placements(f)')
         /\ x.record.action = "create" /\ disk'[<<"outbox", f>>] # NoFile =>
               \/ \E m \in History(f)' : m.action = "create" /\ m # x.record
               \/ Holds("made", f)'
  BY DEF UndoneInv, Last
<1> QED
  BY <1>2, <1>3, <1>4

(* A file left alone is kept told of. *)
LEMMA LeftAloneKeeps ==
    ASSUME IdsTell, PlacesInv, NEW f \in Files, FileInv(f), LeftAlone(f), GoesOn(f)',
           UNCHANGED work
    PROVE  KeptTold(f)
<1>1. Unmoved(f) /\ Accounted(f)'
  BY AccountedStill DEF LeftAlone, FileInv
<1>2. FileInv(f)'
  BY <1>1, FileStill DEF Unmoved
<1>3. ASSUME NEW b \in Rollbacks PROVE Overtaken(b, f) => Overtaken(b, f)'
  BY <1>1, UnmovedRows
<1>4. ASSUME NEW b \in Rollbacks, NEW x \in work[b].rows, x.record.file = f, UndoneInv(b, x)
      PROVE  UndoneInv(b, x)'
  BY <1>4, LeftAloneUndone
<1> QED
  BY <1>2, <1>3, <1>4 DEF KeptTold

(* A run's step keeps to the invariant where it does so for each file. *)
LEMMA FileByFile ==
    ASSUME IdsTell, TellsInv, PlacesInv', UNCHANGED work, OnlyAdded,
           unrecorded \subseteq unrecorded',
           \A f \in Files \ unrecorded' : FileInv(f) =>
              KeptTold(f) \/ (LeftAlone(f) /\ GoesOn(f)')
    PROVE  TellsInv'
<1>1. \A f \in Files \ unrecorded' : FileInv(f)
  BY DEF TellsInv
<1>2. ASSUME NEW f \in Files \ unrecorded' PROVE KeptTold(f)
  <2>1. FileInv(f) /\ PlacesInv
    BY <1>1 DEF TellsInv
  <2> QED
    BY <2>1, LeftAloneKeeps
<1>3. \A f \in Files \ unrecorded' : FileInv(f)'
  BY <1>2 DEF KeptTold
<1>4. ASSUME NEW b \in Rollbacks PROVE UnderWay(b)'
  <2>1. UnderWay(b)
    BY DEF TellsInv
  <2>2. \A f \in Files \ unrecorded' : Overtaken(b, f) => Overtaken(b, f)'
    BY <1>2 DEF KeptTold
  <2>3. ASSUME NEW x \in work[b].rows, x.record.file \notin unrecorded', UndoneInv(b, x),
               x.record \in mutations, x.to = RestoreTo(x.record)
        PROVE  UndoneInv(b, x)'
    <3>1. x.record.file \in Files
      BY <2>3 DEF TellsInv, PlacesInv
    <3> QED
      BY <1>2, <2>3, <3>1 DEF KeptTold
  <2> QED
    BY <2>1, <2>2, <2>3, UnderWayStill DEF OnlyAdded
<1> QED
  BY <1>3, <1>4 DEF TellsInv

(* Records that stay as they are. *)
LEMMA NoneAdded ==
    ASSUME UNCHANGED mutations
    PROVE  /\ OnlyAdded
           /\ \A f : Placements(f)' = Placements(f) /\ History(f)' = History(f)
<1>1. \A f : Placements(f)' = Placements(f) /\ History(f)' = History(f)
  BY DEF Placements, History
<1>2. \A m \in mutations : Before(m)' = Before(m)
  BY <1>1 DEF Before
<1>3. mutations' = mutations
  OBVIOUS
<1>4. OnlyAdded
  BY <1>2, <1>3 DEF OnlyAdded
<1> QED
  BY <1>1, <1>4

(* A file that a run selects from the records is at one of its places. *)
LEMMA LocatedAt ==
    ASSUME IdsTell, PlacesInv, NEW f, Located(f) # NoPath
    PROVE  /\ Located(f) \in At(f)
           /\ \E m : Last(m, Placements(f)) /\ Located(f) = m.path
<1>1. Placements(f) # {} /\ Located(f) = NewestOf(Placements(f)).path
  BY DEF Located
<1>2. Placements(f) \subseteq mutations
  BY DEF Placements, History
<1>3. Last(NewestOf(Placements(f)), Placements(f))
  BY <1>1, <1>2, LastIs
<1>4. NewestOf(Placements(f)).path \in At(f)
  BY <1>3, PlacementsAre DEF Last, PlacesInv
<1> QED
  BY <1>1, <1>3, <1>4

(* A record of places of its file among the others. *)
LEMMA RecordPlaced ==
    ASSUME PlacesInv, NEW m, mutations' = mutations \cup {m}, UNCHANGED disk,
           m.file \in Files, m.run \in Runs,
           Placed(m) => m.path \in At(m.file),
           m.type = "inventory" => m.action = "record_only" /\ m.path[1] = "inbox",
           m.action = "move" => Rank(m.path) > 1,
           m.action = "create" => m.path = <<"outbox", m.file>>,
           NEW r \in Runs, UNCHANGED run \/ run' = [run EXCEPT ![r] = Idle]
    PROVE  PlacesInv'
<1>1. DOMAIN run' = Runs /\ \A s \in Runs : run'[s] = run[s] \/ run'[s] = Idle
  BY DEF PlacesInv
<1>2. Idle.does = "nothing"
  BY DEF Idle
<1>3. \A n \in mutations' :
          /\ n.file \in Files /\ n.run \in Runs
          /\ Placed(n) => n.path \in At(n.file)
          /\ n.type = "inventory" => n.action = "record_only" /\ n.path[1] = "inbox"
          /\ n.action = "move" => Rank(n.path) > 1
          /\ n.action = "create" => n.path = <<"outbox", n.file>>
  BY DEF PlacesInv
<1>4. disk' \in [Paths -> Files \cup {NoFile} \cup {Made[f] : f \in Files}]
  BY DEF PlacesInv
<1>5. \A s \in Runs :
          /\ run'[s].does \in {"selected", "moved"} =>
                run'[s].file \in Files /\ run'[s].path \in At(run'[s].file)
          /\ run'[s].does = "moved" => Rank(run'[s].path) > 1
          /\ run'[s].does = "made" =>
                run'[s].file \in Files /\ run'[s].path = <<"outbox", run'[s].file>>
  BY <1>1, <1>2 DEF PlacesInv
<1> QED
  BY <1>1, <1>3, <1>4, <1>5 DEF PlacesInv

(* A run takes something in hand. *)
LEMMA HandPlaced ==
    ASSUME PlacesInv, UNCHANGED mutations,
           disk' \in [Paths -> Files \cup {NoFile} \cup {Made[f] : f \in Files}],
           NEW r \in Runs, NEW h, run' = [run EXCEPT ![r] = h],
           h.does \in {"selected", "moved"} => h.file \in Files /\ h.path \in At(h.file),
           h.does = "moved" => Rank(h.path) > 1,
           h.does = "made" => h.file \in Files /\ h.path = <<"outbox", h.file>>
    PROVE  PlacesInv'
<1>1. DOMAIN run' = Runs /\ \A s \in Runs : run'[s] = run[s] \/ run'[s] = h
  BY DEF PlacesInv
<1>2. \A s \in Runs :
          /\ run'[s].does \in {"selected", "moved"} =>
                run'[s].file \in Files /\ run'[s].path \in At(run'[s].file)
          /\ run'[s].does = "moved" => Rank(run'[s].path) > 1
          /\ run'[s].does = "made" =>
                run'[s].file \in Files /\ run'[s].path = <<"outbox", run'[s].file>>
  BY <1>1 DEF PlacesInv
<1> QED
  BY <1>1, <1>2 DEF PlacesInv

(* Hands that a step leaves alone, or empties, keep to the order. *)
LEMMA HandsGoOn ==
    ASSUME PlacesInv, NEW f, GoesOn(f), Unmoved(f), NEW r \in Runs,
           \/ UNCHANGED run
           \/ \E h : run' = [run EXCEPT ![r] = h]
                        /\ (h.file # f \/ h.does \notin {"selected", "moved"})
    PROVE  GoesOn(f)'
<1>1. \A s \in Runs : run'[s].file = f /\ run'[s].does \in {"selected", "moved"}
                        => run'[s] = run[s]
  BY DEF PlacesInv
<1> QED
  BY <1>1, GoesOnStill DEF Unmoved

(* inventory *)
LEMMA InventoryTells ==
    ASSUME IdsTell, TellsInv, OneAtATime, NEW r \in Runs, NEW f \in Files, Inventory(r, f),
           UNCHANGED rollbackVars
    PROVE  TellsInv'
<1> DEFINE m == Written(f, r, "inventory", "record_only", <<"inbox", f>>)
<1>1. /\ run[r] = Idle /\ disk[<<"inbox", f>>] = f
      /\ ~\E n \in History(f) : n.type = "inventory"
      /\ Record(f, r, "inventory", "record_only", <<"inbox", f>>)
      /\ UNCHANGED <<disk, run, unrecorded, work>>
  BY DEF Inventory, rollbackVars
<1> HIDE DEF m
<1>2. /\ mutations' = mutations \cup {m}
      /\ m.file = f /\ m.run = r /\ m.type = "inventory" /\ m.action = "record_only"
      /\ m.path = <<"inbox", f>>
      /\ m.id \in Nat /\ \A n \in mutations : n.id < m.id
      /\ \A g : History(g)' = IF g = f THEN History(g) \cup {m} ELSE History(g)
      /\ \A g : Placements(g)' = IF g = f /\ Placed(m) THEN Placements(g) \cup {m}
                                 ELSE Placements(g)
      /\ \A n \in mutations : Before(n)' = Before(n)
  BY <1>1, RecordAdds DEF m
<1>3. <<"inbox", f>> \in At(f) /\ f # NoFile /\ Placed(m)
  BY <1>2, Whereabouts, FilesAssumption DEF Placed
<1>4. PlacesInv /\ PlacesInv'
  BY <1>1, <1>2, <1>3, RecordPlaced DEF TellsInv
<1>5. OnlyAdded
  BY <1>2 DEF OnlyAdded
<1>6. \A d, g : Holds(d, g)' = Holds(d, g)
  BY <1>1 DEF Holds
<1>7. ASSUME NEW g \in Files, g # f, FileInv(g) PROVE LeftAlone(g) /\ GoesOn(g)'
  <2>1. LeftAlone(g)
    BY <1>1, <1>2, <1>6, <1>7 DEF LeftAlone, Unmoved
  <2> QED
    BY <1>1, <1>4, <1>7, <2>1, HandsGoOn DEF LeftAlone, FileInv
<1>8. ASSUME FileInv(f) PROVE KeptTold(f)
  <2>1. ~Holds("moved", f)
    BY <1>1, OneRun DEF Idle
  <2>2. Placements(f) = {} /\ Placements(f)' = {m}
    BY <1>1, <1>2, <1>3, <1>4, <1>8, <2>1, NotInventoried
  <2>3. \A s \in Runs : run'[s].does = "nothing"
    BY <1>1 DEF OneAtATime, Idle
  <2>4. LiesOnce(f)' /\ Accounted(f)'
    BY <1>1, <1>2, <1>6, <1>8, AccountedStill DEF FileInv, LiesOnce
  <2>5. GoesOn(f)'
    BY <1>2, <2>2, <2>3 DEF GoesOn
  <2>6. Last(m, Placements(f)') /\ disk'[m.path] = f /\ m \in Placements(f)'
    BY <1>1, <1>2, <2>2 DEF Last
  <2>7. FileInv(f)'
    BY <2>4, <2>5, <2>6 DEF FileInv, Told
  <2>8. \A b \in Rollbacks : Overtaken(b, f)'
    BY <2>6 DEF Overtaken
  <2>9. ASSUME NEW b \in Rollbacks, NEW x \in work[b].rows, x.record.file = f,
               x.record \in mutations, UndoneInv(b, x)
        PROVE  UndoneInv(b, x)'
    <3>1. x.record.action # "move"
      BY <2>2, <2>9, PlacementsAre DEF Placed
    <3>2. History(f) \subseteq History(f)' /\ UNCHANGED disk
      BY <1>1, <1>2
    <3> QED
      BY <1>6, <2>9, <3>1, <3>2 DEF UndoneInv
  <2> QED
    BY <2>7, <2>8, <2>9 DEF KeptTold
<1>9. unrecorded \subseteq unrecorded'
  BY <1>1
<1> QED
  BY <1>1, <1>4, <1>5, <1>7, <1>8, <1>9, FileByFile

(* What a file is, says nothing of where. *)
LEMMA ClassifyTells ==
    ASSUME IdsTell, TellsInv, OneAtATime, NEW r \in Runs, NEW f \in Files, Classify(r, f),
           UNCHANGED rollbackVars
    PROVE  TellsInv'
<1> DEFINE m == Written(f, r, "classification", "record_only", NoPath)
<1>1. /\ Record(f, r, "classification", "record_only", NoPath)
      /\ UNCHANGED <<disk, run, unrecorded, work>>
  BY DEF Classify, rollbackVars
<1> HIDE DEF m
<1>2. /\ mutations' = mutations \cup {m}
      /\ m.file = f /\ m.run = r /\ m.type = "classification" /\ m.action = "record_only"
      /\ m.id \in Nat /\ \A n \in mutations : n.id < m.id
      /\ \A g : History(g)' = IF g = f THEN History(g) \cup {m} ELSE History(g)
      /\ \A g : Placements(g)' = IF g = f /\ Placed(m) THEN Placements(g) \cup {m}
                                 ELSE Placements(g)
      /\ \A n \in mutations : Before(n)' = Before(n)
  BY <1>1, RecordAdds DEF m
<1>3. ~Placed(m)
  BY <1>2 DEF Placed
<1>4. PlacesInv /\ PlacesInv'
  BY <1>1, <1>2, <1>3, RecordPlaced DEF TellsInv
<1>5. OnlyAdded
  BY <1>2 DEF OnlyAdded
<1>6. \A d, g : Holds(d, g)' = Holds(d, g)
  BY <1>1 DEF Holds
<1>7. ASSUME NEW g \in Files, FileInv(g) PROVE LeftAlone(g) /\ GoesOn(g)'
  <2>1. LeftAlone(g)
    BY <1>1, <1>2, <1>3, <1>6 DEF LeftAlone, Unmoved
  <2> QED
    BY <1>1, <1>4, <1>7, <2>1, HandsGoOn DEF LeftAlone, FileInv
<1>8. unrecorded \subseteq unrecorded'
  BY <1>1
<1> QED
  BY <1>1, <1>4, <1>5, <1>7, <1>8, FileByFile

(* A step is handed a file where its history left it. *)
LEMMA SelectTells ==
    ASSUME IdsTell, TellsInv, OneAtATime, NEW r \in Runs, NEW f \in Files, Select(r, f),
           UNCHANGED rollbackVars
    PROVE  TellsInv'
<1> DEFINE h == [does |-> "selected", file |-> f, path |-> Located(f)]
<1>1. /\ run[r] = Idle /\ Located(f) # NoPath
      /\ run' = [run EXCEPT ![r] = h]
      /\ UNCHANGED <<disk, mutations, unrecorded, work>>
  BY DEF Select, rollbackVars
<1>2. h.does = "selected" /\ h.file = f /\ h.path = Located(f)
  OBVIOUS
<1> HIDE DEF h
<1>3. PlacesInv
  BY DEF TellsInv
<1>4. Located(f) \in At(f) /\ \E m : Last(m, Placements(f)) /\ Located(f) = m.path
  BY <1>1, <1>3, LocatedAt
<1>5. PlacesInv'
  <2>1. disk' \in [Paths -> Files \cup {NoFile} \cup {Made[g] : g \in Files}]
    BY <1>1, <1>3 DEF PlacesInv
  <2> QED
    BY <1>1, <1>2, <1>3, <1>4, <2>1, HandPlaced
<1>6. OnlyAdded /\ \A g : Placements(g)' = Placements(g) /\ History(g)' = History(g)
  BY <1>1, NoneAdded
<1>7. run'[r] = h
  BY <1>1, <1>3, RunSet
<1>8. \A g : ~Holds("moved", g) /\ ~Holds("made", g)
  BY <1>1, OneRun DEF Idle
<1>9. ASSUME NEW g \in Files, FileInv(g) PROVE LeftAlone(g) /\ GoesOn(g)'
  <2>1. LeftAlone(g)
    BY <1>1, <1>6, <1>8 DEF LeftAlone, Unmoved
  <2>2. CASE g # f
    BY <1>1, <1>2, <1>3, <1>9, <2>1, <2>2, HandsGoOn DEF LeftAlone, FileInv
  <2>3. CASE g = f
    <3>1. GoesOn(f)
      BY <1>9, <2>3 DEF FileInv
    <3>2. \A m \in Placements(f) : Rank(m.path) <= Rank(Located(f))
      <4>1. PICK n : Last(n, Placements(f)) /\ Located(f) = n.path
        BY <1>4
      <4>2. n \in Placements(f) /\ \A m \in Placements(f) : m.id <= n.id
        BY <4>1 DEF Last
      <4> SUFFICES ASSUME NEW m \in Placements(f) PROVE Rank(m.path) <= Rank(n.path)
        BY <4>1
      <4>3. m \in mutations /\ n \in mutations
        BY <4>2, PlacementsAre
      <4>4. m = n \/ m.id < n.id
        BY <4>2, <4>3 DEF IdsTell, Known
      <4>5. Rank(m.path) \in Nat
        BY Ranks
      <4>6. m.id < n.id => Rank(m.path) < Rank(n.path)
        BY <3>1, <4>2 DEF GoesOn
      <4>7. Rank(n.path) \in Nat
        BY Ranks
      <4> QED
        BY <4>4, <4>5, <4>6, <4>7
    <3>3. \A s \in Runs : run'[s] = h
      BY <1>7 DEF OneAtATime
    <3>4. \A m, n \in Placements(f)' : m.id < n.id => Rank(m.path) < Rank(n.path)
      BY <1>6, <3>1 DEF GoesOn
    <3>5. GoesOn(f)'
      BY <1>2, <1>6, <3>2, <3>3, <3>4 DEF GoesOn
    <3> QED
      BY <2>1, <2>3, <3>5
  <2> QED
    BY <2>1, <2>2, <2>3
<1>10. unrecorded \subseteq unrecorded'
  BY <1>1
<1> QED
  BY <1>1, <1>5, <1>6, <1>9, <1>10, FileByFile

(* What no longer lies where it was selected is let go. *)
LEMMA RefuseTells ==
    ASSUME IdsTell, TellsInv, OneAtATime, NEW r \in Runs,
           run[r].does \in {"selected", "nothing"}, run' = [run EXCEPT ![r] = Idle],
           UNCHANGED <<disk, mutations, unrecorded, work>>
    PROVE  TellsInv'
<1>1. PlacesInv
  BY DEF TellsInv
<1>2. Idle.does = "nothing"
  BY DEF Idle
<1>3. PlacesInv'
  <2>1. disk' \in [Paths -> Files \cup {NoFile} \cup {Made[f] : f \in Files}]
    BY <1>1 DEF PlacesInv
  <2> QED
    BY <1>1, <1>2, <2>1, HandPlaced
<1>4. OnlyAdded /\ \A f : Placements(f)' = Placements(f) /\ History(f)' = History(f)
  BY NoneAdded
<1>5. \A f : ~Holds("moved", f) /\ ~Holds("made", f)
  BY OneRun
<1>6. ASSUME NEW f \in Files, FileInv(f) PROVE LeftAlone(f) /\ GoesOn(f)'
  <2>1. LeftAlone(f)
    BY <1>4, <1>5 DEF LeftAlone, Unmoved
  <2> QED
    BY <1>1, <1>2, <1>6, <2>1, HandsGoOn DEF LeftAlone, FileInv
<1> QED
  BY <1>3, <1>4, <1>6, FileByFile

(* What was done stays done, and its file's evidence is no longer whole. *)
LEMMA LoseTells ==
    ASSUME IdsTell, TellsInv, OneAtATime, NEW r \in Runs, LoseEvidence(r),
           UNCHANGED rollbackVars
    PROVE  TellsInv'
<1>1. /\ run' = [run EXCEPT ![r] = Idle]
      /\ unrecorded' = IF run[r].does = "selected" THEN unrecorded
                       ELSE unrecorded \cup {run[r].file}
      /\ UNCHANGED <<disk, mutations, work>>
  BY DEF LoseEvidence, rollbackVars
<1>2. CASE run[r].does = "selected"
  BY <1>1, <1>2, RefuseTells
<1>3. CASE run[r].does # "selected"
  <2>1. PlacesInv
    BY DEF TellsInv
  <2>2. Idle.does = "nothing"
    BY DEF Idle
  <2>3. PlacesInv'
    <3>1. disk' \in [Paths -> Files \cup {NoFile} \cup {Made[f] : f \in Files}]
      BY <1>1, <2>1 DEF PlacesInv
    <3> QED
      BY <1>1, <2>1, <2>2, <3>1, HandPlaced
  <2>4. OnlyAdded /\ \A f : Placements(f)' = Placements(f) /\ History(f)' = History(f)
    BY <1>1, NoneAdded
  <2>5. \A f : f # run[r].file => ~Holds("moved", f) /\ ~Holds("made", f)
    BY OneRun
  <2>6. ASSUME NEW f \in Files, f # run[r].file, FileInv(f)
        PROVE  LeftAlone(f) /\ GoesOn(f)'
    <3>1. LeftAlone(f)
      BY <1>1, <2>4, <2>5, <2>6 DEF LeftAlone, Unmoved
    <3> QED
      BY <1>1, <2>1, <2>2, <2>6, <3>1, HandsGoOn DEF LeftAlone, FileInv
  <2>7. unrecorded' = unrecorded \cup {run[r].file}
    BY <1>1, <1>3
  <2> QED
    BY <1>1, <2>3, <2>4, <2>6, <2>7, FileByFile
<1> QED
  BY <1>2, <1>3

(* A file is made and published, its record not yet written. *)
LEMMA PublishTells ==
    ASSUME IdsTell, TellsInv, OneAtATime, NEW r \in Runs, Publish(r),
           UNCHANGED rollbackVars
    PROVE  TellsInv'
<1>3. PlacesInv
  BY DEF TellsInv
<1>4. PICK f \in Files : f = run[r].file
  BY <1>3 DEF PlacesInv, Publish
<1> DEFINE h == [does |-> "made", file |-> f, path |-> <<"outbox", f>>]
<1>1. /\ run[r].does = "selected"
      /\ disk' = [disk EXCEPT ![<<"outbox", f>>] = Made[f]]
      /\ run' = [run EXCEPT ![r] = h]
      /\ UNCHANGED <<mutations, unrecorded, work>>
  BY <1>4 DEF Publish, rollbackVars
<1>2. h.does = "made" /\ h.file = f /\ h.path = <<"outbox", f>>
  OBVIOUS
<1> HIDE DEF h
<1>5. <<"outbox", f>> \in Paths /\ DOMAIN disk = Paths
  BY <1>3, <1>4, Whereabouts DEF PlacesInv
<1>6. PlacesInv'
  <2>1. disk' \in [Paths -> Files \cup {NoFile} \cup {Made[g] : g \in Files}]
    BY <1>1, <1>3, <1>4, <1>5 DEF PlacesInv
  <2> QED
    BY <1>1, <1>2, <1>3, <1>4, <2>1, HandPlaced
<1>7. OnlyAdded /\ \A g : Placements(g)' = Placements(g) /\ History(g)' = History(g)
  BY <1>1, NoneAdded
<1>8. /\ \A g : ~Holds("moved", g) /\ ~Holds("made", g)
      /\ Holds("made", f)'
  <2>1. run'[r] = h
    BY <1>1, <1>3, RunSet
  <2> QED
    BY <1>1, <1>2, <2>1, OneRun
<1>9. \A g \in Files : \A p \in At(g) : disk'[p] = disk[p]
  <2> SUFFICES ASSUME NEW g \in Files, NEW p \in At(g) PROVE disk'[p] = disk[p]
    OBVIOUS
  <2>1. p \in Paths /\ p # <<"outbox", f>>
    BY <1>4, Whereabouts
  <2> QED
    BY <1>1, <1>5, <2>1
<1>10. ASSUME NEW g \in Files, FileInv(g) PROVE Unmoved(g) /\ GoesOn(g)'
  <2>1. Unmoved(g)
    BY <1>7, <1>8, <1>9, <1>10 DEF Unmoved
  <2> QED
    BY <1>1, <1>2, <1>3, <1>10, <2>1, HandsGoOn DEF FileInv
<1>11. ASSUME NEW g \in Files, g # f, FileInv(g) PROVE LeftAlone(g) /\ GoesOn(g)'
  <2>1. <<"outbox", g>> \in Paths /\ <<"outbox", g>> # <<"outbox", f>>
    BY <1>4, <1>11, Whereabouts
  <2>2. disk'[<<"outbox", g>>] = disk[<<"outbox", g>>]
    BY <1>1, <1>5, <2>1
  <2> QED
    BY <1>7, <1>8, <1>10, <1>11, <2>2 DEF LeftAlone
<1>12. ASSUME FileInv(f) PROVE KeptTold(f)
  <2>1. Unmoved(f) /\ GoesOn(f)'
    BY <1>4, <1>10, <1>12
  <2>2. Accounted(f)'
    BY <1>8 DEF Accounted
  <2>3. FileInv(f)'
    BY <1>3, <1>4, <1>12, <2>1, <2>2, FileStill DEF Unmoved
  <2>4. \A b \in Rollbacks : Overtaken(b, f) => Overtaken(b, f)'
    BY <1>1, <1>3, <2>1, UnmovedRows
  <2>5. ASSUME NEW b \in Rollbacks, NEW x \in work[b].rows, x.record.file = f,
               UndoneInv(b, x)
        PROVE  UndoneInv(b, x)'
    <3>1. x.record.action = "move" =>
             x.to \in At(f) /\ disk'[x.to] = f /\ Last(x.record, Placements(f)')
      BY <1>1, <1>3, <2>1, <2>5, UnmovedRows
    <3> QED
      BY <1>8, <2>5, <3>1 DEF UndoneInv, Last
  <2> QED
    BY <2>3, <2>4, <2>5 DEF KeptTold
<1>13. unrecorded \subseteq unrecorded'
  BY <1>1
<1> QED
  BY <1>1, <1>6, <1>7, <1>11, <1>12, <1>13, FileByFile

(* A file lies further on than where anything of it is undone to. *)
LEMMA UndoneIsBehind ==
    ASSUME IdsTell, PlacesInv, NEW f \in Files, FileInv(f), NEW b \in Rollbacks, NEW x,
           x.record.file = f, x.record \in mutations, x.to = RestoreTo(x.record),
           UndoneInv(b, x), x.record.action = "move",
           NEW p \in At(f), disk[p] # NoFile,
           \A m \in Placements(f) : Rank(m.path) <= Rank(p)
    PROVE  FALSE
<1>1. x.to \in At(f) /\ disk[x.to] = f
  BY DEF UndoneInv
<1>2. x.to = p /\ x.to # NoPath
  <2>1. LiesOnce(f)
    BY DEF FileInv
  <2>2. \A q \in At(f) : disk[q] # NoFile => q = p
    BY <2>1, OnePlace
  <2>3. f # NoFile /\ NoPath \notin At(f)
    BY Whereabouts, FilesAssumption
  <2> QED
    BY <1>1, <2>2, <2>3
<1>3. x.record \in Placements(f)
  BY PlacementsAre DEF Placed
<1>4. Rank(x.to) < Rank(x.record.path)
  BY <1>2, <1>3, RestoredLower DEF FileInv
<1>5. Rank(x.to) \in Nat /\ Rank(x.record.path) \in Nat
  BY Ranks
<1> QED
  BY <1>2, <1>3, <1>4, <1>5

(* A file is moved on, its record not yet written. *)
LEMMA MoveTells ==
    ASSUME IdsTell, TellsInv, OneAtATime, RoutesLeadOn, NEW r \in Runs,
           NEW place \in Places, Move(r, place), UNCHANGED rollbackVars
    PROVE  TellsInv'
<1>1. PlacesInv
  BY DEF TellsInv
<1>2. PICK f \in Files : f = run[r].file
  BY <1>1 DEF PlacesInv, Move
<1>3. PICK from \in At(f) : from = run[r].path
  BY <1>1, <1>2 DEF PlacesInv, Move
<1> DEFINE to == <<place, f>>
           h == [does |-> "moved", file |-> f, path |-> to]
<1>4. /\ run[r].does = "selected" /\ disk[from] # NoFile /\ place \in Routes[from[1]]
      /\ disk' = [disk EXCEPT ![to] = disk[from], ![from] = NoFile]
      /\ run' = [run EXCEPT ![r] = h]
      /\ UNCHANGED <<mutations, unrecorded, work>>
  BY <1>2, <1>3 DEF Move, rollbackVars
<1>5. h.does = "moved" /\ h.file = f /\ h.path = to
  OBVIOUS
<1> HIDE DEF h
<1>6. to \in At(f) /\ Rank(from) < Rank(to) /\ Rank(to) > 1 /\ from # to
  <2>1. from = <<from[1], f>> /\ from[1] \in Places
    BY Whereabouts
  <2>2. Rank(from) < Rank(to)
    BY <1>4, <2>1 DEF RoutesLeadOn
  <2>3. Rank(from) \in 1 .. 3 /\ Rank(to) \in 1 .. 3
    BY Ranks
  <2> QED
    BY <2>2, <2>3 DEF At
<1> HIDE DEF to
<1>7. from \in Paths /\ to \in Paths /\ DOMAIN disk = Paths
  BY <1>1, <1>6, Whereabouts DEF PlacesInv
<1>8. PlacesInv'
  <2>1. disk[from] \in Files \cup {NoFile} \cup {Made[g] : g \in Files}
    BY <1>1, <1>7 DEF PlacesInv
  <2>2. disk' \in [Paths -> Files \cup {NoFile} \cup {Made[g] : g \in Files}]
    BY <1>1, <1>4, <2>1 DEF PlacesInv
  <2> QED
    BY <1>1, <1>4, <1>5, <1>6, <2>2, HandPlaced
<1>9. OnlyAdded /\ \A g : Placements(g)' = Placements(g) /\ History(g)' = History(g)
  BY <1>4, NoneAdded
<1>10. /\ \A g : ~Holds("moved", g) /\ ~Holds("made", g)
       /\ Holds("moved", f)' /\ \A s \in Runs : run'[s] = h
  <2>1. run'[r] = h
    BY <1>1, <1>4, RunSet
  <2> QED
    BY <1>4, <1>5, <2>1, OneRun DEF OneAtATime
<1>11. /\ disk'[to] = disk[from] /\ disk'[from] = NoFile
       /\ \A p \in Paths : p # to /\ p # from => disk'[p] = disk[p]
  BY <1>4, <1>6, <1>7
<1>12. ASSUME NEW g \in Files, g # f, FileInv(g) PROVE LeftAlone(g) /\ GoesOn(g)'
  <2>1. \A p \in At(g) \cup {<<"outbox", g>>} : p \in Paths /\ p # from /\ p # to
    <3>1. from \in At(f) /\ to \in At(f)
      BY <1>3, <1>6
    <3>2. \A p \in At(f) : p \notin At(g) /\ p # <<"outbox", g>>
      BY <1>2, <1>12, Whereabouts
    <3>3. At(g) \subseteq Paths /\ <<"outbox", g>> \in Paths
      BY <1>12, Whereabouts
    <3> QED
      BY <3>1, <3>2, <3>3
  <2>2. LeftAlone(g)
    BY <1>9, <1>10, <1>11, <2>1 DEF LeftAlone, Unmoved
  <2> QED
    BY <1>1, <1>4, <1>5, <1>12, <2>2, HandsGoOn DEF LeftAlone, FileInv
<1>13. ASSUME FileInv(f) PROVE KeptTold(f)
  <2>1. disk[from] = f /\ \A q \in At(f) : q # from => disk[q] = NoFile
    BY <1>4, <1>13, OnePlace DEF FileInv
  <2>2. \A m \in Placements(f) : Rank(m.path) <= Rank(from)
    BY <1>2, <1>3, <1>4, <1>13 DEF FileInv, GoesOn
  <2>3. \A p \in At(f) : p \in Paths
    BY Whereabouts
  <2>4. LiesOnce(f)'
    <3>1. disk'[to] = f /\ \A q \in At(f) \ {to} : disk'[q] = NoFile
      BY <1>11, <2>1, <2>3
    <3> QED
      BY <1>6, <3>1 DEF LiesOnce
  <2>5. GoesOn(f)'
    <3>1. \A m, n \in Placements(f) : m.id < n.id => Rank(m.path) < Rank(n.path)
      BY <1>13 DEF FileInv, GoesOn
    <3>2. \A m \in Placements(f) : Rank(m.path) < Rank(to)
      BY <1>6, <2>2, Ranks
    <3> QED
      BY <1>5, <1>9, <1>10, <1>11, <2>1, <3>1, <3>2 DEF GoesOn
  <2>6. Told(f)'
    BY <1>10 DEF Told
  <2>7. disk'[<<"outbox", f>>] = disk[<<"outbox", f>>]
    BY <1>6, <1>11, Whereabouts
  <2>8. Accounted(f)'
    BY <1>9, <1>10, <1>13, <2>7, AccountedStill DEF FileInv
  <2>9. \A b \in Rollbacks : Overtaken(b, f)'
    BY <1>10 DEF Overtaken
  <2>10. ASSUME NEW b \in Rollbacks, NEW x \in work[b].rows, x.record.file = f,
                x.record \in mutations, x.to = RestoreTo(x.record), UndoneInv(b, x)
         PROVE  UndoneInv(b, x)'
    <3>1. x.record.action # "move"
      BY <1>1, <1>4, <1>13, <2>2, <2>10, UndoneIsBehind
    <3> QED
      BY <1>9, <1>10, <2>7, <2>10, <3>1 DEF UndoneInv
  <2> QED
    BY <2>4, <2>5, <2>6, <2>8, <2>9, <2>10 DEF KeptTold, FileInv
<1>14. unrecorded \subseteq unrecorded'
  BY <1>4
<1> QED
  BY <1>4, <1>8, <1>9, <1>12, <1>13, <1>14, FileByFile

(* What was done is recorded. *)
LEMMA LogTells ==
    ASSUME IdsTell, TellsInv, OneAtATime, NEW r \in Runs, Log(r), UNCHANGED rollbackVars
    PROVE  TellsInv'
<1>1. PlacesInv
  BY DEF TellsInv
<1>2. PICK f \in Files : f = run[r].file
  BY <1>1 DEF PlacesInv, Log
<1>3. PICK p, a : /\ p = run[r].path
                  /\ a = IF run[r].does = "moved" THEN "move" ELSE "create"
  OBVIOUS
<1> DEFINE m == Written(f, r, "mutation", a, p)
<1>4. /\ run[r].does \in {"moved", "made"}
      /\ Record(f, r, "mutation", a, p)
      /\ run' = [run EXCEPT ![r] = Idle]
      /\ UNCHANGED <<disk, unrecorded, work>>
  BY <1>2, <1>3 DEF Log, rollbackVars
<1> HIDE DEF m
<1>5. /\ mutations' = mutations \cup {m}
      /\ m.file = f /\ m.run = r /\ m.type = "mutation" /\ m.action = a /\ m.path = p
      /\ m.id \in Nat /\ \A n \in mutations : n.id < m.id
      /\ m \notin mutations
      /\ \A g : History(g)' = IF g = f THEN History(g) \cup {m} ELSE History(g)
      /\ \A g : Placements(g)' = IF g = f /\ Placed(m) THEN Placements(g) \cup {m}
                                 ELSE Placements(g)
      /\ \A n \in mutations : Before(n)' = Before(n)
  BY <1>4, RecordAdds DEF m
<1>6. /\ a = "move" => p \in At(f) /\ Rank(p) > 1
      /\ a = "create" => p = <<"outbox", f>>
  BY <1>1, <1>2, <1>3, <1>4 DEF PlacesInv
<1>7. PlacesInv'
  BY <1>1, <1>2, <1>4, <1>5, <1>6, RecordPlaced DEF Placed
<1>8. OnlyAdded
  BY <1>5 DEF OnlyAdded
<1>9. \A g : g # f => ~Holds("moved", g) /\ ~Holds("made", g)
  BY <1>2, OneRun
<1>10. Idle.does = "nothing" /\ \A s \in Runs : run'[s] = Idle
  <2>1. run'[r] = Idle
    BY <1>1, <1>4, RunSet
  <2> QED
    BY <2>1 DEF OneAtATime, Idle
<1>11. ASSUME NEW g \in Files, g # f, FileInv(g) PROVE LeftAlone(g) /\ GoesOn(g)'
  <2>1. LeftAlone(g)
    BY <1>4, <1>5, <1>9, <1>11 DEF LeftAlone, Unmoved
  <2> QED
    BY <1>1, <1>4, <1>10, <1>11, <2>1, HandsGoOn DEF LeftAlone, FileInv
<1>12. ASSUME FileInv(f), run[r].does = "moved" PROVE KeptTold(f)
  <2>1. Placed(m) /\ Placements(f)' = Placements(f) \cup {m}
    BY <1>3, <1>5, <1>12 DEF Placed
  <2>2. /\ p \in At(f) /\ disk[p] = f
        /\ \A n \in Placements(f) : Rank(n.path) < Rank(p)
        /\ \A n, o \in Placements(f) : n.id < o.id => Rank(n.path) < Rank(o.path)
    BY <1>2, <1>3, <1>6, <1>12 DEF FileInv, GoesOn
  <2>3. LiesOnce(f)'
    BY <1>4, <1>12 DEF FileInv, LiesOnce
  <2>4. \A n \in Placements(f) : n.id \in Nat /\ n.id < m.id
    BY <1>5, PlacementsAre DEF IdsTell, Known
  <2>5. GoesOn(f)'
    <3>1. \A n, o \in Placements(f)' : n.id < o.id => Rank(n.path) < Rank(o.path)
      BY <1>5, <2>1, <2>2, <2>4
    <3> QED
      BY <1>10, <3>1 DEF GoesOn
  <2>6. Last(m, Placements(f)') /\ disk'[m.path] = f /\ m \in Placements(f)'
    BY <1>4, <1>5, <2>1, <2>2, <2>4 DEF Last
  <2>7. Accounted(f)'
    <3>1. ~Holds("made", f) /\ History(f) \subseteq History(f)'
      BY <1>5, <1>12, OneRun
    <3> QED
      BY <1>4, <1>12, <3>1, AccountedStill DEF FileInv
  <2>8. FileInv(f)'
    BY <2>3, <2>5, <2>6, <2>7 DEF FileInv, Told
  <2>9. \A b \in Rollbacks : Overtaken(b, f)'
    BY <2>6 DEF Overtaken
  <2>10. ASSUME NEW b \in Rollbacks, NEW x \in work[b].rows, x.record.file = f,
                x.record \in mutations, x.to = RestoreTo(x.record), UndoneInv(b, x)
         PROVE  UndoneInv(b, x)'
    <3>1. \A n \in Placements(f) : Rank(n.path) <= Rank(p)
      BY <2>2, Ranks
    <3>2. f # NoFile
      BY <1>2, FilesAssumption
    <3>3. x.record.action # "move"
      BY <1>1, <1>2, <1>12, <2>2, <2>10, <3>1, <3>2, UndoneIsBehind
    <3>4. ~Holds("made", f) /\ History(f) \subseteq History(f)'
      BY <1>5, <1>12, OneRun
    <3> QED
      BY <1>4, <2>10, <3>3, <3>4 DEF UndoneInv
  <2> QED
    BY <2>8, <2>9, <2>10 DEF KeptTold
<1>13. ASSUME FileInv(f), run[r].does = "made" PROVE KeptTold(f)
  <2>1. a = "create" /\ ~Placed(m) /\ m \in History(f)' /\ m.action = "create"
    BY <1>3, <1>5, <1>13 DEF Placed
  <2>2. ~Holds("moved", f)
    BY <1>13, OneRun
  <2>3. Unmoved(f)
    BY <1>4, <1>5, <2>1, <2>2 DEF Unmoved
  <2>4. GoesOn(f)'
    BY <1>1, <1>4, <1>10, <1>13, <2>3, HandsGoOn DEF FileInv
  <2>5. Accounted(f)'
    BY <2>1 DEF Accounted
  <2>6. FileInv(f)'
    BY <1>1, <1>2, <1>13, <2>3, <2>4, <2>5, FileStill DEF Unmoved
  <2>7. \A b \in Rollbacks : Overtaken(b, f) => Overtaken(b, f)'
    BY <1>1, <1>4, <2>3, UnmovedRows
  <2>8. ASSUME NEW b \in Rollbacks, NEW x \in work[b].rows, x.record.file = f,
               x.record \in mutations, UndoneInv(b, x)
        PROVE  UndoneInv(b, x)'
    <3>1. x.record.action = "move" =>
             x.to \in At(f) /\ disk'[x.to] = f /\ Last(x.record, Placements(f)')
      BY <1>1, <1>4, <2>3, <2>8, UnmovedRows
    <3>2. m # x.record
      BY <1>5, <2>8
    <3> QED
      BY <2>1, <2>8, <3>1, <3>2 DEF UndoneInv, Last
  <2> QED
    BY <2>6, <2>7, <2>8 DEF KeptTold
<1>14. unrecorded \subseteq unrecorded'
  BY <1>4
<1> QED
  BY <1>4, <1>7, <1>8, <1>11, <1>12, <1>13, <1>14, FileByFile

(* What a run does keeps to it. *)
LEMMA RunsTell ==
    ASSUME IdsTell, TellsInv, OneAtATime, RoutesLeadOn, NEW r \in Runs, RunStep(r),
           UNCHANGED rollbackVars
    PROVE  TellsInv'
<1>1. ASSUME NEW f \in Files, Inventory(r, f) \/ Classify(r, f) \/ Select(r, f)
      PROVE  TellsInv'
  BY <1>1, InventoryTells, ClassifyTells, SelectTells
<1>2. CASE Refuse(r)
  <2>1. /\ run[r].does = "selected" /\ run' = [run EXCEPT ![r] = Idle]
        /\ UNCHANGED <<disk, mutations, unrecorded, work>>
    BY <1>2 DEF Refuse, rollbackVars
  <2> QED
    BY <2>1, RefuseTells
<1>3. CASE Publish(r) \/ Log(r) \/ LoseEvidence(r)
  BY <1>3, PublishTells, LogTells, LoseTells
<1>4. ASSUME NEW place \in Places, Move(r, place) PROVE TellsInv'
  BY <1>4, MoveTells
<1> QED
  BY <1>1, <1>2, <1>3, <1>4 DEF RunStep

(* Files nothing is done to. *)
LEMMA FilesUntouched ==
    ASSUME IdsTell, TellsInv, UNCHANGED <<disk, mutations, run, unrecorded>>
    PROVE  /\ PlacesInv' /\ OnlyAdded
           /\ \A f : LeftAlone(f)
           /\ \A f \in Files \ unrecorded : GoesOn(f)' /\ FileInv(f)'
<1>1. PlacesInv
  BY DEF TellsInv
<1>2. PlacesInv'
  BY <1>1 DEF PlacesInv
<1>3. OnlyAdded /\ \A f : Placements(f)' = Placements(f) /\ History(f)' = History(f)
  BY NoneAdded
<1>4. \A f : LeftAlone(f)
  <2>1. \A d, f : Holds(d, f)' = Holds(d, f)
    BY DEF Holds
  <2> QED
    BY <1>3, <2>1 DEF LeftAlone, Unmoved
<1>5. ASSUME NEW f \in Files \ unrecorded PROVE GoesOn(f)' /\ FileInv(f)'
  <2>1. FileInv(f)
    BY <1>5 DEF TellsInv
  <2>2. GoesOn(f)'
    BY <1>1, <1>3, <2>1, GoesOnStill DEF FileInv
  <2>3. Accounted(f)'
    BY <1>4, <2>1, AccountedStill DEF LeftAlone, FileInv
  <2> QED
    BY <1>1, <1>4, <2>1, <2>2, <2>3, FileStill DEF LeftAlone, Unmoved
<1> QED
  BY <1>2, <1>3, <1>4, <1>5

(* Steps that change nothing it speaks of. *)
LEMMA UntouchedTells ==
    ASSUME IdsTell, TellsInv, UNCHANGED <<disk, mutations, run, unrecorded, work>>
    PROVE  TellsInv'
<1>1. PlacesInv' /\ OnlyAdded
  BY FilesUntouched
<1>2. \A f \in Files \ unrecorded' : LeftAlone(f) /\ GoesOn(f)'
  BY FilesUntouched
<1> QED
  BY <1>1, <1>2, FileByFile

(* Steps of a Rollback that leave the files alone. *)
LEMMA CallsTell ==
    ASSUME IdsTell, TellsInv, OneAtATime, NEW b \in Rollbacks, UnderWay(b)',
           UNCHANGED <<disk, mutations, run, unrecorded>>
    PROVE  TellsInv'
<1>1. PlacesInv' /\ \A f \in Files \ unrecorded' : FileInv(f)'
  BY FilesUntouched
<1>2. \A c \in Rollbacks : UnderWay(c)'
  BY DEF OneAtATime
<1> QED
  BY <1>1, <1>2 DEF TellsInv

(* What is answered of a file is the end of its history. *)
LEMMA AnswerGoesToTheEnd ==
    ASSUME IdsTell, PlacesInv, OneAtATime, NEW o, ~Refused(o),
           NEW n \in Answer(o), NEW m \in mutations, m.file = n.file, n.id <= m.id
    PROVE  m \in Answer(o)
<1>1. n \in mutations
  BY AnswerIsOfRecords
<1>2. n.run = m.run
  BY <1>1 DEF PlacesInv, OneAtATime
<1>3. n \in Requested(o) => m \in Requested(o)
  BY <1>2 DEF Requested
<1>4. CASE o.by = "mutation"
  <2>1. PICK a : a = (CHOOSE x \in Anchors(o) : TRUE)
    OBVIOUS
  <2>2. Anchors(o) # {}
    BY <1>4 DEF Refused
  <2>3. a \in Anchors(o)
    BY <2>1, <2>2
  <2>4. a \in mutations
    BY <2>3 DEF Anchors
  <2> DEFINE M == Requested(o)
             cut(f) == IF f = a.file THEN {a}
                       ELSE {x \in M : x.file = f /\ x.type = a.type}
  <2>5. Answer(o) = {x \in M : cut(x.file) # {} /\ NewestOf(cut(x.file)).id <= x.id}
    BY <1>4, <2>1 DEF Answer, AfterBoundary
  <2>6. M \subseteq mutations
    BY DEF Requested
  <2>7. cut(m.file) \subseteq mutations /\ cut(m.file) = cut(n.file)
    BY <2>4, <2>6
  <2> HIDE DEF cut, M
  <2>8. n \in M /\ cut(n.file) # {} /\ NewestOf(cut(n.file)).id <= n.id
    BY <2>5
  <2>9. NewestOf(cut(m.file)) \in mutations
    BY <2>7, <2>8, LastIs DEF Last
  <2>10. NewestOf(cut(m.file)).id <= m.id
    BY <1>1, <2>7, <2>8, <2>9 DEF IdsTell, Known
  <2>11. m \in M
    BY <1>3, <2>8 DEF M
  <2> QED
    BY <2>5, <2>7, <2>8, <2>10, <2>11
<1>5. CASE o.by # "mutation"
  BY <1>3, <1>5 DEF Answer
<1> QED
  BY <1>4, <1>5

(* The applied rollback's own request. *)
LEMMA RequestTells ==
    ASSUME IdsTell, WorksShaped, TellsInv, OneAtATime, NEW b \in Rollbacks, Request(b)
    PROVE  TellsInv'
<1>1. UNCHANGED <<disk, mutations, run, unrecorded>> /\ PlacesInv
  BY DEF Request, filesVars, TellsInv
<1>2. CASE Refused(object[b].opening)
  <2>1. work'[b] = NotWorking
    BY <1>2, IdleSets DEF Request
  <2>2. UnderWay(b)'
    BY <2>1, NothingUnderWay DEF NotWorking
  <2> QED
    BY <1>1, <2>2, CallsTell
<1>3. CASE ~Refused(object[b].opening)
  <2>1. PICK o : o = object[b].opening
    OBVIOUS
  <2>2. Asked(b, "reversing", {}, mutations = work[b].seen, Rows(Answer(o)))
    BY <1>3, <2>1 DEF Request, Asked
  <2>3. work'[b].at = "reversing" /\ work'[b].rows = Rows(Answer(o))
    BY <2>2, RequestSets
  <2>4. \A x : x \in work'[b].rows <=>
                 \E m \in Answer(o) : x = [record |-> m, to |-> RestoreTo(m)]
    BY <2>3 DEF Rows
  <2>5. \A x \in work'[b].rows :
           /\ x = [record |-> x.record, to |-> x.to]
           /\ x.record \in Answer(o) /\ x.to = RestoreTo(x.record)
    BY <2>4
  <2>6. \A m \in Answer(o) : \E x \in work'[b].rows : x.record = m
    <3> SUFFICES ASSUME NEW m \in Answer(o) PROVE \E x \in work'[b].rows : x.record = m
      OBVIOUS
    <3>1. [record |-> m, to |-> RestoreTo(m)] \in work'[b].rows
      BY <2>4
    <3>2. [record |-> m, to |-> RestoreTo(m)].record = m
      OBVIOUS
    <3> QED
      BY <3>1, <3>2
  <2>7. Answer(o) \subseteq mutations
    BY AnswerIsOfRecords
  <2>8. \A n \in Answer(o), m \in mutations : m.file = n.file /\ n.id <= m.id => m \in Answer(o)
    BY <1>1, <1>3, <2>1, AnswerGoesToTheEnd
  <2>9. \A f : Placements(f)' = Placements(f) /\ \A d : Holds(d, f)' = Holds(d, f)
    BY <1>1, NoneAdded DEF Holds
  <2>10. \A m \in mutations : RestoreTo(m)' = RestoreTo(m)
    BY <1>1, NoneAdded, SameBefore DEF OnlyAdded
  <2>11. RowsInv(b)'
    <3>1. ASSUME NEW x \in work'[b].rows, NEW y \in work'[b].rows, NEW m \in mutations',
                 m.file = x.record.file, m.file = y.record.file,
                 x.record.id <= m.id, m.id <= y.record.id
          PROVE  \E z \in work'[b].rows : z.record = m
      <4>1. m \in Answer(o)
        BY <1>1, <2>5, <2>8, <3>1
      <4> QED
        BY <2>6, <4>1
    <3>2. \A x \in work'[b].rows :
             /\ x = [record |-> x.record, to |-> x.to]
             /\ x.record \in mutations' /\ x.to = RestoreTo(x.record)'
      BY <1>1, <2>5, <2>7, <2>10
    <3> QED
      BY <3>1, <3>2 DEF RowsInv
  <2>12. ASSUME NEW f \in Files \ unrecorded' PROVE Overtaken(b, f)'
    <3>1. SUFFICES ASSUME NEW x \in work'[b].rows, x.record.file = f, Placed(x.record)
                   PROVE  \/ Holds("moved", f)'
                          \/ \E m \in Placements(f)' :
                                /\ Last(m, Placements(f)')
                                /\ disk'[m.path] = f \/ \E z \in work'[b].rows : z.record = m
      BY DEF Overtaken, Placed
    <3>2. x.record \in Placements(f) /\ x.record \in Answer(o)
      BY <2>5, <2>7, <3>1, PlacementsAre
    <3>3. Placements(f) \subseteq mutations /\ \A m \in Placements(f) : m.file = f
      BY PlacementsAre
    <3>4. Placements(f) # {}
      BY <3>2
    <3>5. PICK m : Last(m, Placements(f))
      BY <3>3, <3>4, LastIs
    <3>6. m \in Answer(o)
      BY <2>8, <3>1, <3>2, <3>3, <3>5 DEF Last
    <3> QED
      BY <2>6, <2>9, <3>5, <3>6 DEF Last
  <2>13. UnderWay(b)'
    BY <2>3, <2>11, <2>12 DEF UnderWay
  <2> QED
    BY <1>1, <2>13, CallsTell
<1> QED
  BY <1>2, <1>3

(* The calls that undo nothing. *)
LEMMA QuietCallsTell ==
    ASSUME IdsTell, WorksShaped, TellsInv, OneAtATime, NEW b \in Rollbacks,
           \/ \E o \in Openings : Open(b, o) \/ ChooseScope(b, o)
           \/ Preview(b) \/ Execute(b) \/ Stop(b) \/ Look(b) \/ Ungovern(b)
           \/ Complete(b) \/ Break(b)
    PROVE  TellsInv'
<1>1. UNCHANGED <<disk, mutations, run, unrecorded>>
  BY DEF Open, ChooseScope, Preview, Execute, Stop, Look, Ungovern, Complete, Break,
         filesVars
<1>2. CASE UNCHANGED work
  BY <1>1, <1>2, UntouchedTells
<1>3. ASSUME work'[b].at \notin {"reversing", "reversed"} PROVE TellsInv'
  BY <1>1, <1>3, NothingUnderWay, CallsTell
<1>4. CASE Complete(b) \/ Break(b)
  <2>1. work'[b] = NotWorking
    BY <1>4, IdleSets DEF Complete, Break
  <2> QED
    BY <1>3, <2>1 DEF NotWorking
<1>5. CASE Stop(b)
  <2>1. work' = [work EXCEPT ![b].at = "manifests"]
    BY <1>5 DEF Stop
  <2>2. work'[b].at = "manifests"
    BY <2>1, AtSets
  <2> QED
    BY <1>3, <2>2
<1>6. CASE Look(b)
  <2>1. PICK T : work' = [work EXCEPT ![b].touched = T]
    BY <1>6 DEF Look
  <2>2. work'[b].at = "manifests"
    BY <1>6, <2>1, TouchedSets DEF Look
  <2> QED
    BY <1>3, <2>2
<1>7. CASE Execute(b)
  <2>1. CASE UNCHANGED work
    BY <1>2, <2>1
  <2>2. CASE Compared(b, "compared", mutations)
    <3>1. work'[b].at = "compared"
      BY <2>2, ExecuteSets
    <3> QED
      BY <1>3, <3>1
  <2> QED
    BY <1>7, <2>1, <2>2 DEF Execute, Compared
<1>8. CASE Preview(b) \/ Ungovern(b) \/ \E o \in Openings : Open(b, o) \/ ChooseScope(b, o)
  BY <1>2, <1>8 DEF Preview, Ungovern, Open, ChooseScope
<1> QED
  BY <1>4, <1>5, <1>6, <1>7, <1>8

(* A move that can be undone is its file's last. *)
LEMMA ReversedIsLast ==
    ASSUME IdsTell, PlacesInv, NEW f \in Files, FileInv(f), NEW b \in Rollbacks,
           RowsInv(b), Overtaken(b, f), NEW x \in Newest(b), x.record.file = f,
           x.record.action = "move", Reversible(x)
    PROVE  ~Holds("moved", f) /\ Last(x.record, Placements(f))
<1>1. x \in work[b].rows /\ \A y \in work[b].rows : y.record.id <= x.record.id
  BY DEF Newest
<1>2. x.record \in mutations /\ x.to = RestoreTo(x.record) /\ x.to # NoPath
  BY <1>1 DEF RowsInv, Reversible
<1>3. x.record \in Placements(f) /\ x.record.path \in At(f)
  BY <1>2, PlacementsAre DEF Placed, PlacesInv
<1>4. GoesOn(f) /\ LiesOnce(f) /\ f # NoFile
  BY FilesAssumption DEF FileInv
<1>5. x.to \in At(f) /\ Rank(x.to) < Rank(x.record.path)
  BY <1>2, <1>3, <1>4, RestoredLower
<1>6. ASSUME NEW p \in At(f), disk[p] = f, Rank(x.record.path) < Rank(p) PROVE FALSE
  <2>1. \A q \in At(f) : disk[q] # NoFile => q = p
    BY <1>4, <1>6, OnePlace
  <2>2. /\ Rank(x.to) \in Nat /\ Rank(x.record.path) \in Nat /\ Rank(p) \in Nat
    BY Ranks
  <2>3. x.to # p /\ x.record.path # p
    BY <1>5, <1>6, <2>2
  <2>4. disk[x.to] = NoFile /\ disk[x.record.path] = NoFile
    BY <1>3, <1>5, <2>1, <2>3
  <2> QED
    BY <2>4 DEF Reversible
<1>7. ~Holds("moved", f)
  <2> SUFFICES ASSUME Holds("moved", f) PROVE FALSE
    OBVIOUS
  <2>1. PICK r \in Runs : run[r].does = "moved" /\ run[r].file = f
    BY DEF Holds
  <2>2. run[r].path \in At(f)
    BY <2>1 DEF PlacesInv
  <2>3. disk[run[r].path] = f /\ Rank(x.record.path) < Rank(run[r].path)
    BY <1>3, <1>4, <2>1 DEF GoesOn
  <2> QED
    BY <1>6, <2>2, <2>3
<1>8. Placed(x.record)
  BY DEF Placed
<1>9. PICK m \in Placements(f) :
         /\ Last(m, Placements(f))
         /\ disk[m.path] = f \/ \E y \in work[b].rows : y.record = m
  BY <1>1, <1>7, <1>8 DEF Overtaken
<1>10. /\ m \in mutations /\ m.path \in At(f) /\ m.id \in Nat /\ x.record.id \in Nat
       /\ m.id = x.record.id => m = x.record
       /\ x.record.id <= m.id
  BY <1>2, <1>3, <1>9, PlacementsAre DEF PlacesInv, IdsTell, Known, Last
<1>11. m = x.record
  <2>1. CASE disk[m.path] = f
    <3> SUFFICES ASSUME m # x.record PROVE FALSE
      OBVIOUS
    <3>1. x.record.id < m.id
      BY <1>10
    <3>2. Rank(x.record.path) < Rank(m.path)
      BY <1>3, <1>4, <1>9, <3>1 DEF GoesOn
    <3> QED
      BY <1>6, <1>10, <2>1, <3>2
  <2>2. CASE \E y \in work[b].rows : y.record = m
    BY <1>1, <1>10, <2>2
  <2> QED
    BY <1>9, <2>1, <2>2
<1> QED
  BY <1>7, <1>9, <1>11

(* One reversal. *)
LEMMA ReverseTells ==
    ASSUME IdsTell, WorksShaped, TellsInv, OneAtATime, NEW b \in Rollbacks, Reverse(b)
    PROVE  TellsInv'
<1>1. PICK x \in Newest(b) :
         /\ work[b].at = "reversing" /\ Reversible(x) /\ disk' = Undone(x)
         /\ work' = [work EXCEPT ![b].at = "reversed"]
         /\ UNCHANGED <<mutations, run, unrecorded>>
  BY DEF Reverse
<1>2. /\ work'[b].at = "reversed" /\ work'[b].rows = work[b].rows
      /\ Newest(b)' = Newest(b)
  BY <1>1, AtSets DEF Newest
<1>3. PlacesInv /\ RowsInv(b) /\ \A f \in Files \ unrecorded : FileInv(f) /\ Overtaken(b, f)
  BY <1>1 DEF TellsInv, UnderWay
<1>4. /\ x \in work[b].rows /\ \A y \in work[b].rows : y.record.id <= x.record.id
      /\ x.record \in mutations /\ x.to = RestoreTo(x.record)
  BY <1>1, <1>3 DEF Newest, RowsInv
<1>5. PICK g \in Files : g = x.record.file
  BY <1>3, <1>4 DEF PlacesInv
<1> DEFINE p == x.record.path
           out == <<"outbox", g>>
<1>6. /\ x.record.action = "move" =>
            /\ p \in At(g) /\ x.to \in At(g)
            /\ x.record \in Placements(g)
      /\ x.record.action = "create" => p = out
  <2>1. ASSUME x.record.action = "move"
        PROVE  p \in At(g) /\ x.to \in At(g) /\ x.record \in Placements(g)
    <3>1. x.to # NoPath
      BY <1>1, <2>1 DEF Reversible
    <3> QED
      BY <1>3, <1>4, <1>5, <2>1, <3>1, RestoredAt, PlacementsAre DEF Placed, PlacesInv
  <2> QED
    BY <1>3, <1>4, <1>5, <2>1 DEF PlacesInv
<1>7. At(g) \subseteq Paths /\ out \in Paths /\ out \notin At(g) /\ DOMAIN disk = Paths
  BY <1>3, Whereabouts DEF PlacesInv
<1>8. /\ disk' = IF x.record.action = "move" /\ disk[p] # NoFile
                 THEN [disk EXCEPT ![x.to] = disk[p], ![p] = NoFile]
                 ELSE IF x.record.action = "create" THEN [disk EXCEPT ![p] = NoFile]
                 ELSE disk
  BY <1>1 DEF Undone
<1> HIDE DEF p
<1>9. disk' \in [Paths -> Files \cup {NoFile} \cup {Made[f] : f \in Files}]
  <2> DEFINE contents == Files \cup {NoFile} \cup {Made[f] : f \in Files}
  <2>1. NoFile \in contents /\ disk \in [Paths -> contents]
    BY <1>3 DEF PlacesInv
  <2> SUFFICES disk' \in [Paths -> contents]
    OBVIOUS
  <2> HIDE DEF contents
  <2>2. CASE x.record.action = "move" /\ disk[p] # NoFile
    <3>1. p \in Paths /\ x.to \in Paths
      BY <1>6, <1>7, <2>2
    <3> QED
      BY <1>8, <2>1, <2>2, <3>1
  <2>3. CASE ~(x.record.action = "move" /\ disk[p] # NoFile)
    BY <1>6, <1>7, <1>8, <2>1, <2>3
  <2> QED
    BY <2>2, <2>3
<1>10. PlacesInv'
  BY <1>1, <1>3, <1>9 DEF PlacesInv
<1>11. /\ OnlyAdded
       /\ \A f : Placements(f)' = Placements(f) /\ History(f)' = History(f)
       /\ \A d, f : Holds(d, f)' = Holds(d, f)
  BY <1>1, NoneAdded DEF Holds
<1>12. \A m \in mutations : RestoreTo(m)' = RestoreTo(m)
  BY <1>11, SameBefore DEF OnlyAdded
<1>13. RowsInv(b)'
  BY <1>1, <1>2, <1>3, <1>12 DEF RowsInv
<1>14. ASSUME NEW f \in Files, f # g
       PROVE  \A q \in At(f) \cup {<<"outbox", f>>} : disk'[q] = disk[q]
  <2>1. \A q \in At(f) \cup {<<"outbox", f>>} : q \in Paths /\ q \notin At(g) /\ q # out
    <3>1. g \in Files /\ At(f) \subseteq Paths
      BY <1>5, <1>14, Whereabouts
    <3>2. \A q \in At(f) : q \notin At(g) /\ q # out
      BY <1>14, <3>1, Whereabouts
    <3>3. <<"outbox", f>> \in Paths /\ <<"outbox", f>> \notin At(g) /\ <<"outbox", f>> # out
      BY <1>14, <3>1, Whereabouts
    <3> QED
      BY <3>1, <3>2, <3>3
  <2> QED
    BY <1>6, <1>7, <1>8, <2>1
<1>15. ASSUME NEW f \in Files, FileInv(f), \A q \in At(f) : disk'[q] = disk[q],
              disk'[<<"outbox", f>>] \in {disk[<<"outbox", f>>], NoFile}
       PROVE  FileInv(f)' /\ (Overtaken(b, f) => Overtaken(b, f)')
  <2>1. Unmoved(f)
    BY <1>11, <1>15 DEF Unmoved
  <2>2. GoesOn(f)'
    BY <1>1, <1>3, <1>11, <1>15, GoesOnStill DEF FileInv
  <2>3. Accounted(f)'
    BY <1>11, <1>15 DEF FileInv, Accounted
  <2> QED
    BY <1>2, <1>3, <1>15, <2>1, <2>2, <2>3, FileStill, UnmovedRows DEF Unmoved
<1>16. \A y \in Newest(b)' : y.record = x.record /\ y.to = x.to
  <2> SUFFICES ASSUME NEW y \in Newest(b) PROVE y.record = x.record /\ y.to = x.to
    BY <1>2
  <2>1. /\ y \in work[b].rows /\ \A z \in work[b].rows : z.record.id <= y.record.id
        /\ y.record \in mutations /\ y.to = RestoreTo(y.record)
    BY <1>3 DEF Newest, RowsInv
  <2>2. y.record.id <= x.record.id /\ x.record.id <= y.record.id
    BY <1>4, <2>1
  <2> QED
    BY <1>4, <2>1, <2>2 DEF IdsTell, Known
<1>17. ASSUME g \notin unrecorded, x.record.action = "move"
       PROVE  /\ FileInv(g)' /\ Overtaken(b, g)'
              /\ disk'[x.to] = g /\ Last(x.record, Placements(g)')
  <2>1. /\ FileInv(g) /\ Overtaken(b, g) /\ LiesOnce(g) /\ GoesOn(g)
    BY <1>3, <1>5, <1>17 DEF FileInv
  <2>2. ~Holds("moved", g) /\ Last(x.record, Placements(g))
    BY <1>1, <1>3, <1>5, <1>17, <2>1, ReversedIsLast
  <2>3. Last(x.record, Placements(g)')
    BY <1>11, <2>2
  <2>4. x.to # NoPath /\ (disk[p] # NoFile \/ disk[x.to] # NoFile)
    BY <1>1, <1>17 DEF Reversible, p
  <2>5. x.to # p
    <3>1. Rank(x.to) < Rank(p)
      BY <1>3, <1>4, <1>6, <1>17, <2>1, <2>4, RestoredLower DEF p
    <3> QED
      BY <3>1, Ranks
  <2>6. CASE disk[p] = NoFile
    <3>1. disk' = disk
      BY <1>8, <1>17, <2>6
    <3>2. disk'[x.to] = g
      BY <1>6, <1>17, <2>1, <2>4, <2>6, <3>1, OnePlace
    <3>3. FileInv(g)' /\ Overtaken(b, g)'
      BY <1>5, <1>15, <2>1, <3>1
    <3> QED
      BY <2>3, <3>2, <3>3
  <2>7. CASE disk[p] # NoFile
    <3>1. disk[p] = g /\ \A q \in At(g) : q # p => disk[q] = NoFile
      BY <1>6, <1>17, <2>1, <2>7, OnePlace
    <3>2. /\ disk'[x.to] = g
          /\ \A q \in At(g) : q # x.to => disk'[q] = NoFile
          /\ disk'[out] = disk[out]
      BY <1>6, <1>7, <1>8, <1>17, <2>5, <2>7, <3>1
    <3>3. LiesOnce(g)'
      BY <1>6, <1>17, <3>2 DEF LiesOnce
    <3>4. GoesOn(g)'
      <4>1. \A m, n \in Placements(g)' : m.id < n.id => Rank(m.path) < Rank(n.path)
        BY <1>11, <2>1 DEF GoesOn
      <4>2. ASSUME NEW r \in Runs, run'[r].file = g
            PROVE  run'[r].does # "moved"
        BY <1>1, <2>2, <4>2 DEF Holds
      <4>3. ASSUME NEW r \in Runs, run'[r].file = g, run'[r].does = "selected"
            PROVE  \A m \in Placements(g)' : Rank(m.path) <= Rank(run'[r].path)
        BY <1>1, <1>11, <2>1, <4>3 DEF GoesOn
      <4> QED
        BY <4>1, <4>2, <4>3 DEF GoesOn
    <3>5. Accounted(g)'
      BY <1>11, <2>1, <3>2 DEF FileInv, Accounted
    <3>6. RestoreTo(x.record)' = x.to
      BY <1>4, <1>12
    <3>7. Told(g)'
      BY <1>6, <1>11, <1>17, <2>3, <2>4, <3>2, <3>6 DEF Told
    <3>8. Overtaken(b, g)'
      BY <1>2, <1>4, <1>6, <1>11, <1>17, <2>3 DEF Overtaken
    <3> QED
      BY <2>3, <3>2, <3>3, <3>4, <3>5, <3>7, <3>8 DEF FileInv
  <2> QED
    BY <2>6, <2>7
<1>18. ASSUME x.record.action # "move"
       PROVE  /\ \A q \in At(g) : disk'[q] = disk[q]
              /\ disk'[out] \in {disk[out], NoFile}
              /\ x.record.action = "create" => disk'[out] = NoFile
  BY <1>6, <1>7, <1>8, <1>18
<1>19. ASSUME NEW f \in Files \ unrecorded PROVE FileInv(f)' /\ Overtaken(b, f)'
  <2>1. FileInv(f) /\ Overtaken(b, f)
    BY <1>3
  <2>2. CASE f # g
    BY <1>14, <1>15, <2>1, <2>2
  <2>3. CASE f = g /\ x.record.action = "move"
    BY <1>17, <2>3
  <2>4. CASE f = g /\ x.record.action # "move"
    BY <1>15, <1>18, <2>1, <2>4
  <2> QED
    BY <2>2, <2>3, <2>4
<1>20. ASSUME NEW y \in Newest(b)', y.record.file \notin unrecorded PROVE UndoneInv(b, y)'
  <2>1. y.record = x.record /\ y.to = x.to
    BY <1>16
  <2>2. y.record.file = g
    BY <1>5, <2>1
  <2>3. x.record.action = "move" =>
          x.to \in At(g) /\ disk'[x.to] = g /\ Last(x.record, Placements(g)')
    BY <1>6, <1>17, <1>20, <2>2
  <2>4. x.record.action = "create" => disk'[out] = NoFile
    BY <1>18
  <2> QED
    BY <2>1, <2>2, <2>3, <2>4 DEF UndoneInv, Last
<1>21. UnderWay(b)'
  BY <1>1, <1>2, <1>13, <1>19, <1>20 DEF UnderWay
<1> QED
  BY <1>1, <1>10, <1>19, <1>21 DEF TellsInv, OneAtATime

(* A record is deleted whose change is undone. *)
LEMMA ForgetTells ==
    ASSUME IdsTell, WorksShaped, TellsInv, OneAtATime, NEW b \in Rollbacks, Forget(b)
    PROVE  TellsInv'
<1>1. PICK x \in Newest(b) :
         /\ work[b].at = "reversed" /\ mutations' = mutations \ {x.record}
         /\ Deleted(b, "reversing", work[b].rows \ {x}, work[b].undone \cup {x.record},
                    work[b].touched \cup {x.record.file})
         /\ UNCHANGED <<disk, run, unrecorded>>
  BY DEF Forget, Deleted
<1>2. work'[b].at = "reversing" /\ work'[b].rows = work[b].rows \ {x}
  BY <1>1, ForgetSets
<1>3. PlacesInv /\ RowsInv(b) /\ \A f \in Files \ unrecorded : FileInv(f) /\ Overtaken(b, f)
  BY <1>1 DEF TellsInv, UnderWay
<1>4. /\ x \in work[b].rows /\ \A y \in work[b].rows : y.record.id <= x.record.id
      /\ x.record \in mutations /\ x.to = RestoreTo(x.record)
      /\ x = [record |-> x.record, to |-> x.to]
  BY <1>1, <1>3 DEF Newest, RowsInv
<1>5. PICK g \in Files : g = x.record.file
  BY <1>3, <1>4 DEF PlacesInv
<1>6. g \notin unrecorded => UndoneInv(b, x)
  BY <1>1, <1>5 DEF TellsInv, UnderWay
<1>7. PlacesInv'
  BY <1>1, <1>3 DEF PlacesInv
<1>8. /\ \A f : History(f)' = History(f) \ {x.record}
      /\ \A f : Placements(f)' = Placements(f) \ {x.record}
      /\ \A f : f # g => Placements(f)' = Placements(f) /\ History(f)' = History(f)
      /\ ~Placed(x.record) => Placements(g)' = Placements(g)
      /\ \A d, f : Holds(d, f)' = Holds(d, f)
  <2>1. /\ \A f : History(f)' = History(f) \ {x.record}
        /\ \A f : Placements(f)' = Placements(f) \ {x.record}
    BY <1>1 DEF History, Placements
  <2>2. \A f : (f # g => x.record \notin History(f)) /\ Placements(f) \subseteq History(f)
    BY <1>5 DEF History, Placements
  <2>3. ~Placed(x.record) => x.record \notin Placements(g)
    BY PlacementsAre
  <2>4. \A d, f : Holds(d, f)' = Holds(d, f)
    BY <1>1 DEF Holds
  <2> QED
    BY <2>1, <2>2, <2>3, <2>4
<1>9. \A m \in mutations : m.id \in Nat
  BY DEF IdsTell, Known
<1>10. \A y \in work'[b].rows : y \in work[b].rows /\ y.record # x.record
  BY <1>2, <1>3, <1>4 DEF RowsInv
<1>11. \A z \in work[b].rows : z.record # x.record => z \in work'[b].rows
  BY <1>2
<1>12. RowsInv(b)'
  <2>1. ASSUME NEW y \in work'[b].rows
        PROVE  /\ y = [record |-> y.record, to |-> y.to]
               /\ y.record \in mutations' /\ y.to = RestoreTo(y.record)'
    <3>1. /\ y \in work[b].rows /\ y.record # x.record /\ y.record \in mutations
          /\ y.to = RestoreTo(y.record) /\ y = [record |-> y.record, to |-> y.to]
      BY <1>3, <1>10, <2>1 DEF RowsInv
    <3>2. ~(x.record.id < y.record.id)
      BY <1>4, <1>9, <3>1
    <3>3. Before(y.record)' = Before(y.record)
      BY <1>8, <3>2 DEF Before
    <3> QED
      BY <1>1, <3>1, <3>3, SameBefore
  <2>2. ASSUME NEW y \in work'[b].rows, NEW z \in work'[b].rows, NEW m \in mutations',
               m.file = y.record.file, m.file = z.record.file,
               y.record.id <= m.id, m.id <= z.record.id
        PROVE  \E w \in work'[b].rows : w.record = m
    <3>1. m \in mutations /\ m # x.record
      BY <1>1
    <3>2. \E w \in work[b].rows : w.record = m
      BY <1>3, <1>10, <2>2, <3>1 DEF RowsInv
    <3> QED
      BY <1>11, <3>1, <3>2
  <2> QED
    BY <2>1, <2>2 DEF RowsInv
<1>13. \A f : \A m \in Placements(f) :
          m \in mutations /\ m.file = f /\ m.id \in Nat /\ Placed(m)
  BY <1>9, PlacementsAre
<1>14. ASSUME NEW f \in Files \ unrecorded PROVE Overtaken(b, f)'
  <2>1. FileInv(f) /\ Overtaken(b, f)
    BY <1>3
  <2>2. SUFFICES ASSUME NEW y \in work'[b].rows, y.record.file = f, Placed(y.record),
                        ~Holds("moved", f)
                 PROVE  \E m \in Placements(f)' :
                           /\ Last(m, Placements(f)')
                           /\ disk'[m.path] = f \/ \E z \in work'[b].rows : z.record = m
    BY <1>8 DEF Overtaken, Placed
  <2>3. /\ y \in work[b].rows /\ y.record # x.record /\ y.record \in mutations
        /\ y.record \in Placements(f) /\ y.record \in Placements(f)'
    BY <1>3, <1>8, <1>10, <2>2, PlacementsAre DEF RowsInv
  <2>4. PICK m \in Placements(f) :
           /\ Last(m, Placements(f))
           /\ disk[m.path] = f \/ \E z \in work[b].rows : z.record = m
    BY <2>1, <2>2, <2>3 DEF Overtaken
  <2>5. CASE m # x.record
    <3>1. m \in Placements(f)' /\ Last(m, Placements(f)')
      BY <1>8, <2>4, <2>5 DEF Last
    <3>2. disk'[m.path] = f \/ \E z \in work'[b].rows : z.record = m
      BY <1>1, <1>11, <2>4, <2>5
    <3> QED
      BY <3>1, <3>2
  <2>6. CASE m = x.record
    <3>1. Placements(f) \ {x.record} \subseteq mutations
          /\ Placements(f) \ {x.record} # {}
      BY <1>13, <2>3
    <3>2. PICK n : Last(n, Placements(f) \ {x.record})
      BY <3>1, LastIs
    <3>3. n \in Placements(f)' /\ Last(n, Placements(f)')
      BY <1>8, <3>2 DEF Last
    <3>4. y.record.id <= n.id /\ n.id <= x.record.id /\ n \in Placements(f)
      BY <2>3, <2>4, <2>6, <3>2 DEF Last
    <3>5. n \in mutations /\ n.file = f /\ n # x.record /\ x.record.file = f
      BY <1>13, <2>4, <2>6, <3>2 DEF Last
    <3>6. \E z \in work[b].rows : z.record = n
      BY <1>3, <1>4, <2>2, <2>3, <3>4, <3>5 DEF RowsInv
    <3> QED
      BY <1>11, <3>3, <3>5, <3>6
  <2> QED
    BY <2>5, <2>6
<1>15. ASSUME NEW f \in Files, FileInv(f) PROVE GoesOn(f)' /\ LiesOnce(f)'
  <2>1. LiesOnce(f)'
    BY <1>1, <1>15 DEF FileInv, LiesOnce
  <2>2. GoesOn(f)'
    BY <1>1, <1>3, <1>8, <1>15, GoesOnStill DEF FileInv
  <2> QED
    BY <2>1, <2>2
<1>16. ASSUME NEW f \in Files \ unrecorded PROVE Accounted(f)'
  <2>1. Accounted(f)
    BY <1>3, <1>16 DEF FileInv
  <2>2. SUFFICES ASSUME disk[<<"outbox", f>>] # NoFile, ~Holds("made", f)
                 PROVE  \E m \in History(f)' : m.action = "create"
    BY <1>1, <1>8 DEF Accounted
  <2>3. PICK m \in History(f) : m.action = "create"
    BY <2>1, <2>2 DEF Accounted
  <2>4. CASE m # x.record
    BY <1>8, <2>3, <2>4
  <2>5. CASE m = x.record
    <3>1. f = g
      BY <1>5, <2>3, <2>5 DEF History
    <3>2. PICK n \in History(f) : n.action = "create" /\ n # x.record
      BY <1>5, <1>6, <1>16, <2>2, <2>3, <2>5, <3>1 DEF UndoneInv
    <3> QED
      BY <1>8, <3>2
  <2> QED
    BY <2>4, <2>5
<1>17. ASSUME NEW f \in Files \ unrecorded, Placements(f)' = Placements(f)
       PROVE  FileInv(f)'
  <2>1. FileInv(f)
    BY <1>3
  <2> QED
    BY <1>1, <1>3, <1>8, <1>15, <1>16, <1>17, <2>1, FileStill
<1>18. ASSUME g \notin unrecorded, Placed(x.record) PROVE Told(g)'
  <2>1. /\ FileInv(g) /\ Overtaken(b, g) /\ GoesOn(g) /\ UndoneInv(b, x)
    BY <1>3, <1>5, <1>6, <1>18 DEF FileInv
  <2>2. x.record \in Placements(g)
    BY <1>4, <1>5, <1>18, PlacementsAre
  <2>3. SUFFICES ASSUME ~Holds("moved", g), Placements(g)' # {}
                 PROVE  \E m \in Placements(g)' : Last(m, Placements(g)') /\ disk'[m.path] = g
    BY <1>8 DEF Told
  <2>4. ASSUME NEW m \in Placements(g), m # x.record, Last(m, Placements(g)), disk[m.path] = g
        PROVE  \E n \in Placements(g)' : Last(n, Placements(g)') /\ disk'[n.path] = g
    BY <1>1, <1>8, <2>4 DEF Last
  <2>5. CASE x.record.action = "move"
    <3>1. x.to \in At(g) /\ disk[x.to] = g /\ Last(x.record, Placements(g))
      BY <1>5, <2>1, <2>5 DEF UndoneInv
    <3>2. x.to # NoPath
      BY <1>5, <3>1, Whereabouts
    <3>3. PICK m : Last(m, Before(x.record)) /\ x.to = m.path
      BY <1>3, <1>4, <3>2, RestoredAt
    <3>4. Before(x.record) = Placements(g)'
      <4>1. \A o \in Placements(g) : o # x.record => o.id # x.record.id
        BY <1>4, <1>13 DEF IdsTell, Known
      <4>2. \A o \in Placements(g) : o # x.record <=> o.id < x.record.id
        BY <1>4, <1>9, <1>13, <3>1, <4>1 DEF Last
      <4> QED
        BY <1>5, <1>8, <4>2 DEF Before
    <3> QED
      BY <1>1, <3>1, <3>3, <3>4 DEF Last
  <2>6. CASE x.record.action # "move"
    <3>1. x.record.type = "inventory" /\ Rank(x.record.path) = 1
      BY <1>3, <1>4, <1>18, <2>6, Ranks DEF Placed, PlacesInv
    <3>2. PICK m \in Placements(g) :
             /\ Last(m, Placements(g))
             /\ disk[m.path] = g \/ \E z \in work[b].rows : z.record = m
      BY <1>4, <1>5, <1>18, <2>1, <2>3 DEF Overtaken
    <3>3. PICK n \in Placements(g) : n # x.record
      BY <1>8, <2>3
    <3>4. x.record.id < n.id
      <4>1. n.id # x.record.id /\ n.id \in Nat /\ x.record.id \in Nat
        BY <1>4, <1>9, <1>13, <3>3 DEF IdsTell, Known
      <4>2. ~(n.id < x.record.id)
        <5> SUFFICES ASSUME n.id < x.record.id PROVE FALSE
          OBVIOUS
        <5>1. Rank(n.path) < 1
          BY <2>1, <2>2, <3>1, <3>3 DEF GoesOn
        <5> QED
          BY <5>1, Ranks
      <4> QED
        BY <4>1, <4>2
    <3>5. x.record.id < m.id
      BY <1>4, <1>9, <1>13, <3>2, <3>3, <3>4 DEF Last
    <3>6. m # x.record /\ ~\E z \in work[b].rows : z.record = m
      BY <1>4, <1>9, <1>13, <3>5
    <3> QED
      BY <2>4, <3>2, <3>6
  <2> QED
    BY <2>5, <2>6
<1>19. ASSUME NEW f \in Files \ unrecorded PROVE FileInv(f)'
  <2>1. CASE f # g \/ ~Placed(x.record)
    BY <1>8, <1>17, <2>1
  <2>2. CASE f = g /\ Placed(x.record)
    BY <1>3, <1>15, <1>16, <1>18, <2>2 DEF FileInv
  <2> QED
    BY <2>1, <2>2
<1>20. UnderWay(b)'
  BY <1>1, <1>2, <1>12, <1>14 DEF UnderWay
<1> QED
  BY <1>1, <1>7, <1>19, <1>20 DEF TellsInv, OneAtATime

(* Every step keeps to it. *)
LEMMA TellsStep ==
    ASSUME OneAtATime, RoutesLeadOn, ShownIInv, TellsInv, [Next]_vars
    PROVE  TellsInv'
<1>1. IdsTell /\ WorksShaped
  BY DEF ShownIInv
<1>2. ASSUME NEW r \in Runs, RunStep(r), UNCHANGED rollbackVars PROVE TellsInv'
  BY <1>1, <1>2, RunsTell
<1>3. ASSUME NEW b \in Rollbacks, RollbackStep(b) PROVE TellsInv'
  <2>1. CASE Request(b) \/ Reverse(b) \/ Forget(b)
    BY <1>1, <2>1, RequestTells, ReverseTells, ForgetTells
  <2>2. CASE \/ \E o \in Openings : Open(b, o) \/ ChooseScope(b, o)
             \/ Preview(b) \/ Execute(b) \/ Stop(b) \/ Look(b) \/ Ungovern(b)
             \/ Complete(b) \/ Break(b)
    BY <1>1, <2>2, QuietCallsTell
  <2> QED
    BY <1>3, <2>1, <2>2 DEF RollbackStep
<1>4. CASE UNCHANGED vars
  <2>1. UNCHANGED <<disk, mutations, run, unrecorded, work>>
    BY <1>4 DEF vars, filesVars, rollbackVars
  <2> QED
    BY <1>1, <2>1, UntouchedTells
<1> QED
  BY <1>2, <1>3, <1>4 DEF Next

(* At first every file is in the inbox, and nothing says so yet. *)
LEMMA TellsInit ==
    ASSUME RollbackInit
    PROVE  TellsInv
<1>1. /\ disk = [p \in Paths |-> IF p[1] = "inbox" THEN p[2] ELSE NoFile]
      /\ mutations = {} /\ run = [r \in Runs |-> Idle]
      /\ \A b \in Rollbacks : work[b].at = "rest"
  BY DEF RollbackInit, Init, NotWorking
<1>2. Idle.does = "nothing"
  BY DEF Idle
<1>3. \A f : Placements(f) = {} /\ History(f) = {}
  BY <1>1 DEF Placements, History
<1>4. PlacesInv
  <2>1. \A p \in Paths : p[2] \in Files
    BY DEF Paths
  <2>2. disk \in [Paths -> Files \cup {NoFile} \cup {Made[f] : f \in Files}]
    BY <1>1, <2>1
  <2> QED
    BY <1>1, <1>2, <2>2 DEF PlacesInv
<1>5. ASSUME NEW f \in Files PROVE FileInv(f)
  <2>1. LiesOnce(f)
    <3>1. <<"inbox", f>> \in At(f) /\ At(f) \subseteq Paths
      BY Whereabouts
    <3>2. \A p \in At(f) : p = <<p[1], f>>
      BY Whereabouts
    <3>3. disk[<<"inbox", f>>] = f
      BY <1>1, <3>1
    <3>4. \A p \in At(f) : p # <<"inbox", f>> => disk[p] = NoFile
      BY <1>1, <3>1, <3>2
    <3> QED
      BY <3>1, <3>3, <3>4 DEF LiesOnce
  <2>2. GoesOn(f) /\ Told(f)
    BY <1>1, <1>2, <1>3 DEF GoesOn, Told
  <2>3. Accounted(f)
    <3>1. <<"outbox", f>> \in Paths
      BY Whereabouts
    <3> QED
      BY <1>1, <3>1 DEF Accounted
  <2> QED
    BY <2>1, <2>2, <2>3 DEF FileInv
<1> QED
  BY <1>1, <1>4, <1>5 DEF TellsInv, UnderWay

(* What is told of each file is what the history tells. *)
LEMMA TellsEnough ==
    ASSUME IdsTell, TellsInv, manifests \subseteq Files
    PROVE  HistoryTells
<1>1. ASSUME NEW f \in manifests, f \notin unrecorded, Placements(f) # {},
             ~\E r \in Runs : run[r].file = f /\ run[r].does = "moved"
      PROVE  \/ disk[NewestOf(Placements(f)).path] = f
             \/ /\ NewestOf(Placements(f)).action = "move"
                /\ RestoreTo(NewestOf(Placements(f))) # NoPath
                /\ disk[RestoreTo(NewestOf(Placements(f)))] = f
  <2>1. Told(f) /\ ~Holds("moved", f)
    BY <1>1 DEF TellsInv, FileInv, Holds
  <2>2. PICK m \in Placements(f) :
           /\ Last(m, Placements(f))
           /\ \/ disk[m.path] = f
              \/ m.action = "move" /\ RestoreTo(m) # NoPath /\ disk[RestoreTo(m)] = f
    BY <1>1, <2>1 DEF Told
  <2>3. Placements(f) \subseteq mutations
    BY PlacementsAre
  <2>4. m = NewestOf(Placements(f))
    BY <1>1, <2>2, <2>3, LastIs
  <2> QED
    BY <2>2, <2>4
<1>2. ASSUME NEW f \in Files, disk[<<"outbox", f>>] # NoFile, f \notin unrecorded
      PROVE  \/ \E m \in History(f) : m.action = "create"
             \/ \E r \in Runs : run[r].file = f /\ run[r].does = "made"
  BY <1>2 DEF TellsInv, FileInv, Accounted, Holds
<1> QED
  BY <1>1, <1>2 DEF HistoryTells

(* The history tells where a file is, of one run and one Rollback at a     *)
(* time and routes that lead on: for every number of files and records,    *)
(* whatever a rollback is opened from, and wherever it breaks off.         *)
THEOREM HistoryIsTold ==
    ASSUME OneAtATime, RoutesLeadOn
    PROVE  Spec => []HistoryTells
<1>1. RollbackInit => ShownIInv /\ TellsInv /\ manifests \subseteq Files
  BY ShownInit, TellsInit DEF RollbackInit, Init
<1>2. ShownIInv /\ TellsInv /\ manifests \subseteq Files /\ [Next]_vars
        => (ShownIInv /\ TellsInv /\ manifests \subseteq Files)'
  BY ShownStep, TellsStep, FilesGoverned
<1>3. ShownIInv /\ TellsInv /\ manifests \subseteq Files => HistoryTells
  BY TellsEnough DEF ShownIInv
<1> QED
  BY <1>1, <1>2, <1>3, PTL DEF Spec
================================================================================
