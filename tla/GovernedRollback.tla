--------------------------- MODULE GovernedRollback ----------------------------
(***************************************************************************)
(* Live rollbacks of governed files beside the runs that work on them: the *)
(* Rollback object and its protocol (rey_lib/files/rollback.py), and       *)
(* FileManifest.rollback, the algorithm it calls (files/manifest.py).  A   *)
(* Rollback does one operation at a time; two Rollbacks share nothing but  *)
(* the disk and the control database.                                      *)
(***************************************************************************)
EXTENDS GovernedFiles

CONSTANTS Rollbacks,   \* the Rollback objects
          Openings     \* what one may be opened from

VARIABLES
  object,    \* by Rollback: the protocol's state
  work,      \* by Rollback: where its call of FileManifest.rollback stands
  drop,      \* by Rollback: the file it found without records, and when
  overtaken  \* records written between such a finding and what came of it

drops == <<drop, overtaken>>
rollbackVars == <<object, work, drops>>
vars == <<filesVars, rollbackVars>>

(* An opening: the file, the mutation or the run, and one of the scopes it *)
(* offers.                                                                 *)
Opening == [by : {"file"}, file : Files, scope : {"file", "installation"}]
           \cup [by : {"mutation"}, id : 1 .. MaxMutations,
                 scope : {"file", "run", "installation"}]
           \cup [by : {"run"}, run : Runs, scope : {"run"}]

ASSUME OpeningsAssumption == Openings \subseteq Opening

Closed == [phase |-> "closed", opening |-> {}, preview |-> {}]
NotWorking == [at |-> "rest", seen |-> {}, same |-> TRUE, rows |-> {},
               undone |-> {}, touched |-> {}]

-----------------------------------------------------------------------------
(* What a rollback reaches.                                                *)

(* The manifests of a named scope (external), and the records of them.     *)
Within(m, scope) ==
    CASE scope = "file" -> {m.file}
      [] scope = "run" -> {o.file : o \in {x \in mutations : x.run = m.run}}
      [] OTHER -> Files

Anchors(o) == {m \in mutations : m.id = o.id}

Requested(o) ==
    CASE o.by = "run"  -> {m \in mutations : m.run = o.run}
      [] o.by = "file" -> {m \in mutations :
                              o.scope = "installation" \/ m.file = o.file}
      [] OTHER -> {m \in mutations :
                      \E a \in Anchors(o) : m.file \in Within(a, o.scope)}

(* Slip: a file without a record of the anchor's type is not cut, and is   *)
(* reversed whole.                                                         *)
NotCutIsWhole(records, a) ==
    LET cut(f) == IF f = a.file THEN {a}
                  ELSE {m \in records : m.file = f /\ m.type = a.type}
    IN {m \in records : cut(m.file) = {} \/ NewestOf(cut(m.file)).id <= m.id}

(* _after_boundary: the anchor's file from the anchor, every other file    *)
(* from its latest record of the anchor's type.                            *)
AfterBoundary(records, a) ==
    LET cut(f) == IF f = a.file THEN {a}
                  ELSE {m \in records : m.file = f /\ m.type = a.type}
    IN {m \in records : cut(m.file) # {} /\ NewestOf(cut(m.file)).id <= m.id}

(* An anchor that is no longer there is refused. *)
Refused(o) == o.by = "mutation" /\ Anchors(o) = {}

Answer(o) ==
    IF o.by = "mutation"
    THEN AfterBoundary(Requested(o), CHOOSE a \in Anchors(o) : TRUE)
    ELSE Requested(o)

(* The rows as the request returns them, each with where it is undone to.  *)
Rows(M) == {[record |-> m, to |-> RestoreTo(m)] : m \in M}

Ids(M) == {m.id : m \in M}

-----------------------------------------------------------------------------
(* The Rollback.                                                           *)

RollbackInit ==
    /\ Init
    /\ object = [b \in Rollbacks |-> Closed]
    /\ work = [b \in Rollbacks |-> NotWorking]
    /\ drop = [b \in Rollbacks |-> {}] /\ overtaken = {}

Becomes(b, phase, preview) ==
    object' = [object EXCEPT ![b].phase = phase, ![b].preview = preview]

Open(b, o) ==
    /\ object[b].phase = "closed"
    /\ object' = [object EXCEPT ![b] =
                     [phase |-> "request", opening |-> o, preview |-> {}]]
    /\ UNCHANGED <<filesVars, work>>

(* _Operation: one operation of a Rollback at a time. *)
Free(b) == object[b].phase # "closed" /\ work[b].at = "rest"

(* choose_scope: what was previewed or done for another scope is dropped. *)
ChooseScope(b, o) ==
    /\ Free(b)
    /\ o = [object[b].opening EXCEPT !.scope = o.scope]
    /\ object' = [object EXCEPT ![b] =
                     [phase |-> "request", opening |-> o, preview |-> {}]]
    /\ UNCHANGED <<filesVars, work>>

(* preview, a dry run: what the request answers is held. *)
Preview(b) ==
    /\ Free(b)
    /\ IF Refused(object[b].opening)
       THEN Becomes(b, "request", {})
       ELSE Becomes(b, "confirmation", Answer(object[b].opening))
    /\ UNCHANGED <<filesVars, work>>

(* Slip: what is reached is not compared with what was shown. *)
NotCompared(b) == ~Refused(object[b].opening)

(* execute: what is reached now is what the preview showed. *)
StillAsPreviewed(b) ==
    /\ ~Refused(object[b].opening)
    /\ Ids(Answer(object[b].opening)) = Ids(object[b].preview)

(* execute, up to the comparison. *)
Execute(b) ==
    /\ Free(b) /\ object[b].phase = "confirmation"
    /\ IF StillAsPreviewed(b)
       THEN /\ Becomes(b, "executing", object[b].preview)
            /\ work' = [work EXCEPT ![b].at = "compared", ![b].seen = mutations]
       ELSE /\ Becomes(b, "request", {})
            /\ UNCHANGED work
    /\ UNCHANGED filesVars

(* The applied rollback requests again, and reverses what it is answered.  *)
Request(b) ==
    /\ work[b].at = "compared"
    /\ IF Refused(object[b].opening)
       THEN /\ Becomes(b, "request", {})
            /\ work' = [work EXCEPT ![b] = NotWorking]
       ELSE /\ work' = [work EXCEPT ![b].at = "reversing",
                                    ![b].seen = {},
                                    ![b].same = (mutations = work[b].seen),
                                    ![b].rows = Rows(Answer(object[b].opening))]
            /\ UNCHANGED object
    /\ UNCHANGED filesVars

(* The row whose turn it is, newest first: one, while there are rows. *)
Newest(b) == {x \in work[b].rows :
                 \A y \in work[b].rows : y.record.id <= x.record.id}

(* _reverse can undo it: a move whose file is where it was left, or is     *)
(* back already; a created file, there or not; a record alone.             *)
Reversible(x) ==
    CASE x.record.action = "move" ->
            /\ x.to # NoPath
            /\ disk[x.record.path] # NoFile \/ disk[x.to] # NoFile
      [] OTHER -> TRUE

Undone(x) ==
    CASE x.record.action = "move" /\ disk[x.record.path] # NoFile ->
            [disk EXCEPT ![x.to] = disk[x.record.path], ![x.record.path] = NoFile]
      [] x.record.action = "create" -> [disk EXCEPT ![x.record.path] = NoFile]
      [] OTHER -> disk

(* Slip: the record is deleted before its change is undone. *)
ForgetFirst(b) == \E x \in Newest(b) :
    /\ work[b].at = "reversing"
    /\ Reversible(x)
    /\ mutations' = mutations \ {x.record}
    /\ work' = [work EXCEPT ![b].at = "reversed"]
    /\ UNCHANGED <<disk, manifests, nextId, run, unrecorded, object>>

(* One reversal, newest first; then its record is to be deleted. *)
Reverse(b) == \E x \in Newest(b) :
    /\ work[b].at = "reversing"
    /\ Reversible(x)
    /\ disk' = Undone(x)
    /\ work' = [work EXCEPT ![b].at = "reversed"]
    /\ UNCHANGED <<manifests, mutations, nextId, run, unrecorded, object>>

(* delete_file_mutation *)
Forget(b) == \E x \in Newest(b) :
    /\ work[b].at = "reversed"
    /\ mutations' = mutations \ {x.record}
    /\ work' = [work EXCEPT ![b].at = "reversing",
                            ![b].rows = work[b].rows \ {x},
                            ![b].undone = work[b].undone \cup {x.record},
                            ![b].touched = work[b].touched \cup {x.record.file}]
    /\ UNCHANGED <<disk, manifests, nextId, run, unrecorded, object>>

(* The rest is left: nothing is left to reverse, or the newest cannot be   *)
(* undone, or the file system refuses.                                     *)
Stop(b) ==
    /\ work[b].at = "reversing"
    /\ \A x \in Newest(b) :
          ~Reversible(x) \/ x.record.action \in {"move", "create"}
    /\ work' = [work EXCEPT ![b].at = "manifests"]
    /\ UNCHANGED <<filesVars, object>>

(* Slip: every file something was reversed of is dropped. *)
Touched(f) == TRUE

Unmentioned(f) == History(f) = {}

(* list_file_mutations: whether a file something was reversed of has       *)
(* records left.                                                           *)
Look(b) == \E f \in work[b].touched :
    /\ work[b].at = "manifests" /\ drop[b] = {}
    /\ drop' = [drop EXCEPT ![b] = IF Unmentioned(f)
                                   THEN {[file |-> f, since |-> nextId]} ELSE {}]
    /\ work' = [work EXCEPT ![b].touched = work[b].touched \ {f}]
    /\ UNCHANGED <<filesVars, object, overtaken>>

(* delete_file_manifest: one found without is no longer governed, whatever *)
(* was recorded of it in between.                                          *)
Ungovern(b) == \E d \in drop[b] :
    /\ manifests' = manifests \ {d.file}
    /\ overtaken' = overtaken \cup {m \in History(d.file) : d.since <= m.id}
    /\ drop' = [drop EXCEPT ![b] = {}]
    /\ UNCHANGED <<disk, mutations, nextId, run, unrecorded, object, work>>

Complete(b) ==
    /\ work[b].at = "manifests" /\ work[b].touched = {} /\ drop[b] = {}
    /\ Becomes(b, "complete", {})
    /\ work' = [work EXCEPT ![b] = NotWorking]
    /\ UNCHANGED filesVars

(* A control routine fails, and the Rollback asks for another preview; or  *)
(* with an error it does not expect, which leaves it "executing"; or the   *)
(* process dies, and a Rollback is opened anew.                            *)
Break(b) ==
    /\ work[b].at # "rest"
    /\ \/ Becomes(b, "request", {})
       \/ UNCHANGED object
       \/ object' = [object EXCEPT ![b] = Closed]
    /\ work' = [work EXCEPT ![b] = NotWorking]
    /\ drop' = [drop EXCEPT ![b] = {}]
    /\ UNCHANGED <<filesVars, overtaken>>

RollbackStep(b) ==
    \/ /\ \/ \E o \in Openings : Open(b, o) \/ ChooseScope(b, o)
          \/ Preview(b) \/ Execute(b) \/ Request(b) \/ Reverse(b)
          \/ Forget(b) \/ Stop(b) \/ Complete(b)
       /\ UNCHANGED drops
    \/ Look(b) \/ Ungovern(b) \/ Break(b)

Next ==
    \/ (\E r \in Runs : RunStep(r)) /\ UNCHANGED rollbackVars
    \/ \E b \in Rollbacks : RollbackStep(b)

Spec == RollbackInit /\ [][Next]_vars

-----------------------------------------------------------------------------
TypeOK ==
    /\ FilesTypeOK
    /\ \A b \in Rollbacks :
          /\ object[b].phase \in {"closed", "request", "confirmation",
                                  "executing", "complete"}
          /\ work[b].at \in {"rest", "compared", "reversing", "reversed", "manifests"}
          /\ work[b].at # "rest" => object[b].phase = "executing"

(* The history tells where a file is: where its newest record left it, or, *)
(* a reversal having been done and its record not yet deleted -- perhaps   *)
(* never, the process having died -- where that record came from, so that  *)
(* rolling back again finds it.  Only a file in a run's hands or one whose *)
(* evidence was lost lies elsewhere.  What was made from a file is there   *)
(* only while a record says so.                                            *)
HistoryTells ==
    /\ \A f \in manifests :
          LET newest == NewestOf(Placements(f)) IN
          \/ Placements(f) = {}
          \/ f \in unrecorded
          \/ \E r \in Runs : run[r].file = f /\ run[r].does = "moved"
          \/ disk[newest.path] = f
          \/ newest.action = "move" /\ RestoreTo(newest) # NoPath
                                    /\ disk[RestoreTo(newest)] = f
    /\ \A f \in Files :
          disk[<<"outbox", f>>] # NoFile =>
              \/ \E m \in History(f) : m.action = "create"
              \/ f \in unrecorded
              \/ \E r \in Runs : run[r].file = f /\ run[r].does = "made"

(* A record belongs to a governed file, unless it was written between a    *)
(* rollback's finding that file without records and its deleting the       *)
(* manifest: nothing that was recorded before is ever stranded, however    *)
(* many runs and rollbacks work on the file.                               *)
GovernedUnlessOvertaken ==
    \A m \in mutations : m.file \in manifests \/ m \in overtaken

(* A boundary is kept to: of the anchor's file nothing before the anchor   *)
(* is shown or reversed, and of any other file one record of the anchor's  *)
(* type, its latest, and what came after.                                  *)
BoundaryKept ==
    \A b \in Rollbacks :
        (object[b].phase = "confirmation" /\ object[b].opening.by = "mutation") =>
            LET shown == object[b].preview
                a == CHOOSE m \in shown : m.id = object[b].opening.id
            IN /\ \A m \in shown : m.file = a.file => a.id <= m.id
               /\ \A f \in Files \ {a.file} :
                     LET of == {m \in shown : m.file = f}
                     IN of # {} => OldestOf(of).type = a.type
                                   /\ \A m \in of : m # OldestOf(of) => m.type # a.type

(* What an execution reverses its preview had shown, unless the records    *)
(* changed between the comparison and the applied rollback's own request.  *)
ReversedWasShownUnlessChanged ==
    \A b \in Rollbacks :
        work[b].at \in {"reversing", "reversed", "manifests"} =>
            work[b].undone \subseteq object[b].preview \/ ~work[b].same

================================================================================
