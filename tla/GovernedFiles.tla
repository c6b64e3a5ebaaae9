----------------------------- MODULE GovernedFiles -----------------------------
(***************************************************************************)
(* The life of governed files: where each one lies, and what the control   *)
(* database records of it (rey_lib/files/manifest.py, file_routing.py,     *)
(* log_run_rollback.py, logs/file_manifest.py).  A governed file is        *)
(* inventoried, routed from place to place, and files are made from it;    *)
(* each of those acts on the disk first and is recorded afterwards.        *)
(*                                                                         *)
(* The files of a model have different names: routing writes over what is  *)
(* in its way, and that is not modelled.                                   *)
(***************************************************************************)
EXTENDS Integers, FiniteSets

CONSTANTS Files,         \* the governed files; a file is also its content
          Made,          \* what is made from one, by file: its content
          Runs,          \* the runs that work on them
          Routes,        \* where a place's files may be routed
          NoFile,        \* nothing lies there
          MaxMutations   \* bound on the records written

ASSUME FilesAssumption ==
    /\ MaxMutations \in Nat
    /\ NoFile \notin Files
    /\ \A f \in Files : Made[f] \notin Files \cup {NoFile}

VARIABLES
  disk,        \* by path: what lies there
  manifests,   \* control.file_manifest: the files known
  mutations,   \* control.file_mutation: their records
  nextId,      \* the id the next record takes
  run,         \* by run: what it has in hand
  unrecorded   \* files something was done to whose record was lost

filesVars == <<disk, manifests, mutations, nextId, run, unrecorded>>

Places == {"inbox", "processing", "archive"}
Paths == (Places \cup {"outbox"}) \X Files
NoPath == <<"nowhere", "nowhere">>

(* A mutation: the path a move or a create left something at, the run that *)
(* wrote it, and what kind of record it is.                                *)
Mutation == [id : 1 .. MaxMutations, file : Files, run : Runs,
             type : {"inventory", "classification", "mutation"},
             action : {"record_only", "move", "create"},
             path : Paths \cup {NoPath}]

Idle == [does |-> "nothing", file |-> NoFile, path |-> NoPath]

History(f) == {m \in mutations : m.file = f}

(* The records that say where a file lies. *)
Placements(f) == {m \in History(f) : m.type = "inventory" \/ m.action = "move"}

NewestOf(M) == CHOOSE m \in M : \A o \in M : o.id <= m.id
OldestOf(M) == CHOOSE m \in M : \A o \in M : m.id <= o.id

(* Where the control database says a file is (external): what a step's     *)
(* file selection is answered.                                             *)
Located(f) == IF Placements(f) = {} THEN NoPath ELSE NewestOf(Placements(f)).path

(* restore_to_path of the request (external): where the history before a   *)
(* record says the file belongs.                                           *)
RestoreTo(m) ==
    LET before == {o \in Placements(m.file) : o.id < m.id}
    IN IF before = {} THEN NoPath ELSE NewestOf(before).path

-----------------------------------------------------------------------------
Init ==
    /\ disk = [p \in Paths |-> IF p[1] = "inbox" THEN p[2] ELSE NoFile]
    /\ manifests = {} /\ mutations = {} /\ nextId = 1
    /\ run = [r \in Runs |-> Idle]
    /\ unrecorded = {}

Record(f, r, type, action, path) ==
    /\ nextId <= MaxMutations
    /\ nextId' = nextId + 1
    /\ mutations' = mutations \cup
          {[id |-> nextId, file |-> f, run |-> r, type |-> type,
            action |-> action, path |-> path]}

(* inventory: one routine writes the manifest and its baseline; a file     *)
(* known already gets a baseline where it has none.                        *)
Inventory(r, f) ==
    /\ run[r] = Idle
    /\ disk[<<"inbox", f>>] = f
    /\ ~\E m \in History(f) : m.type = "inventory"
    /\ Record(f, r, "inventory", "record_only", <<"inbox", f>>)
    /\ manifests' = manifests \cup {f}
    /\ UNCHANGED <<disk, run, unrecorded>>

(* What a file is: an event without a place. *)
Classify(r, f) ==
    /\ run[r] = Idle /\ f \in manifests
    /\ ~\E m \in History(f) : m.type = "classification"
    /\ Record(f, r, "classification", "record_only", NoPath)
    /\ UNCHANGED <<disk, manifests, run, unrecorded>>

(* A step is handed a file with the place the database knows. *)
Select(r, f) ==
    /\ run[r] = Idle
    /\ f \in manifests /\ Located(f) # NoPath
    /\ run' = [run EXCEPT ![r] = [does |-> "selected", file |-> f, path |-> Located(f)]]
    /\ UNCHANGED <<disk, manifests, mutations, nextId, unrecorded>>

(* _move_to_role refuses what no longer lies where it was selected. *)
Refuse(r) ==
    /\ run[r].does = "selected" /\ disk[run[r].path] = NoFile
    /\ run' = [run EXCEPT ![r] = Idle]
    /\ UNCHANGED <<disk, manifests, mutations, nextId, unrecorded>>

(* move_file: the file is moved, its record not yet written. *)
Move(r, place) ==
    LET f == run[r].file  from == run[r].path  to == <<place, f>> IN
    /\ run[r].does = "selected" /\ disk[from] # NoFile
    /\ place \in Routes[from[1]]
    /\ disk' = [disk EXCEPT ![to] = disk[from], ![from] = NoFile]
    /\ run' = [run EXCEPT ![r] = [does |-> "moved", file |-> f, path |-> to]]
    /\ UNCHANGED <<manifests, mutations, nextId, unrecorded>>

(* A file is made from it and published over an earlier one, its record    *)
(* not yet written.                                                        *)
Publish(r) ==
    LET f == run[r].file  to == <<"outbox", f>> IN
    /\ run[r].does = "selected" /\ disk[run[r].path] # NoFile
    /\ disk' = [disk EXCEPT ![to] = Made[f]]
    /\ run' = [run EXCEPT ![r] = [does |-> "made", file |-> f, path |-> to]]
    /\ UNCHANGED <<manifests, mutations, nextId, unrecorded>>

(* log_source_file_mutation: the record of what was done. *)
Log(r) ==
    LET f == run[r].file IN
    /\ run[r].does \in {"moved", "made"} /\ f \in manifests
    /\ Record(f, r, "mutation", IF run[r].does = "moved" THEN "move" ELSE "create",
              run[r].path)
    /\ run' = [run EXCEPT ![r] = Idle]
    /\ UNCHANGED <<disk, manifests, unrecorded>>

(* The run dies, or its evidence does not commit: _raise FileRoutingEvidence- *)
(* Error.  What was done stays done, and nothing says so.                  *)
LoseEvidence(r) ==
    /\ run[r] # Idle
    /\ run' = [run EXCEPT ![r] = Idle]
    /\ unrecorded' = IF run[r].does = "selected" THEN unrecorded
                     ELSE unrecorded \cup {run[r].file}
    /\ UNCHANGED <<disk, manifests, mutations, nextId>>

RunStep(r) ==
    \/ \E f \in Files : Inventory(r, f) \/ Classify(r, f) \/ Select(r, f)
    \/ Refuse(r) \/ Publish(r) \/ Log(r) \/ LoseEvidence(r)
    \/ \E place \in Places : Move(r, place)

-----------------------------------------------------------------------------
FilesTypeOK ==
    /\ disk \in [Paths -> Files \cup {NoFile} \cup {Made[f] : f \in Files}]
    /\ manifests \subseteq Files
    /\ mutations \subseteq Mutation
    /\ nextId \in 1 .. MaxMutations + 1
    /\ run \in [Runs -> [does : {"nothing", "selected", "moved", "made"},
                         file : Files \cup {NoFile}, path : Paths \cup {NoPath}]]
    /\ unrecorded \subseteq Files
================================================================================
