--------------------------- MODULE DataLoadingProofs ---------------------------
(***************************************************************************)
(* Proofs about DataLoading, for any files, batches, loads and loaders,    *)
(* and wherever a loader is terminated or dies.                            *)
(***************************************************************************)
EXTENDS DataLoading, FiniteSetTheorems, TLAPS

-----------------------------------------------------------------------------
(* What a step sets.  A step is one loader's: what it has in hand, its     *)
(* transaction and, when that commits, the database.                       *)

LoaderTypes ==
    [at : Resting \cup Loading, pending : SUBSET Files,
     file : Files \cup {Before}, existed : BOOLEAN, batch : 1 .. Batches,
     end : {"none", "loaded", "failed", "raised", "terminated"}]

LoadersTyped == loader \in [Loaders -> LoaderTypes]
TablesTyped == db \in Database /\ txn \in [Loaders -> Database \cup {NoTxn}]
FilesTyped ==
    /\ job \in Jobs
    /\ place \in [Files -> {"inbox", "archive", "rejected"}]
    /\ reported \in [Files -> Nat] /\ lost \subseteq Files

(* The loader has the hand h in, the others are where they were. *)
Handed(l, h) ==
    /\ loader' \in [Loaders -> LoaderTypes]
    /\ loader'[l] = h /\ \A m \in Loaders \ {l} : loader'[m] = loader[m]

(* It goes on with its file. *)
GoesOn(l, s) ==
    /\ loader' \in [Loaders -> LoaderTypes]
    /\ loader'[l].at = s /\ loader'[l].file = loader[l].file
    /\ loader'[l].existed = loader[l].existed /\ loader'[l].batch = loader[l].batch
    /\ \A m \in Loaders \ {l} : loader'[m] = loader[m]

LEMMA TypesAre == TypeOK <=> LoadersTyped /\ TablesTyped /\ FilesTyped
BY DEF TypeOK, LoadersTyped, TablesTyped, FilesTyped, LoaderTypes

LEMMA HandSets ==
    ASSUME LoadersTyped, NEW l \in Loaders, NEW h \in LoaderTypes,
           loader' = [loader EXCEPT ![l] = h]
    PROVE  Handed(l, h)
BY DEF LoadersTyped, Handed

LEMMA GoesSets ==
    ASSUME LoadersTyped, NEW l \in Loaders, NEW s \in Resting \cup Loading, Goes(l, s)
    PROVE  GoesOn(l, s) /\ loader'[l].end = loader[l].end
<1>1. loader[l] \in LoaderTypes
  BY DEF LoadersTyped
<1> DEFINE h == [loader[l] EXCEPT !.at = s]
<1>2. loader' = [loader EXCEPT ![l] = h]
  BY DEF Goes
<1>3. /\ h \in LoaderTypes /\ h.at = s /\ h.file = loader[l].file
      /\ h.existed = loader[l].existed /\ h.batch = loader[l].batch /\ h.end = loader[l].end
  BY <1>1 DEF LoaderTypes
<1> HIDE DEF h
<1>4. Handed(l, h)
  BY <1>2, <1>3, HandSets
<1> QED
  BY <1>3, <1>4 DEF Handed, GoesOn

LEMMA LoadsSets ==
    ASSUME LoadersTyped, NEW l \in Loaders, NEW s \in Resting \cup Loading,
           NEW e \in {"loaded", "failed", "raised", "terminated"},
           loader' = [loader EXCEPT ![l].at = s, ![l].end = e]
    PROVE  GoesOn(l, s) /\ loader'[l].end = e
<1>1. loader[l] \in LoaderTypes
  BY DEF LoadersTyped
<1> DEFINE h == [loader[l] EXCEPT !.at = s, !.end = e]
<1>2. loader' = [loader EXCEPT ![l] = h]
  BY DEF LoadersTyped
<1>3. /\ h \in LoaderTypes /\ h.at = s /\ h.file = loader[l].file
      /\ h.existed = loader[l].existed /\ h.batch = loader[l].batch /\ h.end = e
  BY <1>1 DEF LoaderTypes
<1> HIDE DEF h
<1>4. Handed(l, h)
  BY <1>2, <1>3, HandSets
<1> QED
  BY <1>3, <1>4 DEF Handed, GoesOn

(* A hand that holds no file. *)
LEMMA FreshIs ==
    /\ Fresh \in LoaderTypes /\ Fresh.batch = 1 /\ Fresh.end = "none"
    /\ \A s \in Resting \cup Loading : [Fresh EXCEPT !.at = s] \in LoaderTypes
                                       /\ [Fresh EXCEPT !.at = s].at = s
<1>1. 1 \in 1 .. Batches
  BY LoadingAssumption
<1> QED
  BY <1>1 DEF Fresh, LoaderTypes, Resting

(* A run ends. *)
LEMMA EndSets ==
    ASSUME LoadersTyped, NEW l \in Loaders, Ends(l)
    PROVE  /\ loader' \in [Loaders -> LoaderTypes] /\ loader'[l].at = "ended"
           /\ \A m \in Loaders \ {l} : loader'[m] = loader[m]
<1>1. "ended" \in Resting \cup Loading
  BY DEF Resting
<1> QED
  BY <1>1, FreshIs, HandSets DEF Ends, Handed

(* A failure, or SIGTERM: the staging is removed first, where there is one. *)
LEMMA RaiseSets ==
    ASSUME LoadersTyped, NEW l \in Loaders, NEW e \in {"failed", "raised", "terminated"},
           Raises(l, e)
    PROVE  \E s \in {"remove", "fail", "leave"} :
              /\ GoesOn(l, s)
              /\ s = "remove" <=> Staged(l) /\ loader[l].at \in InStaging
              /\ s = "remove" => loader'[l].end = e
<1>1. "remove" \in Resting \cup Loading /\ "fail" \in Resting \cup Loading
      /\ "leave" \in Resting \cup Loading
  BY DEF Loading
<1>2. CASE Staged(l) /\ loader[l].at \in InStaging
  <2>1. loader' = [loader EXCEPT ![l].at = "remove", ![l].end = e]
    BY <1>2 DEF Raises
  <2> QED
    BY <1>1, <1>2, <2>1, LoadsSets
<1>3. CASE ~(Staged(l) /\ loader[l].at \in InStaging)
  <2>1. After(l, e) \in {"fail", "leave"} /\ Goes(l, After(l, e))
    BY <1>3 DEF Raises, After
  <2> QED
    BY <1>1, <1>3, <2>1, GoesSets
<1> QED
  BY <1>2, <1>3

(* What a statement leaves of the tables. *)
Kept == UNCHANGED <<db, txn>>
Undone(l) == db' = db /\ txn'[l] = NoTxn
Stored(l, tables) == db' = tables /\ txn'[l] = NoTxn
Opened(l, tables) == db' = db /\ txn'[l] = tables
Wrote(l, tables) ==
    Unlocked(l) /\ IF Autocommits THEN Stored(l, tables) ELSE Opened(l, tables)
Defined(l, tables) ==
    Unlocked(l) /\ IF Autocommits \/ DDLCommits THEN Stored(l, tables) ELSE Opened(l, tables)

OneTxnSet(l) == TablesTyped' /\ \A m \in Loaders \ {l} : txn'[m] = txn[m]

LEMMA KeptSets ==
    ASSUME TablesTyped, NEW l, Kept
    PROVE  OneTxnSet(l)
BY DEF TablesTyped, Kept, OneTxnSet

LEMMA RollsBackSets ==
    ASSUME TablesTyped, NEW l \in Loaders, RollsBack(l)
    PROVE  OneTxnSet(l) /\ Undone(l)
BY DEF TablesTyped, RollsBack, OneTxnSet, Undone

LEMMA CommittedSets ==
    ASSUME TablesTyped, NEW l \in Loaders, NEW T \in Database, Committed(l, T)
    PROVE  OneTxnSet(l) /\ Stored(l, T)
BY DEF TablesTyped, Committed, OneTxnSet, Stored

LEMMA OpenedSets ==
    ASSUME TablesTyped, NEW l \in Loaders, NEW T \in Database,
           txn' = [txn EXCEPT ![l] = T], UNCHANGED db
    PROVE  OneTxnSet(l) /\ Opened(l, T)
BY DEF TablesTyped, OneTxnSet, Opened

LEMMA WritesSets ==
    ASSUME TablesTyped, NEW l \in Loaders, NEW T \in Database, Writes(l, T)
    PROVE  OneTxnSet(l) /\ Wrote(l, T)
BY CommittedSets, OpenedSets DEF Writes, Wrote

LEMMA DefinesSets ==
    ASSUME TablesTyped, NEW l \in Loaders, NEW T \in Database, Defines(l, T)
    PROVE  OneTxnSet(l) /\ Defined(l, T)
<1>1. CASE DDLCommits
  BY <1>1, CommittedSets DEF Defines, Defined
<1>2. CASE ~DDLCommits
  BY <1>2, WritesSets DEF Defines, Defined, Wrote
<1> QED
  BY <1>1, <1>2

(* What a loader sees are tables, and there are tables to write. *)
LEMMA SeenTyped ==
    ASSUME TablesTyped, NEW l \in Loaders
    PROVE  Seen(l) \in Database
BY DEF TablesTyped, Seen

LEMMA TablesThere ==
    /\ Nothing \in [Pieces -> Nat] /\ Previous \in [Pieces -> Nat]
    /\ NoTable \in Tables /\ ~NoTable.there /\ NoTable.rows = Nothing
    /\ \A rows \in [Pieces -> Nat] :
          /\ Table(rows) \in Tables
          /\ Table(rows).there /\ Table(rows).rows = rows
    /\ \A f \in Files : Contents[f] \in [Pieces -> Nat]
BY DEF Nothing, Previous, NoTable, Table, Tables, Contents

LEMMA TableSet ==
    ASSUME NEW d \in Database, NEW T \in Tables
    PROVE  /\ d.target \in Tables /\ d.stage \in Tables /\ d.old \in Tables
           /\ [d EXCEPT !.target = T] \in Database
           /\ [d EXCEPT !.target = T].target = T
           /\ [d EXCEPT !.target = T].stage = d.stage
           /\ [d EXCEPT !.target = T].old = d.old
           /\ [d EXCEPT !.stage = T] \in Database
           /\ [d EXCEPT !.stage = T].stage = T
           /\ [d EXCEPT !.stage = T].target = d.target
           /\ [d EXCEPT !.stage = T].old = d.old
           /\ [d EXCEPT !.old = T] \in Database
           /\ [d EXCEPT !.old = T].old = T
           /\ [d EXCEPT !.old = T].target = d.target
           /\ [d EXCEPT !.old = T].stage = d.stage
BY DEF Database

LEMMA RowsSet ==
    ASSUME NEW d \in Database, NEW R \in [Pieces -> Nat]
    PROVE  /\ [d EXCEPT !.target.rows = R] \in Database
           /\ [d EXCEPT !.target.rows = R].target.rows = R
           /\ [d EXCEPT !.target.rows = R].target.there = d.target.there
           /\ [d EXCEPT !.target.rows = R].stage = d.stage
           /\ [d EXCEPT !.target.rows = R].old = d.old
BY DEF Database, Tables

-----------------------------------------------------------------------------
(* Where a loader stands, and what its open transaction means.             *)

Stands(l) ==
    /\ Working(l) => loader[l].file \in Files
    /\ loader[l].at \in {"clear", "promote", "copy", "settle", "retire", "remove"} => Staged(l)
    /\ loader[l].at \in {"read", "clear", "create"} => loader[l].batch = 1
    /\ At(l, "retire") => job.provider = "mysql"
    /\ loader[l].at \in {"copy", "settle"} => ~Autocommits

(* A transaction is open only while its loader is at work on the tables.   *)
Holds(l) ==
    txn[l] # NoTxn =>
       /\ ~Autocommits
       /\ loader[l].at \in {"create", "insert", "commit", "copy", "settle", "remove",
                            "fail", "leave"}
       /\ At(l, "create") => Staged(l)
       /\ At(l, "remove") => loader[l].end # "loaded"

Single == \A l, m \in Loaders : l = m \/ txn[l] = NoTxn \/ txn[m] = NoTxn

Base ==
    /\ LoadersTyped /\ TablesTyped /\ FilesTyped
    /\ Single /\ \A l \in Loaders : Stands(l) /\ Holds(l)

(* What a step of one loader comes to, whichever it is. *)
Steps(l) ==
    /\ LoadersTyped' /\ OneTxnSet(l) /\ FilesTyped' /\ job' = job
    /\ \A m \in Loaders \ {l} : loader'[m] = loader[m]
    /\ Stands(l)' /\ Holds(l)'
    /\ txn'[l] \in {NoTxn, txn[l]} \/ Unlocked(l)

LEMMA BaseKept ==
    ASSUME Base, NEW l \in Loaders, Steps(l)
    PROVE  Base'
<1>1. LoadersTyped' /\ TablesTyped' /\ FilesTyped'
  BY DEF Steps, OneTxnSet
<1>2. Single'
  BY DEF Base, Single, Steps, OneTxnSet, Unlocked
<1>3. ASSUME NEW m \in Loaders
      PROVE  (Stands(m) /\ Holds(m))'
  <2>1. CASE m = l
    BY <2>1 DEF Steps
  <2>2. CASE m # l
    <3>1. loader'[m] = loader[m] /\ txn'[m] = txn[m] /\ job' = job
      BY <2>2 DEF Steps, OneTxnSet
    <3> QED
      BY <3>1 DEF Base, Stands, Holds, Working, Staged, At, Autocommits
  <2> QED
    BY <2>1, <2>2
<1> QED
  BY <1>1, <1>2, <1>3 DEF Base

LEMMA BaseFirst == ASSUME Init PROVE Base
<1>1. loader \in [Loaders -> LoaderTypes] /\ \A l \in Loaders : loader[l] = Fresh
  BY FreshIs DEF Init
<1>2. db \in Database
  BY TablesThere DEF Init, Database
<1>3. \A l \in Loaders : txn[l] = NoTxn
  BY DEF Init
<1>4. \A l \in Loaders : loader[l].at = "idle"
  BY <1>1 DEF Fresh
<1>5. FilesTyped
  BY DEF Init, FilesTyped
<1>6. TablesTyped
  BY <1>2 DEF Init, TablesTyped
<1> QED
  BY <1>1, <1>3, <1>4, <1>5, <1>6
     DEF Base, LoadersTyped, Single, Stands, Holds, Working, At

(* The tables as they are, nothing else but where the loader stands. *)
LEMMA FilesKept ==
    ASSUME FilesTyped, UNCHANGED evidence
    PROVE  FilesTyped' /\ job' = job
BY DEF FilesTyped, evidence

LEMMA StartIs ==
    ASSUME Base, NEW l \in Loaders, Start(l)
    PROVE  /\ Steps(l) /\ Kept /\ UNCHANGED evidence
           /\ At(l, "idle") /\ At(l, "next")' /\ loader'[l].existed = FALSE
<1>1. At(l, "idle") /\ Kept /\ UNCHANGED evidence
  BY DEF Start, Kept
<1>2. PICK S \in SUBSET Files :
         loader' = [loader EXCEPT ![l] = [Fresh EXCEPT !.at = "next", !.pending = S]]
  BY DEF Start
<1> DEFINE h == [Fresh EXCEPT !.at = "next", !.pending = S]
<1>3. h \in LoaderTypes /\ h.at = "next" /\ h.existed = FALSE
  BY <1>2, FreshIs DEF Fresh, LoaderTypes, Resting
<1>4. loader' = [loader EXCEPT ![l] = h]
  BY <1>2
<1> HIDE DEF h
<1>5. Handed(l, h)
  BY <1>3, <1>4, HandSets DEF Base
<1>6. OneTxnSet(l) /\ FilesTyped' /\ job' = job /\ txn'[l] = txn[l]
  BY <1>1, KeptSets, FilesKept DEF Base, Kept
<1>7. txn[l] = NoTxn
  BY <1>1 DEF Base, Holds, At
<1> QED
  BY <1>1, <1>3, <1>5, <1>6, <1>7
     DEF Steps, Handed, LoadersTyped, Stands, Holds, Working, At

(* A loader that goes on, or rests, and what it needs to stand there. *)
LEMMA OnIs ==
    ASSUME Base, NEW l \in Loaders, NEW s \in Resting \cup Loading, GoesOn(l, s),
           OneTxnSet(l), FilesTyped', job' = job,
           txn'[l] \in {NoTxn, txn[l]} \/ Unlocked(l),
           Working(l) \/ s = "next",
           s \in {"clear", "promote", "copy", "settle", "retire", "remove"} => Staged(l),
           s \in {"read", "clear", "create"} => loader[l].batch = 1,
           s = "retire" => job.provider = "mysql",
           s \in {"copy", "settle"} => ~Autocommits,
           txn'[l] = NoTxn \/
              /\ ~Autocommits
              /\ s \in {"create", "insert", "commit", "copy", "settle", "remove", "fail", "leave"}
              /\ s = "create" => Staged(l)
              /\ s = "remove" => loader'[l].end # "loaded"
    PROVE  Steps(l)
<1>1. /\ loader'[l].at = s /\ loader'[l].file = loader[l].file
      /\ loader'[l].existed = loader[l].existed /\ loader'[l].batch = loader[l].batch
  BY DEF GoesOn
<1>2. Staged(l)' <=> Staged(l)
  BY <1>1 DEF Staged
<1>3. Autocommits' <=> Autocommits
  BY DEF Autocommits
<1>4. Stands(l)'
  BY <1>1, <1>2, <1>3 DEF Base, Stands, Working, At
<1>5. Holds(l)'
  BY <1>1, <1>2, <1>3 DEF Holds, At
<1> QED
  BY <1>4, <1>5 DEF Steps, GoesOn, LoadersTyped


(* A run that ends, and whatever it leaves open with it. *)
LEMMA EndIs ==
    ASSUME Base, NEW l \in Loaders, Ends(l), OneTxnSet(l), txn'[l] = NoTxn, FilesTyped',
           job' = job
    PROVE  Steps(l) /\ At(l, "ended")'
BY EndSets DEF Base, Steps, LoadersTyped, Stands, Holds, Working, At

LEMMA TakeIs ==
    ASSUME Base, NEW l \in Loaders, Take(l)
    PROVE  /\ Steps(l) /\ Kept /\ UNCHANGED evidence /\ At(l, "next")
           /\ \/ At(l, "ended")' /\ loader'[l] = [Fresh EXCEPT !.at = "ended"]
              \/ /\ At(l, "read")' /\ loader'[l].file \in Files
                 /\ loader'[l].existed = Seen(l).target.there
                 /\ loader'[l].existed \/ job.create
<1>1. At(l, "next") /\ Kept /\ UNCHANGED evidence
  BY DEF Take, Kept
<1>2. OneTxnSet(l) /\ FilesTyped' /\ job' = job /\ txn'[l] = txn[l] /\ txn[l] = NoTxn
  BY <1>1, KeptSets, FilesKept DEF Base, Kept, Holds, At
<1>3. PICK f \in loader[l].pending :
          LET there == Seen(l).target.there IN
          IF there \/ job.create
          THEN loader' = [loader EXCEPT ![l] =
                  [Fresh EXCEPT !.at = "read", !.pending = loader[l].pending \ {f},
                                !.file = f, !.existed = there]]
          ELSE Ends(l)
  BY DEF Take
<1>4. CASE Seen(l).target.there \/ job.create
  <2> DEFINE h == [Fresh EXCEPT !.at = "read", !.pending = loader[l].pending \ {f},
                                !.file = f, !.existed = Seen(l).target.there]
  <2>1. loader' = [loader EXCEPT ![l] = h]
    BY <1>3, <1>4
  <2>2. loader[l].pending \in SUBSET Files /\ f \in Files
    BY <1>3 DEF Base, LoadersTyped, LoaderTypes
  <2>3. Seen(l).target.there \in BOOLEAN
    BY SeenTyped DEF Base, Database, Tables
  <2>4. /\ h \in LoaderTypes /\ h.at = "read" /\ h.file = f /\ h.batch = 1
        /\ h.existed = Seen(l).target.there
    BY <2>2, <2>3, FreshIs DEF Fresh, LoaderTypes, Resting
  <2> HIDE DEF h
  <2>5. Handed(l, h)
    BY <2>1, <2>4, HandSets DEF Base
  <2> QED
    BY <1>1, <1>2, <1>4, <2>2, <2>4, <2>5
       DEF Steps, Handed, LoadersTyped, Stands, Holds, Working, At
<1>5. CASE ~(Seen(l).target.there \/ job.create)
  <2>1. Ends(l)
    BY <1>3, <1>5
  <2>2. loader'[l] = [Fresh EXCEPT !.at = "ended"]
    BY <2>1 DEF Ends, Base, LoadersTyped
  <2> QED
    BY <1>1, <1>2, <2>1, <2>2, EndIs
<1> QED
  BY <1>4, <1>5

(* Finish and Missing *)
LEMMA StopIs ==
    ASSUME Base, NEW l \in Loaders, Finish(l) \/ Missing(l)
    PROVE  /\ Steps(l) /\ Kept /\ UNCHANGED evidence /\ Ends(l)
           /\ At(l, "next") \/ (At(l, "read") /\ ~Here(loader[l].file))
<1>1. /\ Ends(l) /\ Kept /\ UNCHANGED evidence
      /\ At(l, "next") \/ (At(l, "read") /\ ~Here(loader[l].file))
  <2>1. CASE Finish(l)
    BY <2>1 DEF Finish, Kept
  <2>2. CASE Missing(l)
    BY <2>2 DEF Missing, Kept
  <2> QED
    BY <2>1, <2>2
<1>2. OneTxnSet(l) /\ FilesTyped' /\ job' = job /\ txn'[l] = txn[l] /\ txn[l] = NoTxn
  BY <1>1, KeptSets, FilesKept DEF Base, Kept, Holds, At
<1> QED
  BY <1>1, <1>2, EndIs

(* What a file's movement sets. *)
LEMMA RoutesSets ==
    ASSUME FilesTyped, NEW l \in Loaders, NEW to \in {"archive", "rejected"}, Routes(l, to),
           UNCHANGED <<job, reported, lost>>
    PROVE  /\ FilesTyped' /\ job' = job
           /\ \A f \in Files : place'[f] = place[f] \/
                 (job.kind = "configured" /\ f = loader[l].file /\ place'[f] = to)
<1>1. CASE place' = place
  BY <1>1 DEF FilesTyped
<1>2. CASE job.kind = "configured" /\ place' = [place EXCEPT ![loader[l].file] = to]
  BY <1>2 DEF FilesTyped
<1> QED
  BY <1>1, <1>2 DEF Routes

LEMMA RejectIs ==
    ASSUME Base, NEW l \in Loaders, Reject(l)
    PROVE  /\ Steps(l) /\ Kept /\ GoesOn(l, "next") /\ At(l, "read")
           /\ Routes(l, "rejected") /\ UNCHANGED <<job, reported, lost>>
<1>1. /\ At(l, "read") /\ Kept /\ Goes(l, "next") /\ Routes(l, "rejected")
      /\ UNCHANGED <<job, reported, lost>> /\ "next" \in Resting \cup Loading
  BY DEF Reject, Kept, Resting
<1>2. GoesOn(l, "next")
  BY <1>1, GoesSets DEF Base
<1>3. OneTxnSet(l) /\ FilesTyped' /\ job' = job /\ txn'[l] = txn[l] /\ txn[l] = NoTxn
  BY <1>1, KeptSets, RoutesSets DEF Base, Kept, Holds, At
<1>4. Steps(l)
  BY <1>1, <1>2, <1>3, OnIs
<1> QED
  BY <1>1, <1>2, <1>4

(* The tables with one of them changed. *)
Other(i) == IF i = "target" THEN "stage" ELSE "target"
With(e, d, i, T) ==
    e \in Database /\ e[i] = T /\ e[Other(i)] = d[Other(i)] /\ e.old = d.old

LEMMA FieldsAre ==
    ASSUME NEW d \in Database
    PROVE  /\ d["target"] = d.target /\ d["stage"] = d.stage
           /\ d.target \in Tables /\ d.stage \in Tables /\ d.old \in Tables
           /\ \A i \in {"target", "stage"} : d[i] \in Tables
BY DEF Database

LEMMA IndexSet ==
    ASSUME NEW d \in Database, NEW T \in Tables, NEW i \in {"target", "stage"}
    PROVE  With([d EXCEPT ![i] = T], d, i, T)
<1>1. CASE i = "target"
  BY <1>1 DEF Database, With, Other
<1>2. CASE i = "stage"
  BY <1>2 DEF Database, With, Other
<1> QED
  BY <1>1, <1>2

LEMMA PieceSet ==
    ASSUME NEW d \in Database, NEW i \in {"target", "stage"}, NEW p \in Pieces
    PROVE  \E T \in Tables :
              /\ With([d EXCEPT ![i].rows[p] = @ + 1], d, i, T)
              /\ T.there = d[i].there
              /\ T.rows = [d[i].rows EXCEPT ![p] = @ + 1]
<1>1. [d EXCEPT ![i].rows[p] = @ + 1]
        = [d EXCEPT ![i] = [d[i] EXCEPT !.rows = [d[i].rows EXCEPT ![p] = @ + 1]]]
  BY DEF Database, Tables
<1>2. d[i] \in Tables
  BY FieldsAre
<1>3. [d[i].rows EXCEPT ![p] = @ + 1] \in [Pieces -> Nat]
  BY <1>2 DEF Tables
<1>4. PICK R \in [Pieces -> Nat] : R = [d[i].rows EXCEPT ![p] = @ + 1]
  BY <1>3
<1>5. /\ [d[i] EXCEPT !.rows = R] \in Tables
      /\ [d[i] EXCEPT !.rows = R].there = d[i].there
      /\ [d[i] EXCEPT !.rows = R].rows = R
  BY <1>2, <1>4 DEF Tables
<1> QED
  BY <1>1, <1>4, <1>5, IndexSet

LEMMA IntoIs == \A l : Into(l) \in {"target", "stage"} /\ (Staged(l) <=> Into(l) = "stage")
BY DEF Into

LEMMA StepsAre ==
    /\ {"next", "read", "report", "route", "clear", "create", "insert", "commit",
        "promote", "copy", "settle", "retire", "remove", "fail", "leave"}
          \subseteq Resting \cup Loading
    /\ \A l : At(l, "read") \/ At(l, "report") \/ At(l, "route") \/ At(l, "clear")
              \/ At(l, "create") \/ At(l, "insert") \/ At(l, "commit")
              \/ At(l, "promote") \/ At(l, "copy") \/ At(l, "settle") \/ At(l, "retire")
              \/ At(l, "remove") \/ At(l, "fail") \/ At(l, "leave") => Working(l)
BY DEF Resting, Loading, InStaging, At, Working

LEMMA LoadFromPathIs ==
    ASSUME Base, NEW l \in Loaders, LoadFromPath(l)
    PROVE  /\ Steps(l) /\ GoesOn(l, "report") /\ UNCHANGED evidence
           /\ At(l, "read") /\ loader[l].file \in Files /\ Native(l)
           /\ \E R \in [Pieces -> Nat] :
                 /\ R = [p \in Pieces |-> db.target.rows[p] + Contents[loader[l].file][p]]
                 /\ Stored(l, [db EXCEPT !.target.rows = R]) /\ Unlocked(l)
                 /\ [db EXCEPT !.target.rows = R] \in Database
<1>1. At(l, "read") /\ Native(l) /\ Goes(l, "report") /\ UNCHANGED evidence
  BY DEF LoadFromPath
<1>2. GoesOn(l, "report") /\ Working(l) /\ loader[l].file \in Files
  BY <1>1, GoesSets, StepsAre DEF Base, Stands
<1>3. db.target.rows \in [Pieces -> Nat] /\ db \in Database
  BY DEF Base, TablesTyped, Database, Tables
<1>4. Contents[loader[l].file] \in [Pieces -> Nat]
  BY <1>2, TablesThere
<1>5. [p \in Pieces |-> db.target.rows[p] + Contents[loader[l].file][p]] \in [Pieces -> Nat]
  BY <1>3, <1>4
<1>6. PICK R \in [Pieces -> Nat] :
         R = [p \in Pieces |-> db.target.rows[p] + Contents[loader[l].file][p]]
  BY <1>5
<1>7. Writes(l, [db EXCEPT !.target.rows = R])
  <2>1. [db EXCEPT !.target.rows =
             [p \in Pieces |-> @[p] + Contents[loader[l].file][p]]]
          = [db EXCEPT !.target.rows = R]
    BY <1>3, <1>6 DEF Database
  <2> QED
    BY <2>1 DEF LoadFromPath
<1>8. [db EXCEPT !.target.rows = R] \in Database
  BY <1>3, <1>6, RowsSet
<1>9. OneTxnSet(l) /\ Wrote(l, [db EXCEPT !.target.rows = R])
  BY <1>7, <1>8, WritesSets DEF Base
<1>10. Autocommits
  BY <1>1 DEF Native, ReadsPaths, Autocommits
<1>11. Stored(l, [db EXCEPT !.target.rows = R]) /\ Unlocked(l) /\ txn'[l] = NoTxn
  BY <1>9, <1>10 DEF Wrote, Stored
<1>12. FilesTyped' /\ job' = job
  BY <1>1, FilesKept DEF Base
<1>13. Steps(l)
  BY <1>2, <1>9, <1>11, <1>12, OnIs, StepsAre
<1> QED
  BY <1>1, <1>2, <1>6, <1>8, <1>11, <1>13

LEMMA ReadIs ==
    ASSUME Base, NEW l \in Loaders, Read(l)
    PROVE  /\ Steps(l) /\ Kept /\ UNCHANGED evidence
           /\ At(l, "read") /\ ~Native(l) /\ loader[l].batch = 1 /\ txn[l] = NoTxn
           /\ GoesOn(l, IF Staged(l) THEN "clear"
                        ELSE IF loader[l].existed THEN "insert" ELSE "create")
<1> DEFINE s == IF Staged(l) THEN "clear"
                ELSE IF loader[l].existed THEN "insert" ELSE "create"
<1>1. At(l, "read") /\ ~Native(l) /\ Kept /\ Goes(l, s) /\ UNCHANGED evidence
  BY DEF Read, Kept
<1>2. s \in {"clear", "insert", "create"} /\ (s = "clear" => Staged(l))
  OBVIOUS
<1> SUFFICES Steps(l) /\ loader[l].batch = 1 /\ txn[l] = NoTxn /\ GoesOn(l, s)
  BY <1>1
<1> HIDE DEF s
<1>3. GoesOn(l, s) /\ Working(l)
  BY <1>1, <1>2, GoesSets, StepsAre DEF Base
<1>4. loader[l].batch = 1
  BY <1>1 DEF Base, Stands, At
<1>5. txn[l] = NoTxn
  BY <1>1 DEF Base, Holds, At
<1>6. OneTxnSet(l) /\ FilesTyped' /\ job' = job /\ txn'[l] = txn[l]
  BY <1>1, KeptSets, FilesKept DEF Base, Kept
<1>7. Steps(l)
  BY <1>2, <1>3, <1>4, <1>5, <1>6, OnIs, StepsAre
<1> QED
  BY <1>3, <1>4, <1>5, <1>7

LEMMA ClearIs ==
    ASSUME Base, NEW l \in Loaders, Clear(l)
    PROVE  /\ Steps(l) /\ UNCHANGED evidence /\ GoesOn(l, "create")
           /\ At(l, "clear") /\ Staged(l) /\ txn[l] = NoTxn
           /\ IF Seen(l).stage.there THEN Defined(l, [Seen(l) EXCEPT !.stage = NoTable])
              ELSE Kept
<1>1. /\ At(l, "clear") /\ Goes(l, "create") /\ UNCHANGED evidence
      /\ IF Seen(l).stage.there THEN Defines(l, [Seen(l) EXCEPT !.stage = NoTable]) ELSE Kept
  BY DEF Clear, Kept
<1>2. /\ GoesOn(l, "create") /\ Working(l) /\ Staged(l) /\ loader[l].batch = 1
      /\ txn[l] = NoTxn
  BY <1>1, GoesSets, StepsAre DEF Base, Stands, Holds, At
<1>3. FilesTyped' /\ job' = job
  BY <1>1, FilesKept DEF Base
<1>4. [Seen(l) EXCEPT !.stage = NoTable] \in Database
  BY SeenTyped, TablesThere, TableSet DEF Base
<1>5. CASE Seen(l).stage.there
  <2>1. OneTxnSet(l) /\ Defined(l, [Seen(l) EXCEPT !.stage = NoTable])
    BY <1>1, <1>4, <1>5, DefinesSets DEF Base
  <2>2. Unlocked(l) /\ (txn'[l] = NoTxn \/ ~Autocommits)
    BY <2>1 DEF Defined, Stored
  <2>3. Steps(l)
    BY <1>2, <1>3, <2>1, <2>2, OnIs, StepsAre
  <2> QED
    BY <1>1, <1>2, <1>5, <2>1, <2>3
<1>6. CASE ~Seen(l).stage.there
  <2>1. Kept /\ OneTxnSet(l) /\ txn'[l] = NoTxn
    BY <1>1, <1>2, <1>6, KeptSets DEF Base, Kept
  <2>2. Steps(l)
    BY <1>2, <1>3, <2>1, OnIs, StepsAre
  <2> QED
    BY <1>1, <1>2, <1>6, <2>1, <2>2
<1> QED
  BY <1>5, <1>6

LEMMA CreateIs ==
    ASSUME Base, NEW l \in Loaders, Create(l)
    PROVE  /\ Steps(l) /\ UNCHANGED evidence /\ GoesOn(l, "insert")
           /\ At(l, "create") /\ loader[l].batch = 1 /\ Unlocked(l)
           /\ IF Seen(l)[Into(l)].there THEN Kept
              ELSE Stored(l, [Seen(l) EXCEPT ![Into(l)] = Table(Nothing)])
<1>1. /\ At(l, "create") /\ Unlocked(l) /\ Goes(l, "insert") /\ UNCHANGED evidence
      /\ IF Seen(l)[Into(l)].there THEN Kept
         ELSE Committed(l, [Seen(l) EXCEPT ![Into(l)] = Table(Nothing)])
  BY DEF Create, Kept
<1>2. /\ GoesOn(l, "insert") /\ Working(l) /\ loader[l].batch = 1
      /\ txn[l] # NoTxn => ~Autocommits
  BY <1>1, GoesSets, StepsAre DEF Base, Stands, Holds, At
<1>3. FilesTyped' /\ job' = job
  BY <1>1, FilesKept DEF Base
<1>4. [Seen(l) EXCEPT ![Into(l)] = Table(Nothing)] \in Database
  BY SeenTyped, TablesThere, IndexSet, IntoIs DEF Base, With
<1>5. CASE Seen(l)[Into(l)].there
  <2>1. Kept /\ OneTxnSet(l) /\ txn'[l] = txn[l]
    BY <1>1, <1>5, KeptSets DEF Base, Kept
  <2>2. Steps(l)
    BY <1>2, <1>3, <2>1, OnIs, StepsAre
  <2> QED
    BY <1>1, <1>2, <1>5, <2>1, <2>2
<1>6. CASE ~Seen(l)[Into(l)].there
  <2>1. OneTxnSet(l) /\ Stored(l, [Seen(l) EXCEPT ![Into(l)] = Table(Nothing)])
    BY <1>1, <1>4, <1>6, CommittedSets DEF Base
  <2>2. txn'[l] = NoTxn
    BY <2>1 DEF Stored
  <2>3. Steps(l)
    BY <1>2, <1>3, <2>1, <2>2, OnIs, StepsAre
  <2> QED
    BY <1>1, <1>2, <1>6, <2>1, <2>3
<1> QED
  BY <1>5, <1>6

(* The last batch, or one more. *)
InsertsOn(l) ==
    IF loader[l].batch = Batches THEN GoesOn(l, "commit")
    ELSE /\ loader'[l].at = "insert" /\ loader'[l].file = loader[l].file
         /\ loader'[l].existed = loader[l].existed /\ loader'[l].batch = loader[l].batch + 1

LEMMA InsertIs ==
    ASSUME Base, NEW l \in Loaders, Insert(l)
    PROVE  /\ Steps(l) /\ UNCHANGED evidence /\ InsertsOn(l)
           /\ At(l, "insert") /\ Seen(l)[Into(l)].there
           /\ loader[l].batch \in 1 .. Batches /\ loader[l].file \in Files
           /\ \E e \in Database, T \in Tables :
                 /\ Wrote(l, e) /\ With(e, Seen(l), Into(l), T) /\ T.there
                 /\ T.rows = [Seen(l)[Into(l)].rows EXCEPT
                                 ![<<loader[l].file, loader[l].batch>>] = @ + 1]
<1> DEFINE p == <<loader[l].file, loader[l].batch>>
           e == [Seen(l) EXCEPT ![Into(l)].rows[p] = @ + 1]
<1>1. /\ At(l, "insert") /\ Seen(l)[Into(l)].there /\ UNCHANGED evidence /\ Writes(l, e)
      /\ IF loader[l].batch = Batches THEN Goes(l, "commit")
         ELSE loader' = [loader EXCEPT ![l].batch = @ + 1]
  BY DEF Insert
<1>2. /\ loader[l] \in LoaderTypes /\ loader[l].at = "insert"
      /\ loader[l].batch \in 1 .. Batches /\ loader[l].file \in Files
  BY <1>1, StepsAre DEF Base, Stands, LoadersTyped, LoaderTypes, At
<1>3. p \in Pieces /\ Seen(l) \in Database
  BY <1>2, SeenTyped DEF Base, Pieces
<1>4. PICK T \in Tables : /\ With(e, Seen(l), Into(l), T)
                          /\ T.there = Seen(l)[Into(l)].there
                          /\ T.rows = [Seen(l)[Into(l)].rows EXCEPT ![p] = @ + 1]
  BY <1>3, PieceSet, IntoIs
<1>5. e \in Database
  BY <1>4 DEF With
<1>6. OneTxnSet(l) /\ Wrote(l, e)
  BY <1>1, <1>5, WritesSets DEF Base
<1>7. Unlocked(l) /\ (txn'[l] = NoTxn \/ ~Autocommits)
  BY <1>6 DEF Wrote, Stored
<1>8. FilesTyped' /\ job' = job
  BY <1>1, FilesKept DEF Base
<1>9. CASE loader[l].batch = Batches
  <2>1. GoesOn(l, "commit") /\ Working(l)
    BY <1>1, <1>9, GoesSets, StepsAre DEF Base
  <2>2. Steps(l)
    BY <1>6, <1>7, <1>8, <2>1, OnIs, StepsAre
  <2> QED
    BY <1>1, <1>2, <1>4, <1>5, <1>6, <1>9, <2>1, <2>2 DEF InsertsOn
<1>10. CASE loader[l].batch # Batches
  <2> DEFINE h == [loader[l] EXCEPT !.batch = loader[l].batch + 1]
  <2>1. loader' = [loader EXCEPT ![l] = h]
    BY <1>1, <1>10 DEF Base, LoadersTyped
  <2>2. loader[l].batch + 1 \in 1 .. Batches
    BY <1>2, <1>10, LoadingAssumption
  <2>3. /\ h \in LoaderTypes /\ h.at = "insert" /\ h.file = loader[l].file
        /\ h.existed = loader[l].existed /\ h.batch = loader[l].batch + 1
    BY <1>2, <2>2 DEF LoaderTypes
  <2> HIDE DEF h
  <2>4. Handed(l, h)
    BY <2>1, <2>3, HandSets DEF Base
  <2>5. Steps(l)
    BY <1>2, <1>6, <1>7, <1>8, <2>3, <2>4
       DEF Steps, Handed, LoadersTyped, Stands, Holds, Working, At, Autocommits
  <2>6. InsertsOn(l)
    BY <1>10, <2>3, <2>4 DEF InsertsOn, Handed
  <2> QED
    BY <1>1, <1>2, <1>4, <1>5, <1>6, <2>5, <2>6
<1> QED
  BY <1>9, <1>10

LEMMA CommitIs ==
    ASSUME Base, NEW l \in Loaders, Commit(l)
    PROVE  /\ Steps(l) /\ UNCHANGED evidence /\ At(l, "commit") /\ Stored(l, Seen(l))
           /\ GoesOn(l, IF Staged(l) THEN "promote" ELSE "report")
<1> DEFINE s == IF Staged(l) THEN "promote" ELSE "report"
<1>1. At(l, "commit") /\ Committed(l, Seen(l)) /\ Goes(l, s) /\ UNCHANGED evidence
  BY DEF Commit
<1>2. s \in {"promote", "report"} /\ (s = "promote" => Staged(l))
  OBVIOUS
<1> SUFFICES Steps(l) /\ GoesOn(l, s) /\ Stored(l, Seen(l))
  BY <1>1
<1> HIDE DEF s
<1>3. GoesOn(l, s) /\ Working(l)
  BY <1>1, <1>2, GoesSets, StepsAre DEF Base
<1>4. OneTxnSet(l) /\ Stored(l, Seen(l)) /\ txn'[l] = NoTxn
  BY <1>1, SeenTyped, CommittedSets DEF Base, Stored
<1>5. FilesTyped' /\ job' = job
  BY <1>1, FilesKept DEF Base
<1>6. Steps(l)
  BY <1>2, <1>3, <1>4, <1>5, OnIs, StepsAre
<1> QED
  BY <1>3, <1>4, <1>6

(* The promotion by one statement. *)
LEMMA PromoteAtOnceIs ==
    ASSUME Base, NEW l \in Loaders, PromoteAtOnce(l)
    PROVE  /\ Steps(l) /\ UNCHANGED evidence /\ At(l, "promote") /\ Autocommits
           /\ Staged(l) /\ txn[l] = NoTxn /\ Unlocked(l)
           /\ GoesOn(l, "remove") /\ loader'[l].end = "loaded"
           /\ \E e \in Database :
                 /\ Stored(l, e) /\ e.old = Seen(l).old
                 /\ e.target.rows = Seen(l).stage.rows
                 /\ e.stage \in {NoTable, Seen(l).stage}
                 /\ e.target.there = IF job.policy = "replace" THEN Seen(l).target.there
                                     ELSE Seen(l).stage.there
<1>1. /\ At(l, "promote") /\ Autocommits /\ Loads(l, "remove") /\ UNCHANGED evidence
  BY DEF PromoteAtOnce
<1>2. /\ GoesOn(l, "remove") /\ loader'[l].end = "loaded" /\ Working(l) /\ Staged(l)
      /\ txn[l] = NoTxn
  BY <1>1, LoadsSets, StepsAre DEF Base, Loads, Stands, Holds, At
<1>3. Seen(l) \in Database /\ FilesTyped' /\ job' = job
  BY <1>1, SeenTyped, FilesKept DEF Base
<1>4. Seen(l).stage \in Tables /\ Seen(l).stage.rows \in [Pieces -> Nat]
  BY <1>3, FieldsAre DEF Tables
<1>5. \E e \in Database :
         /\ Writes(l, e) /\ e.old = Seen(l).old
         /\ e.target.rows = Seen(l).stage.rows
         /\ e.stage \in {NoTable, Seen(l).stage}
         /\ e.target.there = IF job.policy = "replace" THEN Seen(l).target.there
                             ELSE Seen(l).stage.there
  <2>1. CASE job.policy = "replace"
                /\ Writes(l, [Seen(l) EXCEPT !.target.rows = Seen(l).stage.rows])
    <3> DEFINE e == [Seen(l) EXCEPT !.target.rows = Seen(l).stage.rows]
    <3>1. /\ e \in Database /\ e.target.rows = Seen(l).stage.rows
          /\ e.target.there = Seen(l).target.there /\ e.stage = Seen(l).stage
          /\ e.old = Seen(l).old
      BY <1>3, <1>4, RowsSet
    <3>2. Writes(l, e)
      BY <2>1
    <3> HIDE DEF e
    <3> QED
      BY <2>1, <3>1, <3>2
  <2>2. CASE job.policy = "recreate"
                /\ Writes(l, [Seen(l) EXCEPT !.target = Seen(l).stage,
                                             !.stage = IF job.provider = "postgres"
                                                       THEN NoTable ELSE Seen(l).stage])
    <3>1. PICK S \in Tables : S = IF job.provider = "postgres" THEN NoTable
                                  ELSE Seen(l).stage
      BY <1>4, TablesThere
    <3> DEFINE e == [Seen(l) EXCEPT !.target = Seen(l).stage, !.stage = S]
    <3>2. /\ e \in Database /\ e.old = Seen(l).old /\ e.target = Seen(l).stage
          /\ e.stage = S
      BY <1>3, <1>4 DEF Database
    <3>3. Writes(l, e)
      BY <2>2, <3>1
    <3> HIDE DEF e
    <3> QED
      BY <2>2, <3>1, <3>2, <3>3
  <2> QED
    BY <2>1, <2>2 DEF PromoteAtOnce
<1>6. PICK e \in Database :
         /\ Writes(l, e) /\ e.old = Seen(l).old
         /\ e.target.rows = Seen(l).stage.rows
         /\ e.stage \in {NoTable, Seen(l).stage}
         /\ e.target.there = IF job.policy = "replace" THEN Seen(l).target.there
                             ELSE Seen(l).stage.there
  BY <1>5
<1>7. OneTxnSet(l) /\ Wrote(l, e)
  BY <1>6, WritesSets DEF Base
<1>8. Stored(l, e) /\ Unlocked(l) /\ txn'[l] = NoTxn
  BY <1>1, <1>7 DEF Wrote, Stored
<1>9. Steps(l)
  BY <1>2, <1>3, <1>7, <1>8, OnIs, StepsAre
<1> QED
  BY <1>1, <1>2, <1>6, <1>8, <1>9

(* MySQL's swap, and what it leaves to drop. *)
LEMMA PromoteBySwapIs ==
    ASSUME Base, NEW l \in Loaders, PromoteBySwap(l)
    PROVE  /\ Steps(l) /\ UNCHANGED evidence /\ At(l, "promote") /\ txn[l] = NoTxn
           /\ Staged(l) /\ Unlocked(l) /\ job.provider = "mysql" /\ job.policy = "recreate"
           /\ GoesOn(l, "retire") /\ loader'[l].end = "loaded"
           /\ Stored(l, [target |-> Seen(l).stage, stage |-> NoTable, old |-> Seen(l).target])
<1> DEFINE e == [target |-> Seen(l).stage, stage |-> NoTable, old |-> Seen(l).target]
<1>1. /\ At(l, "promote") /\ job.provider = "mysql" /\ job.policy = "recreate"
      /\ Defines(l, e) /\ Loads(l, "retire") /\ UNCHANGED evidence
  BY DEF PromoteBySwap
<1>2. /\ GoesOn(l, "retire") /\ loader'[l].end = "loaded" /\ Working(l) /\ Staged(l)
      /\ txn[l] = NoTxn
  BY <1>1, LoadsSets, StepsAre DEF Base, Loads, Stands, Holds, At
<1>3. FilesTyped' /\ job' = job
  BY <1>1, FilesKept DEF Base
<1>4. e \in Database
  BY SeenTyped, FieldsAre, TablesThere DEF Base, Database
<1>5. OneTxnSet(l) /\ Defined(l, e)
  BY <1>1, <1>4, DefinesSets DEF Base
<1>6. Stored(l, e) /\ Unlocked(l) /\ txn'[l] = NoTxn
  BY <1>1, <1>5 DEF Defined, Stored, DDLCommits
<1>7. Steps(l)
  BY <1>1, <1>2, <1>3, <1>5, <1>6, OnIs, StepsAre
<1> QED
  BY <1>1, <1>2, <1>6, <1>7

LEMMA RetireIs ==
    ASSUME Base, NEW l \in Loaders, Retire(l)
    PROVE  /\ Steps(l) /\ UNCHANGED evidence /\ At(l, "retire") /\ txn[l] = NoTxn
           /\ Staged(l) /\ GoesOn(l, "remove") /\ loader'[l].end = loader[l].end
           /\ Unlocked(l) /\ Stored(l, [Seen(l) EXCEPT !.old = NoTable])
<1>1. /\ At(l, "retire") /\ Defines(l, [Seen(l) EXCEPT !.old = NoTable])
      /\ Goes(l, "remove") /\ UNCHANGED evidence
  BY DEF Retire
<1>2. /\ GoesOn(l, "remove") /\ loader'[l].end = loader[l].end /\ Working(l) /\ Staged(l)
      /\ txn[l] = NoTxn /\ DDLCommits
  BY <1>1, GoesSets, StepsAre DEF Base, Stands, Holds, At, DDLCommits
<1>3. FilesTyped' /\ job' = job
  BY <1>1, FilesKept DEF Base
<1>4. [Seen(l) EXCEPT !.old = NoTable] \in Database
  BY SeenTyped, TableSet, TablesThere DEF Base
<1>5. OneTxnSet(l) /\ Defined(l, [Seen(l) EXCEPT !.old = NoTable])
  BY <1>1, <1>4, DefinesSets DEF Base
<1>6. Stored(l, [Seen(l) EXCEPT !.old = NoTable]) /\ Unlocked(l) /\ txn'[l] = NoTxn
  BY <1>2, <1>5 DEF Defined, Stored
<1>7. Steps(l)
  BY <1>2, <1>3, <1>5, <1>6, OnIs, StepsAre
<1> QED
  BY <1>1, <1>2, <1>6, <1>7

(* The replacement in a transaction of its own. *)
LEMMA PromoteTogetherIs ==
    ASSUME Base, NEW l \in Loaders, PromoteTogether(l)
    PROVE  /\ Steps(l) /\ UNCHANGED evidence /\ ~Autocommits /\ Staged(l)
           /\ \/ /\ At(l, "promote") /\ GoesOn(l, "copy")
                 /\ Unlocked(l) /\ \E e \in Database :
                       /\ Opened(l, e) /\ e.stage = Seen(l).stage /\ e.old = Seen(l).old
                       /\ job.policy = "replace" => e.target.there
              \/ /\ At(l, "copy") /\ GoesOn(l, "settle")
                 /\ Unlocked(l) /\ \E e \in Database :
                       /\ Opened(l, e) /\ e.target.rows = Seen(l).stage.rows
                       /\ e.old = Seen(l).old
                       /\ e.stage \in {NoTable, Seen(l).stage}
                       /\ e.target.there = IF job.policy = "replace" THEN Seen(l).target.there
                                           ELSE Seen(l).stage.there
              \/ /\ At(l, "settle") /\ GoesOn(l, "remove") /\ Stored(l, Seen(l))
                 /\ loader'[l].end = "loaded"
<1>1. ~Autocommits /\ UNCHANGED evidence /\ Seen(l) \in Database
  BY SeenTyped DEF PromoteTogether, Base
<1>2. FilesTyped' /\ job' = job
  BY <1>1, FilesKept DEF Base
<1>3. /\ Seen(l).stage \in Tables /\ Seen(l).stage.rows \in [Pieces -> Nat]
      /\ Seen(l).target \in Tables
  BY <1>1, FieldsAre DEF Tables
<1>4. CASE At(l, "promote")
             /\ Writes(l, [Seen(l) EXCEPT !.target = IF job.policy = "replace"
                                            THEN Table(Nothing) ELSE NoTable])
             /\ Goes(l, "copy")
  <2>1. PICK T \in Tables : T = IF job.policy = "replace"
                                THEN Table(Nothing) ELSE NoTable
    BY <1>3, TablesThere
  <2> DEFINE e == [Seen(l) EXCEPT !.target = T]
  <2>2. /\ e \in Database /\ e.stage = Seen(l).stage /\ e.old = Seen(l).old
        /\ job.policy = "replace" => e.target.there
    <3>1. e \in Database /\ e.stage = Seen(l).stage /\ e.old = Seen(l).old /\ e.target = T
      BY <1>1, <2>1, TableSet
    <3>2. job.policy = "replace" => T.there
      BY <1>3, <2>1 DEF Table
    <3> QED
      BY <3>1, <3>2
  <2>3. Writes(l, e)
    BY <1>4, <2>1
  <2> HIDE DEF e
  <2>4. OneTxnSet(l) /\ Opened(l, e) /\ Unlocked(l)
    BY <1>1, <2>2, <2>3, WritesSets DEF Base, Wrote
  <2>5. GoesOn(l, "copy") /\ Working(l) /\ Staged(l)
    BY <1>4, GoesSets, StepsAre DEF Base, Stands, At
  <2>6. Steps(l)
    BY <1>1, <1>2, <2>4, <2>5, OnIs, StepsAre
  <2> QED
    BY <1>1, <1>4, <2>2, <2>4, <2>5, <2>6
<1>5. CASE At(l, "copy") /\ Goes(l, "settle")
             /\ \/ /\ job.policy = "replace"
                   /\ Writes(l, [Seen(l) EXCEPT !.target.rows = Seen(l).stage.rows])
                \/ /\ job.policy = "recreate"
                   /\ Writes(l, [Seen(l) EXCEPT !.target = Seen(l).stage, !.stage = NoTable])
  <2>1. PICK e \in Database : /\ Writes(l, e) /\ e.target.rows = Seen(l).stage.rows
                              /\ e.old = Seen(l).old
                              /\ e.stage \in {NoTable, Seen(l).stage}
                              /\ e.target.there = IF job.policy = "replace" THEN Seen(l).target.there
                                                  ELSE Seen(l).stage.there
    <3>1. CASE job.policy = "replace"
                  /\ Writes(l, [Seen(l) EXCEPT !.target.rows = Seen(l).stage.rows])
      <4> DEFINE e == [Seen(l) EXCEPT !.target.rows = Seen(l).stage.rows]
      <4>1. /\ e \in Database /\ e.target.rows = Seen(l).stage.rows /\ e.old = Seen(l).old
            /\ e.stage = Seen(l).stage /\ e.target.there = Seen(l).target.there
        BY <1>1, <1>3, RowsSet
      <4>2. Writes(l, e)
        BY <3>1
      <4> HIDE DEF e
      <4> QED
        BY <3>1, <4>1, <4>2
    <3>2. CASE job.policy = "recreate"
                  /\ Writes(l, [Seen(l) EXCEPT !.target = Seen(l).stage, !.stage = NoTable])
      <4> DEFINE e == [Seen(l) EXCEPT !.target = Seen(l).stage, !.stage = NoTable]
      <4>1. /\ e \in Database /\ e.target = Seen(l).stage /\ e.old = Seen(l).old
            /\ e.stage = NoTable
        BY <1>1, <1>3, TablesThere DEF Database
      <4>2. Writes(l, e)
        BY <3>2
      <4> HIDE DEF e
      <4> QED
        BY <3>2, <4>1, <4>2
    <3> QED
      BY <1>5, <3>1, <3>2
  <2>2. OneTxnSet(l) /\ Opened(l, e) /\ Unlocked(l)
    BY <1>1, <2>1, WritesSets DEF Base, Wrote
  <2>3. GoesOn(l, "settle") /\ Working(l) /\ Staged(l)
    BY <1>5, GoesSets, StepsAre DEF Base, Stands, At
  <2>4. Steps(l)
    BY <1>1, <1>2, <2>2, <2>3, OnIs, StepsAre
  <2> QED
    BY <1>1, <1>5, <2>1, <2>2, <2>3, <2>4
<1>6. CASE At(l, "settle") /\ Committed(l, Seen(l)) /\ Loads(l, "remove")
  <2>1. OneTxnSet(l) /\ Stored(l, Seen(l)) /\ txn'[l] = NoTxn
    BY <1>1, <1>6, CommittedSets DEF Base, Stored
  <2>2. GoesOn(l, "remove") /\ loader'[l].end = "loaded" /\ Working(l) /\ Staged(l)
    BY <1>6, LoadsSets, StepsAre DEF Base, Loads, Stands, At
  <2>3. Steps(l)
    BY <1>1, <1>2, <2>1, <2>2, OnIs, StepsAre
  <2> QED
    BY <1>1, <1>6, <2>1, <2>2, <2>3
<1> QED
  BY <1>4, <1>5, <1>6 DEF PromoteTogether

(* The staging table goes, or stays behind. *)
LEMMA RemoveIs ==
    ASSUME Base, NEW l \in Loaders, Remove(l)
    PROVE  /\ Steps(l) /\ UNCHANGED evidence /\ At(l, "remove") /\ Staged(l)
           /\ \E s \in {"report", "fail", "leave"} :
                 /\ GoesOn(l, s)
                 /\ s = "report" => loader[l].end = "loaded"
                 /\ IF Seen(l).stage.there /\ s # "fail" /\ s # "leave"
                    THEN Stored(l, [Seen(l) EXCEPT !.stage = NoTable])
                    ELSE Kept \/ Stored(l, [Seen(l) EXCEPT !.stage = NoTable])
                 /\ Unlocked(l) \/ Kept
<1>1. /\ At(l, "remove") /\ UNCHANGED evidence
      /\ \/ /\ IF Seen(l).stage.there
               THEN Unlocked(l) /\ Committed(l, [Seen(l) EXCEPT !.stage = NoTable])
               ELSE Kept
            /\ Goes(l, After(l, loader[l].end))
         \/ /\ Goes(l, IF loader[l].end = "loaded" THEN "fail" ELSE After(l, loader[l].end))
            /\ Kept
  BY DEF Remove, Kept
<1>2. PICK s \in {"report", "fail", "leave"} :
         /\ Goes(l, s)
         /\ s = "report" => loader[l].end = "loaded"
         /\ \/ IF Seen(l).stage.there
               THEN Unlocked(l) /\ Committed(l, [Seen(l) EXCEPT !.stage = NoTable])
               ELSE Kept
            \/ Kept /\ s # "report"
  BY <1>1 DEF After
<1>3. GoesOn(l, s) /\ Working(l) /\ Staged(l)
  BY <1>1, <1>2, GoesSets, StepsAre DEF Base, Stands, At
<1>4. txn[l] # NoTxn => ~Autocommits /\ loader[l].end # "loaded"
  BY <1>1 DEF Base, Holds, At
<1>5. FilesTyped' /\ job' = job
  BY <1>1, FilesKept DEF Base
<1>6. [Seen(l) EXCEPT !.stage = NoTable] \in Database
  BY SeenTyped, TableSet, TablesThere DEF Base
<1>7. CASE Kept
  <2>1. OneTxnSet(l) /\ txn'[l] = txn[l]
    BY <1>7, KeptSets DEF Base, Kept
  <2>2. Steps(l)
    BY <1>2, <1>3, <1>4, <1>5, <2>1, OnIs, StepsAre
  <2>3. Seen(l).stage.there /\ s = "report" => Stored(l, [Seen(l) EXCEPT !.stage = NoTable])
    BY <1>2, <1>6, CommittedSets DEF Base
  <2> QED
    BY <1>1, <1>2, <1>3, <1>7, <2>2, <2>3
<1>8. CASE Unlocked(l) /\ Committed(l, [Seen(l) EXCEPT !.stage = NoTable])
  <2>1. OneTxnSet(l) /\ Stored(l, [Seen(l) EXCEPT !.stage = NoTable]) /\ txn'[l] = NoTxn
    BY <1>6, <1>8, CommittedSets DEF Base, Stored
  <2>2. Steps(l)
    BY <1>2, <1>3, <1>5, <2>1, OnIs, StepsAre
  <2>3. Seen(l).stage.there /\ s # "fail" /\ s # "leave"
           => Stored(l, [Seen(l) EXCEPT !.stage = NoTable])
    BY <2>1
  <2> QED
    BY <1>1, <1>2, <1>3, <1>8, <2>1, <2>2
<1> QED
  BY <1>2, <1>7, <1>8

LEMMA StatementFailsIs ==
    ASSUME Base, NEW l \in Loaders, StatementFails(l)
    PROVE  /\ Steps(l) /\ UNCHANGED evidence /\ (Undone(l) \/ Kept)
           /\ loader[l].at \in {"insert", "promote", "copy"} => Undone(l)
           /\ loader[l].at \in {"clear", "create", "insert", "promote", "copy",
                                "retire"} \/ (At(l, "read") /\ Native(l))
           /\ \E s \in {"remove", "fail", "leave"} :
                 /\ GoesOn(l, s)
                 /\ s = "remove" <=> Staged(l) /\ loader[l].at \in InStaging
                 /\ s = "remove" => loader'[l].end \in {"failed", "raised"}
<1>1. PICK e \in {"failed", "raised"} : Raises(l, e)
  BY DEF StatementFails
<1>2. /\ loader[l].at \in {"clear", "create", "insert", "promote", "copy", "retire"}
         \/ (At(l, "read") /\ Native(l))
      /\ IF loader[l].at \in {"insert", "promote", "copy"} THEN RollsBack(l) ELSE Kept
      /\ UNCHANGED evidence
  BY DEF StatementFails, Kept
<1>3. PICK s \in {"remove", "fail", "leave"} :
         /\ GoesOn(l, s)
         /\ s = "remove" <=> Staged(l) /\ loader[l].at \in InStaging
         /\ s = "remove" => loader'[l].end = e
  BY <1>1, RaiseSets DEF Base
<1>4. FilesTyped' /\ job' = job
  BY <1>2, FilesKept DEF Base
<1>5. OneTxnSet(l) /\ (Undone(l) \/ Kept)
      /\ (loader[l].at \in {"insert", "promote", "copy"} => Undone(l))
  BY <1>2, RollsBackSets, KeptSets DEF Base
<1>6. txn'[l] \in {NoTxn, txn[l]}
  BY <1>5 DEF Undone, Kept
<1>7. txn[l] # NoTxn => ~Autocommits
  BY DEF Base, Holds
<1>8. Working(l)
  BY <1>2 DEF Working, At
<1>9. Steps(l)
  BY <1>1, <1>3, <1>4, <1>5, <1>6, <1>7, <1>8, OnIs, StepsAre
<1> QED
  BY <1>1, <1>2, <1>3, <1>5, <1>9

LEMMA ReportIs ==
    ASSUME Base, NEW l \in Loaders, Report(l)
    PROVE  /\ Steps(l) /\ Kept /\ UNCHANGED <<job, place, lost>>
           /\ At(l, "report") /\ GoesOn(l, "route") /\ loader[l].file \in Files
           /\ reported' = [reported EXCEPT ![loader[l].file] = @ + 1]
<1>1. /\ At(l, "report") /\ Goes(l, "route") /\ Kept /\ UNCHANGED <<job, place, lost>>
      /\ reported' = [reported EXCEPT ![loader[l].file] = @ + 1]
  BY DEF Report, Kept
<1>2. GoesOn(l, "route") /\ Working(l) /\ loader[l].file \in Files /\ txn[l] = NoTxn
  BY <1>1, GoesSets, StepsAre DEF Base, Stands, Holds, At
<1>3. FilesTyped' /\ job' = job
  BY <1>1, <1>2 DEF Base, FilesTyped
<1>4. OneTxnSet(l) /\ txn'[l] = txn[l]
  BY <1>1, KeptSets DEF Base, Kept
<1>5. Steps(l)
  BY <1>2, <1>3, <1>4, OnIs, StepsAre
<1> QED
  BY <1>1, <1>2, <1>5

LEMMA RouteLoadedIs ==
    ASSUME Base, NEW l \in Loaders, RouteLoaded(l)
    PROVE  /\ Steps(l) /\ Kept /\ UNCHANGED <<job, reported, lost>>
           /\ At(l, "route") /\ GoesOn(l, "next") /\ Routes(l, "archive")
<1>1. /\ At(l, "route") /\ Goes(l, "next") /\ Kept /\ UNCHANGED <<job, reported, lost>>
      /\ Routes(l, "archive")
  BY DEF RouteLoaded, Kept
<1>2. GoesOn(l, "next") /\ txn[l] = NoTxn
  BY <1>1, GoesSets, StepsAre DEF Base, Holds, At
<1>3. FilesTyped' /\ job' = job
  BY <1>1, RoutesSets DEF Base
<1>4. OneTxnSet(l) /\ txn'[l] = txn[l]
  BY <1>1, KeptSets DEF Base, Kept
<1>5. Steps(l)
  BY <1>2, <1>3, <1>4, OnIs, StepsAre
<1> QED
  BY <1>1, <1>2, <1>5

LEMMA FailIs ==
    ASSUME Base, NEW l \in Loaders, Fail(l)
    PROVE  /\ Steps(l) /\ Undone(l) /\ UNCHANGED <<job, reported, lost>>
           /\ At(l, "fail") /\ Routes(l, "rejected")
           /\ GoesOn(l, "next") \/ Ends(l)
<1>1. /\ At(l, "fail") /\ RollsBack(l) /\ Routes(l, "rejected")
      /\ UNCHANGED <<job, reported, lost>> /\ (Goes(l, "next") \/ Ends(l))
  BY DEF Fail
<1>2. OneTxnSet(l) /\ Undone(l) /\ txn'[l] = NoTxn
  BY <1>1, RollsBackSets DEF Base, Undone
<1>3. FilesTyped' /\ job' = job
  BY <1>1, RoutesSets DEF Base
<1>4. CASE Goes(l, "next")
  <2>1. GoesOn(l, "next")
    BY <1>4, GoesSets, StepsAre DEF Base
  <2>2. Steps(l)
    BY <1>2, <1>3, <2>1, OnIs, StepsAre
  <2> QED
    BY <1>1, <1>2, <2>1, <2>2
<1>5. CASE Ends(l)
  BY <1>1, <1>2, <1>3, <1>5, EndIs
<1> QED
  BY <1>1, <1>4, <1>5

LEMMA LeaveIs ==
    ASSUME Base, NEW l \in Loaders, Leave(l)
    PROVE  /\ Steps(l) /\ Undone(l) /\ UNCHANGED evidence /\ At(l, "leave") /\ Ends(l)
<1>1. At(l, "leave") /\ RollsBack(l) /\ Ends(l) /\ UNCHANGED evidence
  BY DEF Leave
<1>2. OneTxnSet(l) /\ Undone(l) /\ txn'[l] = NoTxn
  BY <1>1, RollsBackSets DEF Base, Undone
<1> QED
  BY <1>1, <1>2, FilesKept, EndIs DEF Base

LEMMA TerminateIs ==
    ASSUME Base, NEW l \in Loaders, Terminate(l)
    PROVE  /\ Steps(l) /\ Kept /\ UNCHANGED <<job, place, reported>>
           /\ Working(l) /\ loader[l].at \in TerminatedAt
           /\ lost' = lost \cup {loader[l].file}
           /\ \E s \in {"remove", "fail", "leave"} :
                 /\ GoesOn(l, s)
                 /\ s = "remove" <=> Staged(l) /\ loader[l].at \in InStaging
                 /\ s = "remove" => loader'[l].end = "terminated"
<1>1. /\ Working(l) /\ loader[l].at \in TerminatedAt /\ Raises(l, "terminated") /\ Kept
      /\ lost' = lost \cup {loader[l].file} /\ UNCHANGED <<job, place, reported>>
  BY DEF Terminate, Kept
<1>2. PICK s \in {"remove", "fail", "leave"} :
         /\ GoesOn(l, s)
         /\ s = "remove" <=> Staged(l) /\ loader[l].at \in InStaging
         /\ s = "remove" => loader'[l].end = "terminated"
  BY <1>1, RaiseSets DEF Base
<1>3. FilesTyped' /\ job' = job
  BY <1>1 DEF Base, Stands, FilesTyped
<1>4. OneTxnSet(l) /\ txn'[l] = txn[l]
  BY <1>1, KeptSets DEF Base, Kept
<1>5. txn[l] # NoTxn => ~Autocommits
  BY DEF Base, Holds
<1>6. Steps(l)
  BY <1>1, <1>2, <1>3, <1>4, <1>5, OnIs, StepsAre
<1> QED
  BY <1>1, <1>2, <1>6

LEMMA DieIs ==
    ASSUME Base, NEW l \in Loaders, Die(l)
    PROVE  /\ Steps(l) /\ Undone(l) /\ UNCHANGED <<job, place, reported>>
           /\ Working(l) /\ Ends(l) /\ lost' = lost \cup {loader[l].file}
<1>1. /\ Working(l) /\ RollsBack(l) /\ Ends(l) /\ UNCHANGED <<job, place, reported>>
      /\ lost' = lost \cup {loader[l].file}
  BY DEF Die
<1>2. OneTxnSet(l) /\ Undone(l) /\ txn'[l] = NoTxn
  BY <1>1, RollsBackSets DEF Base, Undone
<1>3. FilesTyped' /\ job' = job
  BY <1>1 DEF Base, Stands, FilesTyped
<1> QED
  BY <1>1, <1>2, <1>3, EndIs

LEMMA StepIs ==
    ASSUME Base, NEW l \in Loaders, Step(l)
    PROVE  Steps(l)
<1>1. CASE Start(l)
  BY <1>1, StartIs
<1>2. CASE Take(l)
  BY <1>2, TakeIs
<1>3. CASE Finish(l)
  BY <1>3, StopIs
<1>4. CASE Missing(l)
  BY <1>4, StopIs
<1>5. CASE Reject(l)
  BY <1>5, RejectIs
<1>6. CASE LoadFromPath(l)
  BY <1>6, LoadFromPathIs
<1>7. CASE Read(l)
  BY <1>7, ReadIs
<1>8. CASE Clear(l)
  BY <1>8, ClearIs
<1>9. CASE Create(l)
  BY <1>9, CreateIs
<1>10. CASE Insert(l)
  BY <1>10, InsertIs
<1>11. CASE Commit(l)
  BY <1>11, CommitIs
<1>14. CASE PromoteAtOnce(l)
  BY <1>14, PromoteAtOnceIs
<1>15. CASE PromoteBySwap(l)
  BY <1>15, PromoteBySwapIs
<1>16. CASE Retire(l)
  BY <1>16, RetireIs
<1>17. CASE PromoteTogether(l)
  BY <1>17, PromoteTogetherIs
<1>18. CASE Remove(l)
  BY <1>18, RemoveIs
<1>19. CASE StatementFails(l)
  BY <1>19, StatementFailsIs
<1>20. CASE Report(l)
  BY <1>20, ReportIs
<1>21. CASE RouteLoaded(l)
  BY <1>21, RouteLoadedIs
<1>22. CASE Fail(l)
  BY <1>22, FailIs
<1>23. CASE Leave(l)
  BY <1>23, LeaveIs
<1>24. CASE Terminate(l)
  BY <1>24, TerminateIs
<1>25. CASE Die(l)
  BY <1>25, DieIs
<1> QED
  BY <1>1, <1>2, <1>3, <1>4, <1>5, <1>6, <1>7, <1>8, <1>9, <1>10, <1>11,
     <1>14, <1>15, <1>16, <1>17, <1>18, <1>19, <1>20, <1>21, <1>22, <1>23, <1>24, <1>25
     DEF Step

LEMMA BaseStutters == ASSUME Base, UNCHANGED vars PROVE Base'
BY DEF vars, Base, LoadersTyped, TablesTyped, FilesTyped, Single, Stands, Holds, Working,
       Staged, At, Autocommits

LEMMA BaseAlways == Spec => []Base
<1>1. Base /\ [Next]_vars => Base'
  BY StepIs, BaseKept, BaseStutters DEF Next
<1> QED
  BY <1>1, BaseFirst, PTL DEF Spec

(* A loader's file, batch and step stay what they can be, its transaction  *)
(* and the database hold tables, whatever fails or ends (data_loader.py,   *)
(* load_operation.py).                                                     *)
THEOREM TypeCorrect == Spec => []TypeOK
<1>1. Base => TypeOK
  BY TypesAre DEF Base
<1> QED
  BY <1>1, BaseAlways, PTL

-----------------------------------------------------------------------------
(* What a load that adds has inserted, committed and reported.             *)

Adding == job.policy = "append"

(* Rows are only in a table that is there, and it stays. *)
Grounded(l) ==
    /\ ~db.target.there => db.target.rows = Nothing
    /\ txn[l] # NoTxn => db.target.there /\ txn[l].target.there
    /\ loader[l].existed => db.target.there

(* The records of a file's first n batches, and those of two tables. *)
Upto(f, n) == [p \in Pieces |-> IF p[1] = f /\ p[2] <= n THEN 1 ELSE 0]
Plus(held, new) == [p \in Pieces |-> held[p] + new[p]]

(* What a loader has inserted of its file. *)
Inserted(l) == IF At(l, "commit") THEN Contents[loader[l].file]
               ELSE Upto(loader[l].file, loader[l].batch - 1)

(* A transaction holds what is committed and what was inserted. *)
Collects(l) ==
    ~Autocommits /\ loader[l].at \in {"insert", "commit"} =>
       IF txn[l] = NoTxn THEN At(l, "insert") /\ loader[l].batch = 1
       ELSE txn[l].target.rows = Plus(db.target.rows, Inserted(l))

(* The loaders with a file's batch in the table and not reported yet. *)
Counted(l, f, b) ==
    /\ loader[l].file = f
    /\ \/ At(l, "report")
       \/ Autocommits /\ (At(l, "commit") \/ (At(l, "insert") /\ b < loader[l].batch))
InHand(f, b) == Cardinality({l \in Loaders : Counted(l, f, b)})

Counts(f, b) ==
    LET held == db.target.rows[<<f, b>>] IN
    /\ held >= reported[f] + InHand(f, b)
    /\ f \in lost \/ Autocommits \/ held = reported[f] + InHand(f, b)

AddsInv ==
    Adding => /\ \A l \in Loaders : Grounded(l) /\ Collects(l)
              /\ \A f \in Files, b \in 1 .. Batches : Counts(f, b)

LEMMA AddingIs ==
    ASSUME Base, Adding, NEW l \in Loaders
    PROVE  /\ ~Staged(l) /\ Into(l) = "target"
           /\ At(l, "create") => txn[l] = NoTxn
           /\ ~(At(l, "clear") \/ At(l, "promote") \/ At(l, "copy") \/ At(l, "settle")
                \/ At(l, "retire") \/ At(l, "remove"))
BY DEF Base, Adding, Stands, Holds, Staged, Into, At

(* Only the loader that steps comes into the count, or goes out of it. *)
One(is) == IF is THEN 1 ELSE 0

LEMMA InHandMoves ==
    ASSUME Base, NEW l \in Loaders, Steps(l), NEW f \in Files, NEW b \in 1 .. Batches
    PROVE  /\ InHand(f, b) \in Nat /\ InHand(f, b)' \in Nat
           /\ InHand(f, b)' = InHand(f, b) - One(Counted(l, f, b)) + One(Counted(l, f, b)')
<1>1. PICK S : S = {m \in Loaders : Counted(m, f, b)}
  OBVIOUS
<1>2. PICK T : T = {m \in Loaders : Counted(m, f, b)'}
  OBVIOUS
<1>3. \A m \in Loaders \ {l} : Counted(m, f, b)' <=> Counted(m, f, b)
  BY DEF Steps, Counted, At, Autocommits
<1>4. S \ {l} = T \ {l}
  BY <1>1, <1>2, <1>3
<1>5. IsFiniteSet(S) /\ IsFiniteSet(T)
  BY <1>1, <1>2, LoadingAssumption, FS_Subset
<1>6. /\ Cardinality(S) \in Nat /\ Cardinality(T) \in Nat
      /\ Cardinality(S \ {l}) = Cardinality(S) - One(l \in S)
      /\ Cardinality(T \ {l}) = Cardinality(T) - One(l \in T)
  BY <1>5, FS_CardinalityType, FS_RemoveElement DEF One
<1>7. (l \in S <=> Counted(l, f, b)) /\ (l \in T <=> Counted(l, f, b)')
  BY <1>1, <1>2
<1>8. InHand(f, b) = Cardinality(S) /\ InHand(f, b)' = Cardinality(T)
  BY <1>1, <1>2 DEF InHand
<1>9. One(l \in S) = One(Counted(l, f, b)) /\ One(l \in T) = One(Counted(l, f, b)')
  BY <1>7 DEF One
<1>10. One(l \in S) \in {0, 1} /\ One(l \in T) \in {0, 1}
  BY DEF One
<1>11. Cardinality(T) = Cardinality(S) - One(l \in S) + One(l \in T)
  <2>1. PICK s \in {0, 1}, t \in {0, 1} : s = One(l \in S) /\ t = One(l \in T)
    BY <1>10
  <2>2. Cardinality(S \ {l}) = Cardinality(S) - s /\ Cardinality(S \ {l}) = Cardinality(T) - t
    BY <1>4, <1>6, <2>1
  <2>3. Cardinality(T) = Cardinality(S) - s + t
    BY <1>6, <2>1, <2>2
  <2> QED
    BY <2>1, <2>3
<1> QED
  BY <1>6, <1>8, <1>9, <1>11

(* The count of a file's batch, from what one loader's step does to it. *)
LEMMA CountsFrame ==
    ASSUME Base, NEW l \in Loaders, Steps(l), NEW f \in Files, NEW b \in 1 .. Batches,
           Counts(f, b), NEW n \in {0, 1}, NEW k \in {0, 1},
           db'.target.rows[<<f, b>>] = db.target.rows[<<f, b>>] + n,
           reported'[f] = reported[f] + k,
           One(Counted(l, f, b)') + k <= One(Counted(l, f, b)) + n,
           lost \subseteq lost',
           f \in lost' \/ Autocommits \/ One(Counted(l, f, b)') + k = One(Counted(l, f, b)) + n
    PROVE  Counts(f, b)'
<1>1. PICK c \in {0, 1} : c = One(Counted(l, f, b))
  BY DEF One
<1>2. PICK d \in {0, 1} : d = One(Counted(l, f, b)')
  BY DEF One
<1>3. /\ InHand(f, b) \in Nat /\ InHand(f, b)' \in Nat
      /\ InHand(f, b)' = InHand(f, b) - c + d
  BY <1>1, <1>2, InHandMoves
<1>4. PICK h \in Nat : h = db.target.rows[<<f, b>>]
  BY DEF Base, TablesTyped, Database, Tables, Pieces
<1>5. reported[f] \in Nat
  BY DEF Base, FilesTyped
<1>6. h + n >= (reported[f] + k) + (InHand(f, b) - c + d)
  BY <1>1, <1>2, <1>3, <1>4, <1>5 DEF Counts
<1>7. f \in lost' \/ Autocommits' \/ h + n = (reported[f] + k) + (InHand(f, b) - c + d)
  BY <1>1, <1>2, <1>3, <1>4, <1>5 DEF Counts, Steps, Autocommits
<1> QED
  BY <1>3, <1>4, <1>6, <1>7 DEF Counts

LEMMA AddsFrame ==
    ASSUME Base, AddsInv, Adding, NEW l \in Loaders, Steps(l),
           db' = db \/ Unlocked(l),
           db.target.there => db'.target.there,
           Grounded(l)', Collects(l)',
           \A f \in Files, b \in 1 .. Batches : Counts(f, b)'
    PROVE  AddsInv'
<1>1. ASSUME NEW m \in Loaders \ {l}
      PROVE  (Grounded(m) /\ Collects(m))'
  <2>1. loader'[m] = loader[m] /\ txn'[m] = txn[m] /\ job' = job
    BY DEF Steps, OneTxnSet
  <2>2. Grounded(m) /\ Collects(m) /\ Grounded(l)
    BY DEF AddsInv
  <2>3. db' = db \/ txn[m] = NoTxn
    BY DEF Unlocked
  <2>4. Grounded(m)'
    BY <2>1, <2>2, <2>3 DEF Grounded, At
  <2>5. Collects(m)'
    BY <2>1, <2>2, <2>3 DEF Collects, At, Inserted, Upto, Plus, Autocommits
  <2> QED
    BY <2>4, <2>5
<1>2. \A m \in Loaders : (Grounded(m) /\ Collects(m))'
  BY <1>1
<1> QED
  BY <1>2 DEF AddsInv

(* A step that leaves the database alone and puts nothing into the count. *)
LEMMA AddsIdle ==
    ASSUME Base, AddsInv, Adding, NEW l \in Loaders, Steps(l), db' = db,
           txn'[l] \in {txn[l], NoTxn}, reported' = reported, lost \subseteq lost',
           loader'[l].existed => db.target.there,
           loader'[l].at \in {"insert", "commit"} =>
              txn'[l] = NoTxn /\ At(l, "insert")' /\ loader'[l].batch = 1,
           ~At(l, "report")',
           \A f \in Files, b \in 1 .. Batches :
              Counted(l, f, b) => Autocommits \/ f \in lost'
    PROVE  AddsInv'
<1>1. Grounded(l)'
  BY DEF AddsInv, Grounded, At
<1>2. Collects(l)'
  BY DEF Collects
<1>3. ASSUME NEW f \in Files, NEW b \in 1 .. Batches
      PROVE  Counts(f, b)'
  <2>1. ~Counted(l, f, b)'
    BY DEF Counted, At
  <2>2. One(Counted(l, f, b)') = 0 /\ One(Counted(l, f, b)) \in {0, 1}
    BY <2>1 DEF One
  <2>3. ~Counted(l, f, b) => One(Counted(l, f, b)) = 0
    BY DEF One
  <2>4. db.target.rows[<<f, b>>] \in Nat /\ reported[f] \in Nat
    BY DEF Base, TablesTyped, FilesTyped, Database, Tables, Pieces
  <2>5. Counts(f, b)
    BY DEF AddsInv
  <2> QED
    BY <2>2, <2>3, <2>4, <2>5, CountsFrame
<1> QED
  BY <1>1, <1>2, <1>3, AddsFrame

LEMMA EndsFresh ==
    ASSUME Base, NEW l \in Loaders, Ends(l)
    PROVE  At(l, "ended")' /\ loader'[l].existed = FALSE
BY FreshIs DEF Ends, Base, LoadersTyped, At, Fresh

(* The steps that do not touch the destination of a load that adds. *)
LEMMA AddsIdly ==
    ASSUME Base, AddsInv, Adding, NEW l \in Loaders,
           \/ Start(l) \/ Take(l) \/ Finish(l) \/ Missing(l) \/ Reject(l) \/ Read(l)
           \/ StatementFails(l) \/ RouteLoaded(l) \/ Fail(l) \/ Leave(l)
           \/ Terminate(l) \/ Die(l)
    PROVE  AddsInv'
<1>1. /\ ~Staged(l) /\ (loader[l].existed => db.target.there)
      /\ Grounded(l)
  BY AddingIs DEF AddsInv, Grounded
<1>2. CASE Start(l)
  BY <1>2, StartIs, AddsIdle DEF Kept, evidence, At, Counted
<1>3. CASE Take(l)
  <2>1. Steps(l) /\ Kept /\ UNCHANGED evidence /\ At(l, "next") /\ txn[l] = NoTxn
    BY <1>3, TakeIs DEF Base, Holds, At
  <2>2. loader'[l].at \in {"ended", "read"} /\ (loader'[l].existed => db.target.there)
    BY <1>3, <2>1, TakeIs, FreshIs DEF Seen, At, Fresh
  <2> QED
    BY <2>1, <2>2, AddsIdle DEF Kept, evidence, At, Counted
<1>4. CASE Finish(l) \/ Missing(l)
  BY <1>4, StopIs, EndsFresh, AddsIdle DEF Kept, evidence, At, Counted
<1>5. CASE Reject(l)
  BY <1>1, <1>5, RejectIs, AddsIdle DEF Kept, GoesOn, At, Counted
<1>6. CASE Read(l)
  <2>1. /\ Steps(l) /\ Kept /\ UNCHANGED evidence /\ At(l, "read") /\ loader[l].batch = 1
        /\ txn[l] = NoTxn /\ (GoesOn(l, "insert") \/ GoesOn(l, "create"))
    BY <1>1, <1>6, ReadIs
  <2> QED
    BY <1>1, <2>1, AddsIdle DEF Kept, evidence, GoesOn, At, Counted
<1>8. CASE StatementFails(l)
  <2>1. /\ Steps(l) /\ UNCHANGED evidence /\ (Undone(l) \/ Kept)
        /\ loader[l].at \notin {"report", "commit"}
        /\ (GoesOn(l, "remove") \/ GoesOn(l, "fail") \/ GoesOn(l, "leave"))
    BY <1>8, StatementFailsIs DEF At
  <2> QED
    BY <1>1, <2>1, AddsIdle DEF Undone, Kept, evidence, GoesOn, At, Counted
<1>9. CASE RouteLoaded(l)
  BY <1>1, <1>9, RouteLoadedIs, AddsIdle DEF Kept, GoesOn, At, Counted
<1>10. CASE Fail(l)
  <2>1. /\ Steps(l) /\ Undone(l) /\ UNCHANGED <<job, reported, lost>> /\ At(l, "fail")
        /\ (GoesOn(l, "next") \/ Ends(l))
    BY <1>10, FailIs
  <2> QED
    BY <1>1, <2>1, EndsFresh, AddsIdle DEF Undone, GoesOn, At, Counted
<1>11. CASE Leave(l)
  BY <1>11, LeaveIs, EndsFresh, AddsIdle DEF Undone, evidence, At, Counted
<1>12. CASE Terminate(l)
  <2>1. /\ Steps(l) /\ Kept /\ UNCHANGED <<job, place, reported>>
        /\ lost' = lost \cup {loader[l].file}
        /\ (GoesOn(l, "remove") \/ GoesOn(l, "fail") \/ GoesOn(l, "leave"))
    BY <1>12, TerminateIs
  <2> QED
    BY <1>1, <2>1, AddsIdle DEF Kept, GoesOn, At, Counted
<1>13. CASE Die(l)
  BY <1>13, DieIs, EndsFresh, AddsIdle DEF Undone, At, Counted
<1> QED
  BY <1>2, <1>3, <1>4, <1>5, <1>6, <1>8, <1>9, <1>10, <1>11, <1>12, <1>13

(* A file's pieces in a table. *)
LEMMA PiecesAre ==
    ASSUME NEW f \in Files, NEW b \in 1 .. Batches
    PROVE  /\ <<f, b>> \in Pieces /\ <<f, b>> # Before
           /\ \A g \in Files : Contents[g][<<f, b>>] = IF f = g THEN 1 ELSE 0
           /\ \A g \in Files, n \in Int :
                 Upto(g, n)[<<f, b>>] = IF f = g /\ b <= n THEN 1 ELSE 0
<1>1. <<f, b>> \in Pieces /\ <<f, b>>[1] = f /\ <<f, b>>[2] = b
  BY DEF Pieces
<1>2. <<f, b>> # Before
  BY LoadingAssumption DEF Before
<1> QED
  BY <1>1, <1>2 DEF Contents, Upto

(* A table written at once by the load that adds the whole file. *)
LEMMA AddsWhole ==
    ASSUME Base, AddsInv, Adding, NEW l \in Loaders, Steps(l), GoesOn(l, "report"),
           UNCHANGED evidence, Unlocked(l), db.target.there, loader[l].file \in Files,
           NEW e \in Database, Stored(l, e), e.target.there,
           e.target.rows = Plus(db.target.rows, Contents[loader[l].file]),
           \A f \in Files, b \in 1 .. Batches : ~Counted(l, f, b)
    PROVE  AddsInv'
<1>1. db' = e /\ txn'[l] = NoTxn /\ loader'[l].at = "report"
      /\ loader'[l].file = loader[l].file
  BY DEF Stored, GoesOn
<1>2. Grounded(l)' /\ Collects(l)'
  BY <1>1 DEF Grounded, Collects, At
<1>3. ASSUME NEW f \in Files, NEW b \in 1 .. Batches
      PROVE  Counts(f, b)'
  <2>1. PICK n \in {0, 1} : n = IF f = loader[l].file THEN 1 ELSE 0
    OBVIOUS
  <2>2. Counted(l, f, b)' <=> n = 1
    BY <1>1, <2>1 DEF Counted, At
  <2>3. One(Counted(l, f, b)') = n /\ One(Counted(l, f, b)) = 0
    BY <2>2 DEF One
  <2>4. db'.target.rows[<<f, b>>] = db.target.rows[<<f, b>>] + n
    BY <1>1, <2>1, PiecesAre DEF Plus
  <2>5. reported' = reported /\ lost' = lost /\ reported[f] \in Nat /\ Counts(f, b)
    BY DEF evidence, Base, FilesTyped, AddsInv
  <2> QED
    BY <2>1, <2>3, <2>4, <2>5, CountsFrame
<1> QED
  BY <1>1, <1>2, <1>3, AddsFrame

(* The rows of a file, batch by batch. *)
LEMMA UptoIs ==
    ASSUME NEW f \in Files, NEW b \in 1 .. Batches, NEW held \in [Pieces -> Nat]
    PROVE  /\ Plus(held, Upto(f, 0)) = held
           /\ [Plus(held, Upto(f, b - 1)) EXCEPT ![<<f, b>>] = @ + 1]
                 = Plus(held, Upto(f, b))
           /\ Plus(held, Upto(f, Batches)) = Plus(held, Contents[f])
<1>1. \A p \in Pieces : p[1] = f => p[2] \in 1 .. Batches /\ (p[2] = b => p = <<f, b>>)
  BY LoadingAssumption DEF Pieces, Before
<1>2. <<f, b>> \in Pieces /\ <<f, b>>[1] = f /\ <<f, b>>[2] = b
  BY DEF Pieces
<1>3. Batches \in Nat /\ b \in Nat
  BY LoadingAssumption
<1>4. \A n \in Int : Upto(f, n) = [p \in Pieces |-> IF p[1] = f /\ p[2] <= n THEN 1 ELSE 0]
  BY DEF Upto
<1>5. \A p \in Pieces : Upto(f, 0)[p] = 0
  BY <1>1 DEF Upto
<1>6. \A p \in Pieces : Upto(f, b)[p] = Upto(f, b - 1)[p] + (IF p = <<f, b>> THEN 1 ELSE 0)
  <2>1. ASSUME NEW p \in Pieces
        PROVE  Upto(f, b)[p] = Upto(f, b - 1)[p] + (IF p = <<f, b>> THEN 1 ELSE 0)
    <3>1. CASE p[1] = f
      BY <1>1, <1>2, <1>3, <3>1 DEF Upto
    <3>2. CASE p[1] # f
      BY <1>2, <3>2 DEF Upto
    <3> QED
      BY <3>1, <3>2
  <2> QED
    BY <2>1
<1>7. \A p \in Pieces : Upto(f, Batches)[p] = Contents[f][p]
  BY <1>1, <1>3 DEF Upto, Contents
<1>8. \A p \in Pieces : Upto(f, b - 1)[p] \in {0, 1}
  BY DEF Upto
<1>9. Plus(held, Upto(f, 0)) = held
  BY <1>5 DEF Plus
<1>10. [Plus(held, Upto(f, b - 1)) EXCEPT ![<<f, b>>] = @ + 1] = Plus(held, Upto(f, b))
  <2> DEFINE A == Upto(f, b - 1)
             B == Upto(f, b)
  <2>1. \A p \in Pieces : A[p] \in {0, 1} /\ B[p] = A[p] + (IF p = <<f, b>> THEN 1 ELSE 0)
    BY <1>6, <1>8
  <2> SUFFICES [Plus(held, A) EXCEPT ![<<f, b>>] = @ + 1] = Plus(held, B)
    OBVIOUS
  <2> HIDE DEF A, B
  <2>2. \A p \in Pieces : held[p] + B[p] = IF p = <<f, b>> THEN (held[p] + A[p]) + 1
                                           ELSE held[p] + A[p]
    BY <2>1
  <2>3. Plus(held, B) = [p \in Pieces |-> IF p = <<f, b>> THEN (held[p] + A[p]) + 1
                                          ELSE held[p] + A[p]]
    BY <2>2 DEF Plus
  <2> QED
    BY <1>2, <2>3 DEF Plus
<1>11. Plus(held, Upto(f, Batches)) = Plus(held, Contents[f])
  BY <1>7 DEF Plus
<1> QED
  BY <1>9, <1>10, <1>11

(* A step that leaves the destination's rows. *)
LEMMA AddsSame ==
    ASSUME Base, AddsInv, Adding, NEW l \in Loaders, Steps(l), UNCHANGED evidence,
           Unlocked(l), db'.target.rows = db.target.rows, db'.target.there,
           txn'[l] # NoTxn => txn'[l].target.there,
           Collects(l)', \A f \in Files, b \in 1 .. Batches : ~Counted(l, f, b),
           \A f \in Files, b \in 1 .. Batches : ~Counted(l, f, b)'
    PROVE  AddsInv'
<1>1. Grounded(l)'
  BY DEF Grounded, At
<1>2. ASSUME NEW f \in Files, NEW b \in 1 .. Batches
      PROVE  Counts(f, b)'
  <2>1. One(Counted(l, f, b)') = 0 /\ One(Counted(l, f, b)) = 0
    BY DEF One
  <2>2. /\ reported' = reported /\ lost' = lost /\ reported[f] \in Nat /\ Counts(f, b)
        /\ db.target.rows[<<f, b>>] \in Nat
    BY DEF evidence, Base, FilesTyped, TablesTyped, Database, Tables, Pieces, AddsInv
  <2> QED
    BY <2>1, <2>2, CountsFrame
<1> QED
  BY <1>1, <1>2, AddsFrame

LEMMA AddsCreating ==
    ASSUME Base, AddsInv, Adding, NEW l \in Loaders, LoadFromPath(l) \/ Create(l)
    PROVE  AddsInv' /\ (~Autocommits => db'.target.rows = db.target.rows)
<1>1. /\ ~Staged(l) /\ Into(l) = "target" /\ Grounded(l) /\ Collects(l)
      /\ db \in Database /\ db.target \in Tables /\ db["target"] = db.target
      /\ db.target.rows \in [Pieces -> Nat]
  BY AddingIs, FieldsAre DEF AddsInv, Base, TablesTyped, Tables
<1>2. CASE LoadFromPath(l)
  <2>1. /\ Steps(l) /\ GoesOn(l, "report") /\ UNCHANGED evidence /\ At(l, "read")
        /\ loader[l].file \in Files /\ Native(l)
    BY <1>2, LoadFromPathIs
  <2>2. PICK R \in [Pieces -> Nat] :
           /\ R = [p \in Pieces |-> db.target.rows[p] + Contents[loader[l].file][p]]
           /\ Stored(l, [db EXCEPT !.target.rows = R]) /\ Unlocked(l)
           /\ [db EXCEPT !.target.rows = R] \in Database
    BY <1>2, LoadFromPathIs
  <2>3. PICK e \in Database : e = [db EXCEPT !.target.rows = R]
    BY <2>2
  <2>4. /\ Stored(l, e) /\ e.target.there = db.target.there
        /\ e.target.rows = Plus(db.target.rows, Contents[loader[l].file])
    BY <1>1, <2>2, <2>3, RowsSet DEF Plus
  <2>5. db.target.there
    BY <1>1, <2>1 DEF Native, Grounded
  <2>6. \A f \in Files, b \in 1 .. Batches : ~Counted(l, f, b)
    BY <2>1 DEF Counted, At
  <2> QED
    BY <2>1, <2>2, <2>3, <2>4, <2>5, <2>6, AddsWhole DEF Native, ReadsPaths, Autocommits
<1>3. CASE Create(l)
  <2>1. /\ Steps(l) /\ UNCHANGED evidence /\ GoesOn(l, "insert") /\ At(l, "create")
        /\ loader[l].batch = 1 /\ Unlocked(l) /\ txn[l] = NoTxn
        /\ IF db.target.there THEN Kept
           ELSE Stored(l, [db EXCEPT !["target"] = Table(Nothing)])
    BY <1>1, <1>3, CreateIs, AddingIs DEF Seen
  <2>2. CASE db.target.there
    BY <1>1, <2>1, <2>2, AddsIdle DEF Kept, evidence, GoesOn, At, Counted
  <2>3. CASE ~db.target.there
    <3>1. PICK e : e = [db EXCEPT !["target"] = Table(Nothing)]
      OBVIOUS
    <3>2. Table(Nothing) \in Tables /\ Table(Nothing).there
          /\ Table(Nothing).rows = Nothing
      BY TablesThere
    <3>3. e \in Database /\ e["target"] = Table(Nothing)
      BY <1>1, <3>1, <3>2, IndexSet DEF With
    <3>4. e.target.there /\ e.target.rows = Nothing /\ db.target.rows = Nothing
      BY <1>1, <2>3, <3>2, <3>3, FieldsAre DEF Grounded
    <3>5. db' = e /\ txn'[l] = NoTxn
      BY <2>1, <2>3, <3>1 DEF Stored
    <3>6. Collects(l)'
      BY <2>1, <3>5 DEF Collects, GoesOn, At
    <3>7. \A f \in Files, b \in 1 .. Batches : ~Counted(l, f, b) /\ ~Counted(l, f, b)'
      BY <2>1 DEF Counted, At, GoesOn
    <3> QED
      BY <2>1, <3>4, <3>5, <3>6, <3>7, AddsSame
  <2> QED
    BY <2>2, <2>3
<1> QED
  BY <1>2, <1>3

LEMMA AddsInserting ==
    ASSUME Base, AddsInv, Adding, NEW l \in Loaders, Insert(l)
    PROVE  AddsInv'
<1>1. /\ Steps(l) /\ UNCHANGED evidence /\ InsertsOn(l) /\ At(l, "insert")
      /\ loader[l].batch \in 1 .. Batches /\ loader[l].file \in Files
      /\ Seen(l)["target"].there /\ Into(l) = "target"
  BY InsertIs, AddingIs
<1>2. PICK e \in Database, T \in Tables :
         /\ Wrote(l, e) /\ With(e, Seen(l), Into(l), T) /\ T.there
         /\ T.rows = [Seen(l)[Into(l)].rows EXCEPT
                         ![<<loader[l].file, loader[l].batch>>] = @ + 1]
  BY InsertIs
<1>3. PICK g \in Files, n \in 1 .. Batches : g = loader[l].file /\ n = loader[l].batch
  BY <1>1
<1>4. /\ Seen(l)["target"] = Seen(l).target /\ Seen(l).target.there
      /\ db.target.rows \in [Pieces -> Nat]
  BY <1>1, SeenTyped, FieldsAre DEF Base, TablesTyped, Database, Tables
<1>5. /\ e.target.there
      /\ e.target.rows = [Seen(l).target.rows EXCEPT ![<<g, n>>] = @ + 1]
  BY <1>1, <1>2, <1>3, <1>4, FieldsAre DEF With
<1>6. Grounded(l) /\ Collects(l)
  BY DEF AddsInv
<1>7. db.target.there /\ (txn[l] = NoTxn => Seen(l) = db)
  BY <1>4, <1>6 DEF Seen, Grounded
<1>8. /\ loader'[l].file = g
      /\ IF n = Batches THEN loader'[l].at = "commit"
         ELSE loader'[l].at = "insert" /\ loader'[l].batch = n + 1
  BY <1>1, <1>3 DEF InsertsOn, GoesOn
<1>9. CASE Autocommits
  <2>1. Unlocked(l) /\ db' = e /\ txn'[l] = NoTxn /\ Seen(l) = db
    BY <1>2, <1>7, <1>9 DEF Wrote, Stored, Base, Holds
  <2>2. Grounded(l)' /\ Collects(l)'
    BY <1>1, <1>5, <1>9, <2>1 DEF Grounded, Collects, Steps, Autocommits
  <2>3. ASSUME NEW f \in Files, NEW b \in 1 .. Batches
        PROVE  Counts(f, b)'
    <3>1. PICK k \in {0, 1} : k = IF f = g /\ b = n THEN 1 ELSE 0
      OBVIOUS
    <3>2. n \in Nat /\ b \in Nat /\ b <= Batches /\ Batches \in Nat
      BY LoadingAssumption
    <3>3. Autocommits'
      BY <1>1, <1>9 DEF Steps, Autocommits
    <3>4. Counted(l, f, b) <=> f = g /\ b < n
      BY <1>1, <1>3, <1>9 DEF Counted, At
    <3>5. Counted(l, f, b)' <=> f = g /\ (n = Batches \/ b < n + 1)
      BY <1>8, <3>3 DEF Counted, At
    <3>6. One(Counted(l, f, b)') = One(Counted(l, f, b)) + k
      BY <3>1, <3>2, <3>4, <3>5 DEF One
    <3>7. <<f, b>> \in Pieces /\ (<<f, b>> = <<g, n>> <=> k = 1)
      BY <3>1, PiecesAre
    <3>8. db'.target.rows[<<f, b>>] = db.target.rows[<<f, b>>] + k
      BY <1>4, <1>5, <2>1, <3>1, <3>7
    <3>9. reported' = reported /\ lost' = lost /\ reported[f] \in Nat /\ Counts(f, b)
      BY <1>1 DEF evidence, Base, FilesTyped, AddsInv
    <3>10. One(Counted(l, f, b)) \in {0, 1}
      BY DEF One
    <3> QED
      BY <1>1, <1>9, <3>1, <3>6, <3>8, <3>9, <3>10, CountsFrame
  <2> QED
    BY <1>1, <1>5, <2>1, <2>2, <2>3, AddsFrame
<1>10. CASE ~Autocommits
  <2>1. db' = db /\ txn'[l] = e /\ Unlocked(l)
    BY <1>2, <1>10 DEF Wrote, Opened
  <2>2. Seen(l).target.rows = Plus(db.target.rows, Upto(g, n - 1))
    <3>1. CASE txn[l] = NoTxn
      <4>1. n = 1 /\ Seen(l) = db
        BY <1>1, <1>3, <1>6, <1>7, <1>10, <3>1 DEF Collects, At
      <4>2. Plus(db.target.rows, Upto(g, 0)) = db.target.rows
        BY <1>4, UptoIs
      <4> QED
        BY <4>1, <4>2
    <3>2. CASE txn[l] # NoTxn
      BY <1>1, <1>3, <1>6, <1>10, <3>2 DEF Collects, Seen, Inserted, At
    <3> QED
      BY <3>1, <3>2
  <2>3. e.target.rows = Plus(db.target.rows, Upto(g, n))
    BY <1>4, <1>5, <2>2, UptoIs
  <2>4. e # NoTxn
    BY <1>2, NoTxnAssumption
  <2>5. n \in Nat /\ (n + 1) - 1 = n
    OBVIOUS
  <2>6. Plus(db.target.rows, Inserted(l)') = Plus(db.target.rows, Upto(g, n))
    <3>1. CASE n = Batches
      <4>1. Inserted(l)' = Contents[g]
        BY <1>8, <3>1 DEF Inserted, At
      <4>2. Plus(db.target.rows, Upto(g, Batches)) = Plus(db.target.rows, Contents[g])
        BY <1>4, UptoIs
      <4> QED
        BY <3>1, <4>1, <4>2
    <3>2. CASE n # Batches
      BY <1>8, <2>5, <3>2 DEF Inserted, At
    <3> QED
      BY <3>1, <3>2
  <2>7. Collects(l)'
    BY <2>1, <2>3, <2>4, <2>6 DEF Collects, Plus
  <2>8. Grounded(l)'
    BY <1>5, <1>6, <1>7, <2>1 DEF Grounded
  <2>9. ASSUME NEW f \in Files, NEW b \in 1 .. Batches
        PROVE  Counts(f, b)'
    <3>1. ~Counted(l, f, b) /\ ~Counted(l, f, b)'
      BY <1>1, <1>8, <1>10 DEF Counted, At, Steps, Autocommits
    <3>2. One(Counted(l, f, b)') = 0 /\ One(Counted(l, f, b)) = 0
      BY <3>1 DEF One
    <3>3. /\ reported' = reported /\ lost' = lost /\ reported[f] \in Nat /\ Counts(f, b)
          /\ db.target.rows[<<f, b>>] \in Nat
      BY <1>1, <1>4, PiecesAre DEF evidence, Base, FilesTyped, AddsInv
    <3> QED
      BY <1>1, <2>1, <3>2, <3>3, CountsFrame
  <2> QED
    BY <1>1, <2>1, <2>7, <2>8, <2>9, AddsFrame
<1> QED
  BY <1>9, <1>10

LEMMA AddsCommitting ==
    ASSUME Base, AddsInv, Adding, NEW l \in Loaders, Commit(l)
    PROVE  AddsInv'
<1>1. /\ Steps(l) /\ UNCHANGED evidence /\ At(l, "commit") /\ GoesOn(l, "report")
      /\ db' = Seen(l) /\ txn'[l] = NoTxn /\ loader[l].file \in Files
      /\ Grounded(l) /\ Collects(l)
  BY CommitIs, AddingIs, StepsAre DEF Stored, AddsInv, Base, Stands
<1>2. CASE Autocommits
  <2>1. db' = db
    BY <1>1, <1>2 DEF Base, Holds, Seen
  <2>2. Grounded(l)' /\ Collects(l)'
    BY <1>1, <2>1 DEF Grounded, Collects, GoesOn, At
  <2>3. ASSUME NEW f \in Files, NEW b \in 1 .. Batches
        PROVE  Counts(f, b)'
    <3>1. Counted(l, f, b)' <=> Counted(l, f, b)
      BY <1>1, <1>2 DEF Counted, GoesOn, At
    <3>2. One(Counted(l, f, b)') = One(Counted(l, f, b)) /\ One(Counted(l, f, b)) \in {0, 1}
      BY <3>1 DEF One
    <3>3. /\ reported' = reported /\ lost' = lost /\ reported[f] \in Nat /\ Counts(f, b)
          /\ db.target.rows[<<f, b>>] \in Nat
      BY <1>1 DEF evidence, Base, FilesTyped, TablesTyped, Database, Tables, Pieces, AddsInv
    <3> QED
      BY <1>1, <1>2, <2>1, <3>2, <3>3, CountsFrame
  <2> QED
    BY <1>1, <2>1, <2>2, <2>3, AddsFrame
<1>3. CASE ~Autocommits
  <2>1. /\ txn[l] # NoTxn /\ Seen(l) = txn[l]
        /\ txn[l].target.rows = Plus(db.target.rows, Contents[loader[l].file])
    BY <1>1, <1>3 DEF Collects, Inserted, Seen, At
  <2>2. Unlocked(l) /\ db.target.there /\ txn[l].target.there
    BY <1>1, <2>1 DEF Base, Single, Unlocked, Grounded
  <2>3. Seen(l) \in Database /\ Stored(l, Seen(l))
    BY <1>1, SeenTyped DEF Base, Stored
  <2>4. \A f \in Files, b \in 1 .. Batches : ~Counted(l, f, b)
    BY <1>1, <1>3 DEF Counted, At
  <2> QED
    BY <1>1, <2>1, <2>2, <2>3, <2>4, AddsWhole
<1> QED
  BY <1>2, <1>3

LEMMA AddsReporting ==
    ASSUME Base, AddsInv, Adding, NEW l \in Loaders, Report(l)
    PROVE  AddsInv'
<1>1. /\ Steps(l) /\ db' = db /\ txn' = txn /\ lost' = lost /\ At(l, "report")
      /\ GoesOn(l, "route") /\ loader[l].file \in Files
      /\ reported' = [reported EXCEPT ![loader[l].file] = @ + 1]
  BY ReportIs DEF Kept
<1>2. Grounded(l)' /\ Collects(l)'
  BY <1>1 DEF AddsInv, Grounded, Collects, GoesOn, At
<1>3. ASSUME NEW f \in Files, NEW b \in 1 .. Batches
      PROVE  Counts(f, b)'
  <2>1. PICK k \in {0, 1} : k = IF f = loader[l].file THEN 1 ELSE 0
    OBVIOUS
  <2>2. ~Counted(l, f, b)' /\ (Counted(l, f, b) <=> f = loader[l].file)
    BY <1>1 DEF Counted, GoesOn, At
  <2>3. One(Counted(l, f, b)') = 0 /\ One(Counted(l, f, b)) = k
    BY <2>1, <2>2 DEF One
  <2>4. reported'[f] = reported[f] + k
    BY <1>1, <2>1 DEF Base, FilesTyped
  <2>5. Counts(f, b) /\ db.target.rows[<<f, b>>] \in Nat
    BY DEF Base, TablesTyped, Database, Tables, Pieces, AddsInv
  <2> QED
    BY <1>1, <2>1, <2>3, <2>4, <2>5, CountsFrame
<1> QED
  BY <1>1, <1>2, <1>3, AddsFrame

LEMMA AddsFirst == ASSUME Init PROVE AddsInv
<1>1. Base
  BY BaseFirst
<1>2. \A l \in Loaders : loader[l] = Fresh /\ txn[l] = NoTxn
  BY DEF Init
<1>3. \A l \in Loaders : loader[l].at = "idle" /\ loader[l].existed = FALSE
  BY <1>2 DEF Fresh
<1>4. PICK T \in Tables : T = IF job.exists THEN Table(Previous) ELSE NoTable
  BY TablesThere
<1>5. db.target = T /\ (~T.there => T.rows = Nothing)
  BY <1>4, TablesThere DEF Init
<1>6. \A l \in Loaders : Grounded(l) /\ Collects(l)
  BY <1>2, <1>3, <1>5 DEF Grounded, Collects, At
<1>7. ASSUME NEW f \in Files, NEW b \in 1 .. Batches
      PROVE  Counts(f, b)
  <2>1. {l \in Loaders : Counted(l, f, b)} = {}
    BY <1>3 DEF Counted, At
  <2>2. InHand(f, b) = 0
    BY <2>1, FS_EmptySet DEF InHand
  <2>3. T.rows[<<f, b>>] = 0
    BY <1>4, PiecesAre DEF Table, NoTable, Previous, Nothing
  <2>4. reported[f] = 0
    BY DEF Init
  <2> QED
    BY <1>5, <2>2, <2>3, <2>4 DEF Counts
<1> QED
  BY <1>6, <1>7 DEF AddsInv

LEMMA AddsStep ==
    ASSUME Base, AddsInv, NEW l \in Loaders, Step(l)
    PROVE  AddsInv'
<1>1. Steps(l)
  BY StepIs
<1>2. CASE ~Adding
  BY <1>1, <1>2 DEF AddsInv, Adding, Steps
<1>3. CASE Adding
  <2>1. ~(Clear(l) \/ PromoteAtOnce(l) \/ PromoteBySwap(l) \/ Retire(l) \/ PromoteTogether(l)
          \/ Remove(l))
    BY <1>3, AddingIs
       DEF Clear, PromoteAtOnce, PromoteBySwap, Retire, PromoteTogether, Remove
  <2> QED
    BY <1>3, <2>1, AddsIdly, AddsCreating, AddsInserting, AddsCommitting, AddsReporting
       DEF Step
<1> QED
  BY <1>2, <1>3

LEMMA AddsStutters == ASSUME AddsInv, UNCHANGED vars PROVE AddsInv'
BY DEF vars, AddsInv, Adding, Grounded, Collects, Counts, InHand, Counted, Inserted, Upto,
       Plus, At, Autocommits

LEMMA AddsAlways == Spec => []AddsInv
<1>1. Base /\ AddsInv /\ [Next]_vars => AddsInv'
  BY AddsStep, AddsStutters DEF Next
<1> QED
  BY <1>1, AddsFirst, BaseAlways, PTL DEF Spec

(* A file is archived only by the load that reported it. *)
Archived ==
    /\ \A f \in Files : place[f] = "archive" => Adding /\ reported[f] > 0
    /\ \A l \in Loaders : At(l, "route") => reported[loader[l].file] > 0

LEMMA ArchivedFrame ==
    ASSUME Base, Archived, NEW l \in Loaders, Steps(l), ~At(l, "route")', reported' = reported,
           \A f \in Files : place'[f] \in {place[f], "rejected"}
    PROVE  Archived'
BY DEF Archived, Steps, At, Adding

LEMMA ArchivedStep ==
    ASSUME Base, Archived, NEW l \in Loaders, Step(l)
    PROVE  Archived'
<1>1. CASE Report(l)
  <2>1. /\ Steps(l) /\ UNCHANGED <<job, place, lost>> /\ At(l, "report")
        /\ GoesOn(l, "route") /\ loader[l].file \in Files
        /\ reported' = [reported EXCEPT ![loader[l].file] = @ + 1]
    BY <1>1, ReportIs
  <2>2. \A f \in Files : /\ reported[f] \in Nat /\ reported'[f] \in Nat
                         /\ reported'[f] = IF f = loader[l].file THEN reported[f] + 1
                                           ELSE reported[f]
    BY <2>1 DEF Base, FilesTyped
  <2>3. \A m \in Loaders : At(m, "route") => loader[m].file \in Files
    BY StepsAre DEF Base, Stands
  <2> QED
    BY <2>1, <2>2, <2>3 DEF Archived, Steps, GoesOn, At, Adding
<1>2. CASE RouteLoaded(l)
  <2>1. /\ Steps(l) /\ UNCHANGED <<job, reported, lost>> /\ At(l, "route")
        /\ GoesOn(l, "next") /\ Routes(l, "archive")
    BY <1>2, RouteLoadedIs
  <2>2. job.kind = "configured" => Adding
    BY LoadingAssumption DEF Base, FilesTyped, Adding
  <2>3. \A f \in Files : place'[f] = place[f] \/
           (job.kind = "configured" /\ f = loader[l].file /\ place'[f] = "archive")
    BY <2>1, RoutesSets DEF Base
  <2> QED
    BY <2>1, <2>2, <2>3 DEF Archived, Steps, GoesOn, At, Adding
<1>3. CASE Reject(l) \/ Fail(l)
  <2>1. /\ Steps(l) /\ UNCHANGED <<job, reported, lost>> /\ Routes(l, "rejected")
        /\ (GoesOn(l, "next") \/ Ends(l))
    BY <1>3, RejectIs, FailIs
  <2>2. \A f \in Files : place'[f] \in {place[f], "rejected"}
    BY <2>1, RoutesSets DEF Base
  <2>3. ~At(l, "route")'
    BY <2>1, EndsFresh DEF GoesOn, At
  <2> QED
    BY <2>1, <2>2, <2>3, ArchivedFrame
<1>4. ASSUME ~At(l, "route")', UNCHANGED <<place, reported>>
      PROVE  Archived'
  BY <1>4, StepIs, ArchivedFrame
<1>5. CASE Start(l) \/ Take(l) \/ Finish(l) \/ Missing(l) \/ Leave(l) \/ Die(l)
  BY <1>4, <1>5, StartIs, TakeIs, StopIs, LeaveIs, DieIs, EndsFresh DEF evidence, At
<1>6. CASE LoadFromPath(l) \/ Read(l) \/ Clear(l) \/ Create(l) \/ Commit(l)
  BY <1>4, <1>6, LoadFromPathIs, ReadIs, ClearIs, CreateIs, CommitIs
     DEF evidence, GoesOn, At
<1>7. CASE Insert(l)
  BY <1>4, <1>7, InsertIs DEF evidence, InsertsOn, GoesOn, At
<1>8. CASE PromoteAtOnce(l) \/ PromoteBySwap(l) \/ Retire(l) \/ PromoteTogether(l)
  BY <1>4, <1>8, PromoteAtOnceIs, PromoteBySwapIs, RetireIs, PromoteTogetherIs
     DEF evidence, GoesOn, At
<1>9. CASE Remove(l) \/ StatementFails(l) \/ Terminate(l)
  BY <1>4, <1>9, RemoveIs, StatementFailsIs, TerminateIs DEF evidence, GoesOn, At
<1> QED
  BY <1>1, <1>2, <1>3, <1>5, <1>6, <1>7, <1>8, <1>9 DEF Step

LEMMA ArchivedAlways == Spec => []Archived
<1>1. Init => Archived
  BY DEF Init, Archived, Fresh, At
<1>2. Base /\ Archived /\ UNCHANGED vars => Archived'
  BY DEF vars, Archived, At, Adding
<1>3. Base /\ Archived /\ [Next]_vars => Archived'
  BY <1>2, ArchivedStep DEF Next
<1> QED
  BY <1>1, <1>3, BaseAlways, PTL DEF Spec

(* Of a load that adds, what was reported loaded is committed; in a        *)
(* transaction nothing is that was not reported or about to be, so a file  *)
(* that failed left nothing behind; and a file in the archive has its      *)
(* records in the table (log_row_count and movements.success of            *)
(* load_operation.py): for any number of loaders side by side, under       *)
(* failures, overflows, SIGTERM and deaths anywhere.                       *)
THEOREM RowsAreThere == Spec => []RowsAreReported
<1>1. ASSUME Base, AddsInv, Archived
      PROVE  RowsAreReported
  <2>1. ASSUME NEW f \in Files, NEW b \in 1 .. Batches, Adding
        PROVE  LET held == db.target.rows[<<f, b>>] IN
               /\ held >= reported[f]
               /\ f \in lost \/ Autocommits \/ held = reported[f] + Counting(f)
    <3>1. Counts(f, b)
      BY <1>1, <2>1 DEF AddsInv
    <3>2. PICK S \in SUBSET Loaders : S = {l \in Loaders : Counted(l, f, b)}
      OBVIOUS
    <3>3. Cardinality(S) \in Nat
      BY LoadingAssumption, FS_Subset, FS_CardinalityType
    <3>4. InHand(f, b) = Cardinality(S)
      BY <3>2 DEF InHand
    <3>5. reported[f] \in Nat /\ db.target.rows[<<f, b>>] \in Nat
      BY <1>1 DEF Base, FilesTyped, TablesTyped, Database, Tables, Pieces
    <3>6. ~Autocommits => Counting(f) = InHand(f, b)
      <4>1. ~Autocommits => \A l \in Loaders :
               Counted(l, f, b) <=> At(l, "report") /\ loader[l].file = f
        BY DEF Counted
      <4> QED
        BY <4>1 DEF Counting, InHand
    <3> QED
      BY <3>1, <3>3, <3>4, <3>5, <3>6 DEF Counts
  <2>2. ASSUME NEW f \in Files, NEW b \in 1 .. Batches, place[f] = "archive"
        PROVE  db.target.rows[<<f, b>>] > 0
    <3>1. Adding /\ reported[f] > 0
      BY <1>1, <2>2 DEF Archived
    <3>2. reported[f] \in Nat /\ db.target.rows[<<f, b>>] \in Nat
      BY <1>1 DEF Base, FilesTyped, TablesTyped, Database, Tables, Pieces
    <3> QED
      BY <2>1, <3>1, <3>2
  <2> QED
    BY <2>1, <2>2 DEF RowsAreReported, Adding
<1> QED
  BY <1>1, BaseAlways, AddsAlways, ArchivedAlways, PTL

-----------------------------------------------------------------------------
(* What a load that replaces leaves beside its destination, where only     *)
(* loads that add run side by side.                                        *)

InTurn == Overlapping \subseteq {"append"}

Quiet(l) == loader[l].at \in {"idle", "ended"}
Alone == ~Adding => \A l, m \in Loaders : l = m \/ Quiet(l) \/ Quiet(m)

LEMMA AloneStep ==
    ASSUME InTurn, Base, Alone, NEW l \in Loaders, Step(l)
    PROVE  Alone'
<1>1. Steps(l) /\ (Adding' <=> Adding)
  BY StepIs DEF Steps, Adding
<1>2. CASE Start(l)
  <2>1. ~Adding => \A m \in Loaders \ {l} : Quiet(m)
    BY <1>2 DEF Start, InTurn, Adding, Quiet
  <2>2. \A m \in Loaders \ {l} : Quiet(m)' <=> Quiet(m)
    BY <1>1 DEF Steps, Quiet
  <2> QED
    BY <1>1, <2>1, <2>2 DEF Alone
<1>3. CASE ~Start(l)
  <2>1. ~Quiet(l)
    BY <1>3 DEF Step, Take, Finish, Missing, Reject, LoadFromPath, Read, Clear, Create, Insert,
                Commit, PromoteAtOnce, PromoteBySwap, Retire, PromoteTogether,
                Remove, StatementFails, Report, RouteLoaded, Fail, Leave, Terminate, Die,
                Working, Quiet, At
  <2>2. ~Adding => \A m \in Loaders \ {l} : Quiet(m)
    BY <2>1 DEF Alone
  <2>3. \A m \in Loaders \ {l} : Quiet(m)' <=> Quiet(m)
    BY <1>1 DEF Steps, Quiet
  <2> QED
    BY <1>1, <2>2, <2>3 DEF Alone
<1> QED
  BY <1>2, <1>3

LEMMA AloneAlways == ASSUME InTurn PROVE Spec => []Alone
<1>1. Init => Alone
  BY DEF Init, Alone, Quiet, Fresh
<1>2. Base /\ Alone /\ UNCHANGED vars => Alone'
  BY DEF vars, Alone, Quiet, Adding
<1>3. Base /\ Alone /\ [Next]_vars => Alone'
  BY <1>2, AloneStep DEF Next
<1> QED
  BY <1>1, <1>3, BaseAlways, PTL DEF Spec

Swaps == job.provider = "mysql" /\ job.policy = "recreate"

(* The staging table and the table renamed away are gone once the file is  *)
(* reported.  A provider that reads the file itself makes no staging table. *)
Companions ==
    /\ job.declares /\ ReadsPaths => ~db.stage.there
    /\ db.old.there => Swaps

Tidy(l) ==
    /\ job.declares /\ ReadsPaths /\ loader[l].at \in InStaging \cup {"clear", "remove"}
          => ~loader[l].existed
    /\ txn[l] # NoTxn /\ txn[l].old.there => Swaps
    /\ At(l, "remove") /\ loader[l].end = "loaded" => ~db.old.there
    /\ loader[l].at \in {"report", "route"} /\ Staged(l) => ~db.stage.there /\ ~db.old.there

TidyInv == ~Adding => Companions /\ \A l \in Loaders : Tidy(l)

LEMMA TidyFrame ==
    ASSUME Base, Alone, TidyInv, ~Adding, NEW l \in Loaders, Steps(l), db' = db \/ ~Quiet(l),
           Companions', Tidy(l)'
    PROVE  TidyInv'
<1>1. ASSUME NEW m \in Loaders \ {l}
      PROVE  Tidy(m)'
  <2>1. loader'[m] = loader[m] /\ txn'[m] = txn[m] /\ job' = job /\ Tidy(m)
    BY DEF Steps, OneTxnSet, TidyInv
  <2>2. CASE db' = db
    BY <2>1, <2>2 DEF Tidy, Staged, At, ReadsPaths, Swaps
  <2>3. CASE Quiet(m)
    BY <2>1, <2>3 DEF Tidy, Quiet, InStaging, At, Swaps
  <2> QED
    BY <2>2, <2>3 DEF Alone
<1> QED
  BY <1>1 DEF TidyInv

LEMMA TidyIdle ==
    ASSUME Base, Alone, TidyInv, ~Adding, NEW l \in Loaders, Steps(l), db' = db,
           txn'[l] \in {txn[l], NoTxn},
           loader'[l].at \in InStaging \cup {"clear", "remove"} =>
              /\ job.declares /\ ReadsPaths => ~loader'[l].existed
              /\ At(l, "remove")' => loader'[l].end # "loaded",
           loader'[l].at \in {"report", "route"} =>
              loader[l].at \in {"report", "route"} /\ loader'[l].existed = loader[l].existed
    PROVE  TidyInv'
<1>1. Tidy(l) /\ Companions /\ job' = job
  BY DEF TidyInv, Steps
<1>2. (ReadsPaths' <=> ReadsPaths) /\ (Swaps' <=> Swaps)
  BY <1>1 DEF ReadsPaths, Swaps
<1>3. Companions'
  BY <1>1, <1>2 DEF Companions
<1>4. Tidy(l)'
  BY <1>1, <1>2 DEF Tidy, Staged, InStaging, At
<1> QED
  BY <1>3, <1>4, TidyFrame

LEMMA TidyIdly ==
    ASSUME Base, Alone, TidyInv, ~Adding, NEW l \in Loaders,
           \/ Start(l) \/ Take(l) \/ Finish(l) \/ Missing(l) \/ Reject(l) \/ Read(l)
           \/ StatementFails(l) \/ Report(l) \/ RouteLoaded(l) \/ Fail(l)
           \/ Leave(l) \/ Terminate(l) \/ Die(l)
    PROVE  TidyInv'
<1>1. Tidy(l)
  BY DEF TidyInv
<1>2. CASE Start(l)
  BY <1>2, StartIs, TidyIdle DEF Kept, InStaging, At
<1>3. CASE Take(l)
  BY <1>3, TakeIs, FreshIs, TidyIdle DEF Kept, InStaging, At
<1>4. CASE Finish(l) \/ Missing(l)
  BY <1>4, StopIs, EndsFresh, TidyIdle DEF Kept, InStaging, At
<1>5. CASE Reject(l)
  BY <1>5, RejectIs, TidyIdle DEF Kept, GoesOn, InStaging, At
<1>6. CASE Read(l)
  <2>1. /\ Steps(l) /\ Kept /\ At(l, "read") /\ ~Native(l) /\ txn[l] = NoTxn
        /\ loader'[l].at \in {"clear", "insert", "create"}
        /\ loader'[l].existed = loader[l].existed
    BY <1>6, ReadIs DEF GoesOn
  <2>2. job.declares /\ ReadsPaths => ~loader[l].existed
    BY <2>1 DEF Native
  <2> QED
    BY <2>1, <2>2, TidyIdle DEF Kept, InStaging, At
<1>8. CASE StatementFails(l)
  <2>1. PICK s \in {"remove", "fail", "leave"} :
           /\ GoesOn(l, s)
           /\ s = "remove" <=> Staged(l) /\ loader[l].at \in InStaging
           /\ s = "remove" => loader'[l].end \in {"failed", "raised"}
    BY <1>8, StatementFailsIs
  <2>2. Steps(l) /\ (Undone(l) \/ Kept)
    BY <1>8, StatementFailsIs
  <2> QED
    BY <1>1, <2>1, <2>2, TidyIdle DEF Undone, Kept, GoesOn, Tidy, InStaging, At
<1>9. CASE Report(l) \/ RouteLoaded(l)
  BY <1>9, ReportIs, RouteLoadedIs, TidyIdle DEF Kept, GoesOn, InStaging, At
<1>10. CASE Fail(l)
  <2>1. Steps(l) /\ Undone(l) /\ (GoesOn(l, "next") \/ Ends(l))
    BY <1>10, FailIs
  <2> QED
    BY <2>1, EndsFresh, TidyIdle DEF Undone, GoesOn, InStaging, At
<1>11. CASE Leave(l)
  BY <1>11, LeaveIs, EndsFresh, TidyIdle DEF Undone, InStaging, At
<1>12. CASE Terminate(l)
  <2>1. PICK s \in {"remove", "fail", "leave"} :
           /\ GoesOn(l, s)
           /\ s = "remove" <=> Staged(l) /\ loader[l].at \in InStaging
           /\ s = "remove" => loader'[l].end = "terminated"
    BY <1>12, TerminateIs
  <2>2. Steps(l) /\ Kept
    BY <1>12, TerminateIs
  <2> QED
    BY <1>1, <2>1, <2>2, TidyIdle DEF Kept, GoesOn, Tidy, InStaging, At
<1>13. CASE Die(l)
  BY <1>13, DieIs, EndsFresh, TidyIdle DEF Undone, InStaging, At
<1> QED
  BY <1>2, <1>3, <1>4, <1>5, <1>6, <1>8, <1>9, <1>10, <1>11, <1>12, <1>13

(* A step on the tables that goes on in the staging: what it may leave of them. *)
LEMMA TidyOn ==
    ASSUME Base, Alone, TidyInv, ~Adding, NEW l \in Loaders, Steps(l), Working(l),
           loader[l].at \in InStaging \cup {"clear"} \/ (At(l, "read") /\ ~Native(l)),
           loader'[l].at \in InStaging \cup {"remove"},
           loader'[l].existed = loader[l].existed,
           NEW e \in Database,
           db' \in {db, e}, txn'[l] \in {NoTxn, e},
           e.old.there => Seen(l).old.there \/ Swaps,
           e.stage.there => Seen(l).stage.there \/ Staged(l),
           At(l, "remove")' => db' = e /\ ~e.old.there
    PROVE  TidyInv'
<1>1. Tidy(l) /\ Companions /\ job' = job /\ ~Quiet(l)
  BY DEF TidyInv, Steps, Working, Quiet
<1>2. (ReadsPaths' <=> ReadsPaths) /\ (Swaps' <=> Swaps)
  BY <1>1 DEF ReadsPaths, Swaps
<1>3. Seen(l).old.there => Swaps
  BY <1>1 DEF Seen, Tidy, Companions
<1>4. job.declares /\ ReadsPaths =>
         ~loader[l].existed /\ ~Staged(l) /\ Seen(l) = db
  BY <1>1 DEF Tidy, Native, Staged, Seen, Base, Holds, Autocommits, ReadsPaths, InStaging, At
<1>5. Companions'
  BY <1>1, <1>2, <1>3, <1>4 DEF Companions
<1>6. Tidy(l)'
  BY <1>1, <1>2, <1>3, <1>4 DEF Tidy, InStaging, At
<1> QED
  BY <1>1, <1>5, <1>6, TidyFrame

LEMMA TidyWriting ==
    ASSUME Base, Alone, TidyInv, ~Adding, NEW l \in Loaders,
           \/ Clear(l) \/ Create(l) \/ Insert(l) \/ Commit(l)
    PROVE  TidyInv'
<1>1. Tidy(l) /\ Companions /\ Seen(l) \in Database
  BY SeenTyped DEF TidyInv, Base
<1>2. /\ Seen(l)["target"] = Seen(l).target /\ Seen(l)["stage"] = Seen(l).stage
      /\ Into(l) \in {"target", "stage"} /\ (Staged(l) <=> Into(l) = "stage")
      /\ NoTable \in Tables /\ ~NoTable.there
  BY <1>1, FieldsAre, IntoIs, TablesThere
<1>3. \A e \in Database, T \in Tables :
         With(e, Seen(l), Into(l), T) =>
            e.old = Seen(l).old /\ (e.stage = Seen(l).stage \/ Staged(l))
  BY <1>2, FieldsAre DEF With, Other
<1>4. \A step \in {"clear", "create", "insert", "commit"} :
         At(l, step) => Working(l) /\ loader[l].at \in InStaging \cup {"clear"}
  BY StepsAre DEF InStaging, At
<1>5. CASE Clear(l)
  <2>1. /\ Steps(l) /\ GoesOn(l, "create") /\ At(l, "clear") /\ txn[l] = NoTxn
        /\ IF Seen(l).stage.there THEN Defined(l, [Seen(l) EXCEPT !.stage = NoTable])
           ELSE Kept
    BY <1>5, ClearIs
  <2>2. CASE Seen(l).stage.there
    <3>1. PICK e : e = [Seen(l) EXCEPT !.stage = NoTable]
      OBVIOUS
    <3>2. e \in Database /\ e.old = Seen(l).old /\ ~e.stage.there
      BY <1>1, <1>2, <3>1, TableSet
    <3>3. db' \in {db, e} /\ txn'[l] \in {NoTxn, e}
      BY <2>1, <2>2, <3>1 DEF Defined, Stored, Opened
    <3> QED
      BY <1>4, <2>1, <3>2, <3>3, TidyOn DEF GoesOn, InStaging, At
  <2>3. CASE ~Seen(l).stage.there
    BY <1>1, <2>1, <2>3, TidyIdle DEF Kept, GoesOn, Tidy, InStaging, At
  <2> QED
    BY <2>2, <2>3
<1>6. CASE Create(l)
  <2>1. /\ Steps(l) /\ GoesOn(l, "insert") /\ At(l, "create")
        /\ IF Seen(l)[Into(l)].there THEN Kept
           ELSE Stored(l, [Seen(l) EXCEPT ![Into(l)] = Table(Nothing)])
    BY <1>6, CreateIs
  <2>2. CASE Seen(l)[Into(l)].there
    BY <1>1, <2>1, <2>2, TidyIdle DEF Kept, GoesOn, Tidy, InStaging, At
  <2>3. CASE ~Seen(l)[Into(l)].there
    <3>1. PICK T \in Tables : T = Table(Nothing)
      BY TablesThere
    <3>2. PICK e : e = [Seen(l) EXCEPT ![Into(l)] = T]
      OBVIOUS
    <3>3. e \in Database /\ With(e, Seen(l), Into(l), T)
      <4>1. With([Seen(l) EXCEPT ![Into(l)] = T], Seen(l), Into(l), T)
        BY <1>1, <1>2, <3>1, IndexSet
      <4> QED
        BY <3>2, <4>1 DEF With
    <3>4. db' = e /\ txn'[l] = NoTxn
      BY <2>1, <2>3, <3>1, <3>2 DEF Stored
    <3> QED
      BY <1>3, <1>4, <2>1, <3>1, <3>3, <3>4, TidyOn DEF GoesOn, InStaging, At
  <2> QED
    BY <2>2, <2>3
<1>7. CASE Insert(l)
  <2>1. /\ Steps(l) /\ At(l, "insert") /\ loader'[l].at \in {"insert", "commit"}
        /\ loader'[l].existed = loader[l].existed
    BY <1>7, InsertIs DEF InsertsOn, GoesOn
  <2>2. PICK e \in Database, T \in Tables : Wrote(l, e) /\ With(e, Seen(l), Into(l), T)
    BY <1>7, InsertIs
  <2>3. db' \in {db, e} /\ txn'[l] \in {NoTxn, e}
    BY <2>2 DEF Wrote, Stored, Opened
  <2> QED
    BY <1>3, <1>4, <2>1, <2>2, <2>3, TidyOn DEF InStaging, At
<1>8. CASE Commit(l)
  <2>1. /\ Steps(l) /\ At(l, "commit") /\ db' = Seen(l) /\ txn'[l] = NoTxn
        /\ GoesOn(l, IF Staged(l) THEN "promote" ELSE "report")
    BY <1>8, CommitIs DEF Stored
  <2>2. CASE Staged(l)
    BY <1>1, <1>4, <2>1, <2>2, TidyOn DEF GoesOn, InStaging, At
  <2>3. CASE ~Staged(l)
    <3>1. job' = job /\ loader'[l].at = "report" /\ ~Staged(l)' /\ Working(l)
      BY <1>4, <2>1, <2>3 DEF GoesOn, Steps, Staged
    <3>2. Seen(l).old.there => Swaps
      BY <1>1 DEF Seen, Tidy, Companions
    <3>3. job.declares /\ ReadsPaths => Seen(l) = db
      BY DEF ReadsPaths, Base, Holds, Autocommits, Seen
    <3>4. Companions'
      BY <1>1, <2>1, <3>1, <3>2, <3>3 DEF Companions, ReadsPaths, Swaps
    <3>5. Tidy(l)'
      BY <2>1, <3>1 DEF Tidy, InStaging, At
    <3> QED
      BY <2>1, <3>1, <3>4, <3>5, TidyFrame DEF Working, Quiet
  <2> QED
    BY <2>2, <2>3
<1> QED
  BY <1>5, <1>6, <1>7, <1>8

LEMMA TidyPromoting ==
    ASSUME Base, Alone, TidyInv, ~Adding, NEW l \in Loaders,
           \/ LoadFromPath(l) \/ PromoteAtOnce(l) \/ PromoteBySwap(l) \/ Retire(l)
           \/ PromoteTogether(l) \/ Remove(l)
    PROVE  TidyInv'
<1>1. Tidy(l) /\ Companions /\ Seen(l) \in Database /\ ~NoTable.there /\ NoTable \in Tables
  BY SeenTyped, TablesThere DEF TidyInv, Base
<1>2. (Seen(l).old.there => Swaps) /\ (txn[l] = NoTxn => Seen(l) = db)
  BY <1>1 DEF Seen, Tidy, Companions
<1>3. \A step \in {"promote", "copy", "settle", "retire"} :
         At(l, step) => Working(l) /\ loader[l].at \in InStaging \cup {"clear"}
  BY StepsAre DEF InStaging, At
<1>4. CASE LoadFromPath(l)
  <2>1. Steps(l) /\ GoesOn(l, "report") /\ At(l, "read") /\ Native(l) /\ job' = job
    BY <1>4, LoadFromPathIs DEF Steps
  <2>2. PICK R \in [Pieces -> Nat] : Stored(l, [db EXCEPT !.target.rows = R])
    BY <1>4, LoadFromPathIs
  <2>3. PICK e : e = [db EXCEPT !.target.rows = R]
    OBVIOUS
  <2>4. e.stage = db.stage /\ e.old = db.old /\ db' = e /\ txn'[l] = NoTxn
    BY <2>2, <2>3, RowsSet DEF Stored, Base, TablesTyped
  <2>5. ~db.stage.there /\ ~db.old.there
    BY <1>1, <2>1 DEF Native, ReadsPaths, Companions, Swaps
  <2>6. Companions' /\ Tidy(l)'
    BY <2>1, <2>4, <2>5 DEF Companions, Tidy, GoesOn, InStaging, At
  <2> QED
    BY <2>1, <2>6, TidyFrame DEF Quiet, At
<1>5. CASE PromoteAtOnce(l)
  <2>1. /\ Steps(l) /\ At(l, "promote") /\ GoesOn(l, "remove") /\ Staged(l) /\ Autocommits
    BY <1>5, PromoteAtOnceIs
  <2>2. PICK e \in Database : Stored(l, e) /\ e.old = Seen(l).old
    BY <1>5, PromoteAtOnceIs
  <2>3. ~e.old.there /\ db' = e /\ txn'[l] = NoTxn
    BY <1>2, <2>1, <2>2 DEF Stored, Swaps, Autocommits
  <2> QED
    BY <1>3, <2>1, <2>2, <2>3, TidyOn DEF GoesOn, InStaging, At
<1>6. CASE PromoteBySwap(l)
  <2>1. /\ Steps(l) /\ At(l, "promote") /\ GoesOn(l, "retire") /\ Staged(l) /\ Swaps
    BY <1>6, PromoteBySwapIs DEF Swaps
  <2>2. PICK e : e = [target |-> Seen(l).stage, stage |-> NoTable, old |-> Seen(l).target]
    OBVIOUS
  <2>3. e \in Database /\ db' = e /\ txn'[l] = NoTxn
    BY <1>1, <1>6, <2>2, PromoteBySwapIs, FieldsAre DEF Stored, Database
  <2> QED
    BY <1>3, <2>1, <2>3, TidyOn DEF GoesOn, InStaging, At
<1>7. CASE Retire(l)
  <2>1. /\ Steps(l) /\ At(l, "retire") /\ GoesOn(l, "remove") /\ Staged(l)
    BY <1>7, RetireIs
  <2>2. PICK e : e = [Seen(l) EXCEPT !.old = NoTable]
    OBVIOUS
  <2>3. e \in Database /\ db' = e /\ txn'[l] = NoTxn /\ ~e.old.there
    BY <1>1, <1>7, <2>2, RetireIs, TableSet DEF Stored
  <2> QED
    BY <1>3, <2>1, <2>3, TidyOn DEF GoesOn, InStaging, At
<1>8. CASE PromoteTogether(l)
  <2>1. Steps(l) /\ ~Autocommits /\ Staged(l) /\ ~Swaps
    BY <1>8, PromoteTogetherIs DEF PromoteTogether, Swaps
  <2>2. CASE \/ /\ At(l, "promote") /\ GoesOn(l, "copy")
                /\ \E e \in Database : Opened(l, e) /\ e.old = Seen(l).old
             \/ /\ At(l, "copy") /\ GoesOn(l, "settle")
                /\ \E e \in Database : Opened(l, e) /\ e.old = Seen(l).old
    <3>1. PICK e \in Database : Opened(l, e) /\ e.old = Seen(l).old
      BY <2>2
    <3> QED
      BY <1>3, <2>1, <2>2, <3>1, TidyOn DEF Opened, GoesOn, InStaging, At
  <2>3. CASE At(l, "settle") /\ GoesOn(l, "remove") /\ Stored(l, Seen(l))
    BY <1>1, <1>2, <1>3, <2>1, <2>3, TidyOn DEF Stored, GoesOn, InStaging, At
  <2> QED
    BY <1>8, <2>2, <2>3, PromoteTogetherIs
<1>9. CASE Remove(l)
  <2>1. Steps(l) /\ At(l, "remove") /\ Staged(l) /\ job' = job /\ Working(l)
    BY <1>9, RemoveIs, StepsAre DEF Steps
  <2>2. PICK s \in {"report", "fail", "leave"} :
           /\ GoesOn(l, s)
           /\ s = "report" => loader[l].end = "loaded"
           /\ IF Seen(l).stage.there /\ s # "fail" /\ s # "leave"
              THEN Stored(l, [Seen(l) EXCEPT !.stage = NoTable])
              ELSE Kept \/ Stored(l, [Seen(l) EXCEPT !.stage = NoTable])
    BY <1>9, RemoveIs
  <2>3. PICK e : e = [Seen(l) EXCEPT !.stage = NoTable]
    OBVIOUS
  <2>4. e \in Database /\ ~e.stage.there /\ e.old = Seen(l).old
    BY <1>1, <2>3, TableSet
  <2>5. CASE s \in {"fail", "leave"}
    <3>1. Tidy(l)' 
      BY <1>1, <2>1, <2>2, <2>5, <2>3
         DEF Tidy, Kept, Stored, GoesOn, InStaging, At, Swaps
    <3>2. db' = db \/ db' = e
      BY <2>2, <2>3 DEF Kept, Stored
    <3>3. Companions'
      BY <1>1, <1>2, <2>1, <2>4, <3>2 DEF Companions, ReadsPaths, Swaps
    <3> QED
      BY <2>1, <3>1, <3>3, TidyFrame DEF Working, Quiet
  <2>6. CASE s = "report"
    <3>1. txn[l] = NoTxn /\ Seen(l) = db /\ ~db.old.there
      BY <1>1, <2>1, <2>2, <2>6 DEF Base, Holds, Tidy, Seen, At
    <3>2. ~db'.stage.there /\ ~db'.old.there /\ txn'[l] = NoTxn
      BY <2>2, <2>3, <2>4, <2>6, <3>1 DEF Kept, Stored
    <3>3. Companions' /\ Tidy(l)'
      BY <2>1, <2>2, <2>6, <3>2 DEF Companions, Tidy, GoesOn, InStaging, At
    <3> QED
      BY <2>1, <3>3, TidyFrame DEF Working, Quiet
  <2> QED
    BY <2>5, <2>6
<1> QED
  BY <1>4, <1>5, <1>6, <1>7, <1>8, <1>9

LEMMA TidyFirst == ASSUME Init PROVE TidyInv
<1>1. /\ \A l \in Loaders : loader[l] = Fresh /\ txn[l] = NoTxn
      /\ db.stage = NoTable /\ db.old = NoTable /\ ~NoTable.there
  BY TablesThere DEF Init
<1>2. \A l \in Loaders : loader[l].at = "idle"
  BY <1>1 DEF Fresh
<1> QED
  BY <1>1, <1>2 DEF TidyInv, Companions, Tidy, InStaging, At

LEMMA TidyStutters == ASSUME TidyInv, UNCHANGED vars PROVE TidyInv'
BY DEF vars, TidyInv, Adding, Companions, Tidy, Staged, At, ReadsPaths, Swaps

LEMMA TidyStep ==
    ASSUME Base, Alone, TidyInv, NEW l \in Loaders, Step(l)
    PROVE  TidyInv'
<1>1. CASE Adding
  BY <1>1, StepIs DEF TidyInv, Adding, Steps
<1>2. CASE ~Adding
  BY <1>2, TidyIdly, TidyWriting, TidyPromoting DEF Step
<1> QED
  BY <1>1, <1>2

LEMMA TidyAlways == ASSUME InTurn PROVE Spec => []TidyInv
<1>1. Base /\ Alone /\ TidyInv /\ [Next]_vars => TidyInv'
  BY TidyStep, TidyStutters DEF Next
<1> QED
  BY <1>1, TidyFirst, BaseAlways, AloneAlways, PTL DEF Spec

(* Between files nothing stays in an open transaction of the connection    *)
(* that the run shares, whichever loads run side by side.                  *)
LEMMA NothingStaysOpen ==
    Spec => [](\A l \in Loaders : loader[l].at \in Resting => txn[l] = NoTxn)
<1>1. Base => \A l \in Loaders : loader[l].at \in Resting => txn[l] = NoTxn
  BY DEF Base, Holds, Resting
<1> QED
  BY <1>1, BaseAlways, PTL

(* Nor does a load that replaced its destination leave a companion table   *)
(* behind, where those loads take turns (_remove_staging of                *)
(* data_loader.py, replace_table of database_objects.py).                  *)
THEOREM NothingIsHeld == ASSUME InTurn PROVE Spec => []NothingHeldAtRest
<1>1. Base /\ TidyInv /\ (\A l \in Loaders : loader[l].at \in Resting => txn[l] = NoTxn)
        => NothingHeldAtRest
  <2>1. ASSUME TidyInv, NEW l \in Loaders, loader[l].at \in {"report", "route"}, Staged(l)
        PROVE  ~db.stage.there /\ ~db.old.there
    BY <2>1 DEF TidyInv, Tidy, Staged, Adding
  <2> QED
    BY <2>1 DEF NothingHeldAtRest
<1> QED
  BY <1>1, BaseAlways, TidyAlways, NothingStaysOpen, PTL

-----------------------------------------------------------------------------
(* A load that replaces, away from where the code does not keep to it: it   *)
(* is not one a provider reads by itself, as the module's other run shows,  *)
(* and SIGTERM does not reach into the replacement's transaction.           *)

ReadsNoneItself ==
    \A j \in Jobs : ~(j.provider = "duckdb" /\ j.declares /\ j.exists /\ j.policy # "append")
Undisturbed == TerminatedAt \cap {"copy", "settle"} = {}

Replacing == ~Adding /\ ~Piecewise

Holding(table, rows) == table.there /\ table.rows = rows

Standing ==
    /\ ~db.target.there => db.target.rows = Nothing
    /\ Autocommits => db.target.there

(* Beside an existing destination, which stays as it is until the promotion. *)
Aside(l) ==
    LET f == loader[l].file  seen == Seen(l) IN
    /\ At(l, "create") => ~seen.stage.there
    /\ At(l, "insert") =>
          /\ Holding(seen.stage, Upto(f, loader[l].batch - 1))
          /\ ~Autocommits => Holding(db.stage, Nothing)
    /\ loader[l].at \in {"commit", "promote", "copy"} => Holding(seen.stage, Contents[f])
    /\ At(l, "copy") /\ job.policy = "replace" => seen.target.there
    /\ At(l, "settle") => Holding(seen.target, Contents[f])
    /\ loader[l].at \notin {"copy", "settle"} => seen.target = db.target

(* Into a destination that it creates, in a transaction. *)
Straight(l) ==
    LET f == loader[l].file  seen == Seen(l) IN
    /\ ~Autocommits
    /\ loader[l].at \in {"read", "create", "insert", "commit"}
          => db.target.rows = Nothing
    /\ At(l, "insert") => seen.target.rows = Upto(f, loader[l].batch - 1)
    /\ At(l, "commit") => Holding(seen.target, Contents[f])

Replaces(l) == Working(l) => IF Staged(l) THEN Aside(l) ELSE Straight(l)

ReplacesInv == Replacing => Standing /\ \A l \in Loaders : Replaces(l)

(* What the destination's rows come to. *)
RowsGo == \/ db'.target.rows = db.target.rows
          \/ \E f \in Files : db'.target.rows = Contents[f]

LEMMA ReplacesFrame ==
    ASSUME Base, Alone, ReplacesInv, Replacing, NEW l \in Loaders, Steps(l),
           db' = db \/ ~Quiet(l), Standing', Replaces(l)'
    PROVE  ReplacesInv'
<1>1. ASSUME NEW m \in Loaders \ {l}
      PROVE  Replaces(m)'
  <2>1. loader'[m] = loader[m] /\ txn'[m] = txn[m] /\ job' = job /\ Replaces(m)
    BY DEF Steps, OneTxnSet, ReplacesInv
  <2>2. CASE db' = db
    BY <2>1, <2>2 DEF Replaces, Working, Staged, Aside, Straight, Holding, Seen, At, Upto,
                      Autocommits
  <2>3. CASE Quiet(m)
    BY <2>1, <2>3 DEF Replaces, Quiet, Working
  <2> QED
    BY <2>2, <2>3 DEF Alone, Replacing
<1> QED
  BY <1>1 DEF ReplacesInv

(* What a loader sees once it has written. *)
LEMMA SeesNext ==
    ASSUME Base, NEW l \in Loaders, NEW e \in Database
    PROVE  /\ Stored(l, e) => Seen(l)' = e /\ db' = e
           /\ Opened(l, e) => Seen(l)' = e /\ db' = db
           /\ Wrote(l, e) => Seen(l)' = e /\ db' = IF Autocommits THEN e ELSE db
           /\ Defined(l, e) => Seen(l)' = e /\ db' \in {db, e}
           /\ Kept => Seen(l)' = Seen(l) /\ db' = db
           /\ Undone(l) => Seen(l)' = db /\ db' = db
BY NoTxnAssumption DEF Stored, Opened, Wrote, Defined, Kept, Undone, Seen

LEMMA FileRows ==
    ASSUME NEW f \in Files, NEW b \in 1 .. Batches
    PROVE  /\ Upto(f, 0) = Nothing /\ Upto(f, Batches) = Contents[f]
           /\ [Upto(f, b - 1) EXCEPT ![<<f, b>>] = @ + 1] = Upto(f, b)
<1>1. \A A \in [Pieces -> Nat] : Plus(Nothing, A) = A
  BY DEF Plus, Nothing
<1>2. Upto(f, 0) \in [Pieces -> Nat] /\ Upto(f, Batches) \in [Pieces -> Nat]
      /\ Upto(f, b - 1) \in [Pieces -> Nat] /\ Upto(f, b) \in [Pieces -> Nat]
  BY DEF Upto
<1>3. Contents[f] \in [Pieces -> Nat] /\ Nothing \in [Pieces -> Nat]
  BY TablesThere
<1>4. /\ Plus(Nothing, Upto(f, 0)) = Nothing
      /\ [Plus(Nothing, Upto(f, b - 1)) EXCEPT ![<<f, b>>] = @ + 1]
            = Plus(Nothing, Upto(f, b))
      /\ Plus(Nothing, Upto(f, Batches)) = Plus(Nothing, Contents[f])
  BY <1>3, UptoIs
<1> QED
  BY <1>1, <1>2, <1>3, <1>4

LEMMA ReplacingIs ==
    ASSUME Base, ReplacesInv, Replacing, NEW l \in Loaders, Steps(l)
    PROVE  /\ (Staged(l) <=> loader[l].existed) /\ (Autocommits' <=> Autocommits)
           /\ job' = job /\ Standing /\ Replaces(l)
           /\ Autocommits => txn[l] = NoTxn /\ Seen(l) = db
           /\ txn[l] = NoTxn => Seen(l) = db
           /\ \A s \in Resting \cup Loading : GoesOn(l, s) => (Staged(l)' <=> Staged(l))
<1>1. job.policy \in {"append", "replace", "recreate"}
  BY LoadingAssumption DEF Base, FilesTyped, Job
<1> QED
  BY <1>1 DEF Staged, Replacing, Adding, Steps, Autocommits, ReplacesInv, Base, Holds, Seen,
              GoesOn

(* A loader that is through with the tables, whatever it made of its file. *)
LEMMA ReplacesEnds ==
    ASSUME Base, ReplacesInv, Replacing, NEW l \in Loaders, Steps(l), Working(l),
           NEW s \in {"next", "report", "route", "remove", "fail", "leave"}, GoesOn(l, s),
           Staged(l) => (Seen(l).target = db.target)'
    PROVE  Replaces(l)'
<1>1. (Staged(l)' <=> Staged(l)) /\ (Autocommits' <=> Autocommits) /\ loader'[l].at = s
  BY ReplacingIs, StepsAre DEF GoesOn
<1>2. CASE Staged(l)
  BY <1>1, <1>2 DEF Replaces, Aside, At
<1>3. CASE ~Staged(l)
  <2>1. ~Autocommits
    BY <1>3, ReplacingIs DEF Replaces, Straight
  <2> QED
    BY <1>1, <1>3, <2>1 DEF Replaces, Straight, At
<1> QED
  BY <1>2, <1>3

LEMMA ReplacesIdle ==
    ASSUME Base, Alone, ReplacesInv, Replacing, NEW l \in Loaders, Steps(l), db' = db,
           Replaces(l)'
    PROVE  ReplacesInv' /\ RowsGo
<1>1. Standing'
  BY ReplacingIs DEF Standing
<1> QED
  BY <1>1, ReplacesFrame DEF RowsGo

LEMMA ReplacesIdly ==
    ASSUME Undisturbed, Base, Alone, ReplacesInv, Replacing, NEW l \in Loaders,
           \/ Start(l) \/ Take(l) \/ Finish(l) \/ Missing(l) \/ Reject(l) \/ Read(l)
           \/ StatementFails(l) \/ Report(l) \/ RouteLoaded(l) \/ Fail(l)
           \/ Leave(l) \/ Terminate(l) \/ Die(l)
    PROVE  ReplacesInv' /\ RowsGo
<1>1. Steps(l)
  BY StepIs DEF Step
<1>2. /\ (Staged(l) <=> loader[l].existed) /\ (Autocommits' <=> Autocommits)
      /\ job' = job /\ Standing /\ Replaces(l)
      /\ Autocommits => txn[l] = NoTxn /\ Seen(l) = db
      /\ txn[l] = NoTxn => Seen(l) = db
      /\ \A s \in Resting \cup Loading : GoesOn(l, s) => (Staged(l)' <=> Staged(l))
  BY <1>1, ReplacingIs
<1>3. ASSUME ~Working(l)', db' = db
      PROVE  ReplacesInv' /\ RowsGo
  BY <1>1, <1>3, ReplacesIdle DEF Replaces
<1>4. CASE Start(l)
  BY <1>3, <1>4, StartIs DEF Kept, Working, At
<1>5. CASE Finish(l) \/ Missing(l)
  BY <1>3, <1>5, StopIs, EndsFresh DEF Kept, Working, At
<1>6. CASE Reject(l) \/ RouteLoaded(l)
  BY <1>3, <1>6, RejectIs, RouteLoadedIs DEF Kept, GoesOn, Working
<1>7. CASE Fail(l)
  <2>1. Undone(l) /\ (GoesOn(l, "next") \/ Ends(l))
    BY <1>7, FailIs
  <2> QED
    BY <1>3, <2>1, EndsFresh DEF Undone, GoesOn, Working, At
<1>8. CASE Leave(l) \/ Die(l)
  BY <1>3, <1>8, LeaveIs, DieIs, EndsFresh DEF Undone, Working, At
<1>9. CASE Take(l)
  <2>1. Kept /\ txn[l] = NoTxn /\ At(l, "next")
    BY <1>9, TakeIs DEF Base, Holds, At
  <2>2. Seen(l)' = db /\ Seen(l) = db /\ db' = db
    BY <1>2, <2>1, SeenTyped DEF Kept, Seen
  <2>3. CASE At(l, "read")' /\ loader'[l].existed = Seen(l).target.there
    <3>1. Staged(l)' <=> db.target.there
      <4>1. job.policy \in {"replace", "recreate"}
        BY LoadingAssumption DEF Base, FilesTyped, Job, Replacing, Adding
      <4> QED
        BY <1>2, <2>2, <2>3, <4>1 DEF Staged
    <3>2. Replaces(l)'
      BY <1>2, <2>2, <2>3, <3>1 DEF Replaces, Aside, Straight, Standing, At
    <3> QED
      BY <1>1, <2>2, <3>2, ReplacesIdle
  <2>4. CASE At(l, "ended")'
    BY <1>3, <2>2, <2>4 DEF Working, At
  <2> QED
    BY <1>9, <2>3, <2>4, TakeIs
<1>10. CASE Read(l)
  <2>1. /\ Kept /\ At(l, "read") /\ loader[l].batch = 1 /\ txn[l] = NoTxn
        /\ GoesOn(l, IF Staged(l) THEN "clear" ELSE "create") /\ Working(l)
    BY <1>2, <1>10, ReadIs, StepsAre
  <2>2. Seen(l)' = db /\ db' = db
    BY <2>1 DEF Kept, Seen
  <2>3. Staged(l)' <=> Staged(l)
    BY <1>2, <2>1, StepsAre
  <2>4. Replaces(l)'
    BY <1>2, <2>1, <2>2, <2>3 DEF Replaces, Aside, Straight, GoesOn, At
  <2> QED
    BY <1>1, <2>2, <2>4, ReplacesIdle
<1>12. CASE StatementFails(l)
  <2>1. PICK s \in {"remove", "fail", "leave"} : GoesOn(l, s)
    BY <1>12, StatementFailsIs
  <2>2. /\ Undone(l) \/ Kept
        /\ At(l, "copy") => Undone(l)
        /\ ~At(l, "settle") /\ Working(l)
    BY <1>12, StatementFailsIs, StepsAre DEF At, Working
  <2>3. Staged(l) => Seen(l)'.target = db.target
    BY <1>2, <2>2 DEF Undone, Kept, Seen, Replaces, Aside, At
  <2>4. db' = db
    BY <2>2 DEF Undone, Kept
  <2>5. Replaces(l)'
    BY <1>1, <2>1, <2>2, <2>3, <2>4, ReplacesEnds
  <2> QED
    BY <1>1, <2>4, <2>5, ReplacesIdle
<1>13. CASE Report(l)
  <2>1. Kept /\ GoesOn(l, "route") /\ Working(l) /\ At(l, "report")
    BY <1>13, ReportIs, StepsAre
  <2>2. Staged(l) => Seen(l)'.target = db.target
    BY <1>2, <2>1 DEF Kept, Seen, Replaces, Aside, At
  <2>3. db' = db
    BY <2>1 DEF Kept
  <2>4. Replaces(l)'
    BY <1>1, <2>1, <2>2, <2>3, ReplacesEnds
  <2> QED
    BY <1>1, <2>3, <2>4, ReplacesIdle
<1>14. CASE Terminate(l)
  <2>1. PICK s \in {"remove", "fail", "leave"} : GoesOn(l, s)
    BY <1>14, TerminateIs
  <2>2. Kept /\ Working(l) /\ loader[l].at \notin {"copy", "settle"}
    BY <1>14, TerminateIs DEF Undisturbed
  <2>3. Staged(l) => Seen(l)'.target = db.target
    BY <1>2, <2>2 DEF Kept, Seen, Replaces, Aside
  <2>4. db' = db
    BY <2>2 DEF Kept
  <2>5. Replaces(l)'
    BY <1>1, <2>1, <2>2, <2>3, <2>4, ReplacesEnds
  <2> QED
    BY <1>1, <2>4, <2>5, ReplacesIdle
<1> QED
  BY <1>4, <1>5, <1>6, <1>7, <1>8, <1>9, <1>10, <1>12, <1>13, <1>14

(* What comes of a step on the tables. *)
LEMMA ReplacesOn ==
    ASSUME Base, Alone, ReplacesInv, Replacing, NEW l \in Loaders, Steps(l), Working(l),
           Standing', Replaces(l)', RowsGo
    PROVE  ReplacesInv' /\ RowsGo
BY ReplacesFrame DEF Working, Quiet

LEMMA ReplacesCreating ==
    ASSUME Base, Alone, ReplacesInv, Replacing, NEW l \in Loaders, Clear(l) \/ Create(l)
    PROVE  ReplacesInv' /\ RowsGo
<1>1. Steps(l)
  BY ClearIs, CreateIs
<1>2. /\ (Autocommits' <=> Autocommits) /\ job' = job /\ Standing /\ Replaces(l)
      /\ txn[l] = NoTxn => Seen(l) = db
      /\ \A s \in Resting \cup Loading : GoesOn(l, s) => (Staged(l)' <=> Staged(l))
  BY <1>1, ReplacingIs
<1>3. Seen(l) \in Database /\ NoTable \in Tables /\ ~NoTable.there
  BY SeenTyped, TablesThere DEF Base
<1>4. CASE Clear(l)
  <2>1. /\ GoesOn(l, "create") /\ At(l, "clear") /\ txn[l] = NoTxn /\ Working(l)
        /\ Staged(l) /\ Staged(l)'
        /\ IF Seen(l).stage.there THEN Defined(l, [Seen(l) EXCEPT !.stage = NoTable])
           ELSE Kept
    BY <1>2, <1>4, ClearIs, StepsAre
  <2>2. Seen(l) = db
    BY <1>2, <2>1
  <2>3. PICK e : e = [Seen(l) EXCEPT !.stage = NoTable]
    OBVIOUS
  <2>4. e \in Database /\ e.target = db.target /\ ~e.stage.there
    <3>1. /\ [Seen(l) EXCEPT !.stage = NoTable] \in Database
          /\ [Seen(l) EXCEPT !.stage = NoTable].stage = NoTable
          /\ [Seen(l) EXCEPT !.stage = NoTable].target = Seen(l).target
      BY <1>3, TableSet
    <3> QED
      BY <1>3, <2>2, <2>3, <3>1
  <2>5. /\ Seen(l)' = e \/ (Seen(l)' = db /\ ~db.stage.there)
        /\ db' \in {db, e}
    BY <2>1, <2>2, <2>3, <2>4, SeesNext
  <2>6. Replaces(l)'
    BY <2>1, <2>4, <2>5 DEF Replaces, Aside, GoesOn, At
  <2>7. Standing' /\ RowsGo
    BY <1>2, <2>4, <2>5 DEF Standing, RowsGo
  <2> QED
    BY <1>1, <2>1, <2>6, <2>7, ReplacesOn
<1>5. CASE Create(l)
  <2>1. /\ GoesOn(l, "insert") /\ At(l, "create") /\ loader[l].batch = 1 /\ Working(l)
        /\ IF Seen(l)[Into(l)].there THEN Kept
           ELSE Stored(l, [Seen(l) EXCEPT ![Into(l)] = Table(Nothing)])
        /\ (Staged(l)' <=> Staged(l)) /\ loader[l].file \in Files
    BY <1>2, <1>5, CreateIs, StepsAre DEF Base, Stands
  <2>2. Upto(loader[l].file, 0) = Nothing
    <3>1. 1 \in 1 .. Batches
      BY LoadingAssumption
    <3> QED
      BY <2>1, <3>1, FileRows
  <2>3. Upto(loader'[l].file, loader'[l].batch - 1) = Nothing
    <3>1. loader'[l].file = loader[l].file /\ loader'[l].batch - 1 = 0
      BY <2>1 DEF GoesOn
    <3> QED
      BY <2>2, <3>1
  <2>4. PICK T \in Tables : T = Table(Nothing) /\ Holding(T, Nothing)
    BY TablesThere DEF Holding
  <2>5. PICK e : e = [Seen(l) EXCEPT ![Into(l)] = T]
    OBVIOUS
  <2>6. e \in Database /\ With(e, Seen(l), Into(l), T)
    <3>1. With([Seen(l) EXCEPT ![Into(l)] = T], Seen(l), Into(l), T)
      BY <1>3, <2>4, IndexSet, IntoIs
    <3> QED
      BY <2>5, <3>1 DEF With
  <2>7. CASE Staged(l)
    <3>1. Into(l) = "stage" /\ ~Seen(l).stage.there /\ Seen(l).target = db.target
      BY <1>2, <2>1, <2>7 DEF Into, Replaces, Aside, At
    <3>2. db' = e /\ Seen(l)' = e
      BY <1>3, <2>1, <2>4, <2>5, <2>6, <3>1, FieldsAre, SeesNext
    <3>3. e.stage = T /\ e.target = db.target
      BY <1>3, <2>6, <3>1, FieldsAre DEF With, Other
    <3>4. Replaces(l)'
      BY <1>2, <2>1, <2>3, <2>4, <2>7, <3>2, <3>3 DEF Replaces, Aside, GoesOn, At
    <3>5. Standing' /\ RowsGo
      BY <1>2, <3>2, <3>3 DEF Standing, RowsGo
    <3> QED
      BY <1>1, <2>1, <3>4, <3>5, ReplacesOn
  <2>8. CASE ~Staged(l)
    <3>1. /\ Into(l) = "target" /\ ~Autocommits /\ db.target.rows = Nothing
          /\ txn[l] = NoTxn /\ Seen(l) = db
      BY <1>2, <2>1, <2>8 DEF Into, Replaces, Straight, Base, Holds, At
    <3>2. /\ (db' = e /\ Seen(l)' = e) \/ (db' = db /\ Seen(l)' = db)
      BY <1>3, <2>1, <2>4, <2>5, <2>6, <3>1, FieldsAre, SeesNext
    <3>3. e.target = T
      BY <2>6, <3>1, FieldsAre DEF With
    <3>4. Seen(l)'.target.rows = Nothing /\ db'.target.rows = Nothing
      BY <2>4, <3>1, <3>2, <3>3 DEF Holding
    <3>5. Replaces(l)'
      BY <1>2, <2>1, <2>3, <2>8, <3>1, <3>4 DEF Replaces, Straight, GoesOn, At
    <3>6. Standing' /\ RowsGo
      BY <1>2, <3>1, <3>4 DEF Standing, RowsGo
    <3> QED
      BY <1>1, <2>1, <3>5, <3>6, ReplacesOn
  <2> QED
    BY <2>7, <2>8
<1> QED
  BY <1>4, <1>5

LEMMA ReplacesInserting ==
    ASSUME Base, Alone, ReplacesInv, Replacing, NEW l \in Loaders, Insert(l)
    PROVE  ReplacesInv' /\ RowsGo
<1>1. /\ Steps(l) /\ InsertsOn(l) /\ At(l, "insert") /\ Seen(l)[Into(l)].there
      /\ loader[l].batch \in 1 .. Batches /\ loader[l].file \in Files /\ Working(l)
  BY InsertIs, StepsAre
<1>2. PICK e \in Database, T \in Tables :
         /\ Wrote(l, e) /\ With(e, Seen(l), Into(l), T) /\ T.there
         /\ T.rows = [Seen(l)[Into(l)].rows EXCEPT
                         ![<<loader[l].file, loader[l].batch>>] = @ + 1]
  BY InsertIs
<1>3. PICK g \in Files, n \in 1 .. Batches : g = loader[l].file /\ n = loader[l].batch
  BY <1>1
<1>4. /\ (Autocommits' <=> Autocommits) /\ job' = job /\ Standing /\ Replaces(l)
      /\ Autocommits => Seen(l) = db
  BY <1>1, ReplacingIs
<1>5. /\ loader'[l].file = g /\ (Staged(l)' <=> Staged(l))
      /\ IF n = Batches THEN loader'[l].at = "commit"
         ELSE loader'[l].at = "insert" /\ loader'[l].batch = n + 1
  BY <1>1, <1>3, <1>4 DEF InsertsOn, GoesOn, Staged
<1>6. Seen(l)' = e /\ db' = IF Autocommits THEN e ELSE db
  BY <1>2, SeesNext
<1>7. n \in Int /\ (n + 1) - 1 = n
  OBVIOUS
<1>8. /\ [Upto(g, n - 1) EXCEPT ![<<g, n>>] = @ + 1] = Upto(g, n)
      /\ Upto(g, Batches) = Contents[g]
  BY <1>3, FileRows
<1>9. Seen(l)["target"] = Seen(l).target /\ Seen(l)["stage"] = Seen(l).stage
      /\ e["target"] = e.target /\ e["stage"] = e.stage
  BY SeenTyped, FieldsAre DEF Base
<1>10. CASE Staged(l)
  <2>1. /\ Into(l) = "stage" /\ Holding(Seen(l).stage, Upto(g, n - 1))
        /\ Seen(l).target = db.target /\ (~Autocommits => Holding(db.stage, Nothing))
    BY <1>1, <1>3, <1>4, <1>10 DEF Into, Replaces, Aside, At
  <2>2. e.target = db.target /\ Holding(e.stage, Upto(g, n))
    BY <1>2, <1>3, <1>8, <1>9, <2>1 DEF With, Other, Holding
  <2>3. Seen(l)'.target = db'.target
    BY <1>6, <2>2
  <2>4. Replaces(l)'
    <3>1. CASE n = Batches
      BY <1>5, <1>6, <1>8, <1>10, <2>2, <2>3, <3>1 DEF Replaces, Aside, At, Holding
    <3>2. CASE n # Batches
      BY <1>4, <1>5, <1>6, <1>7, <1>10, <2>1, <2>2, <2>3, <3>2
         DEF Replaces, Aside, At, Holding
    <3> QED
      BY <3>1, <3>2
  <2>5. Standing' /\ RowsGo
    BY <1>4, <1>6, <2>2 DEF Standing, RowsGo
  <2> QED
    BY <1>1, <2>4, <2>5, ReplacesOn
<1>11. CASE ~Staged(l)
  <2>1. /\ Into(l) = "target" /\ ~Autocommits /\ Seen(l).target.rows = Upto(g, n - 1)
        /\ db.target.rows = Nothing
    BY <1>1, <1>3, <1>4, <1>11 DEF Into, Replaces, Straight, At
  <2>2. db' = db /\ Holding(e.target, Upto(g, n))
    BY <1>2, <1>3, <1>6, <1>8, <1>9, <2>1 DEF With, Holding
  <2>3. Replaces(l)'
    <3>1. CASE n = Batches
      BY <1>4, <1>5, <1>6, <1>8, <1>11, <2>1, <2>2, <3>1 DEF Replaces, Straight, At, Holding
    <3>2. CASE n # Batches
      BY <1>4, <1>5, <1>6, <1>7, <1>11, <2>1, <2>2, <3>2 DEF Replaces, Straight, At, Holding
    <3> QED
      BY <3>1, <3>2
  <2>4. Standing' /\ RowsGo
    BY <1>4, <2>2 DEF Standing, RowsGo
  <2> QED
    BY <1>1, <2>3, <2>4, ReplacesOn
<1> QED
  BY <1>10, <1>11

LEMMA ReplacesCommitting ==
    ASSUME Base, Alone, ReplacesInv, Replacing, NEW l \in Loaders, Commit(l)
    PROVE  ReplacesInv' /\ RowsGo
<1>1. Steps(l) /\ Working(l) /\ loader[l].file \in Files
  BY CommitIs, StepsAre DEF Base, Stands
<1>2. /\ (Autocommits' <=> Autocommits) /\ job' = job /\ Standing /\ Replaces(l)
      /\ txn[l] = NoTxn => Seen(l) = db
      /\ \A s \in Resting \cup Loading : GoesOn(l, s) => (Staged(l)' <=> Staged(l))
  BY <1>1, ReplacingIs
<1>3. Seen(l) \in Database
  BY SeenTyped DEF Base
<1>4. Seen(l)["target"] = Seen(l).target /\ Seen(l)["stage"] = Seen(l).stage
  BY <1>3, FieldsAre
<1>5. CASE Commit(l)
  <2>1. /\ At(l, "commit") /\ db' = Seen(l) /\ Seen(l)' = Seen(l)
        /\ GoesOn(l, IF Staged(l) THEN "promote" ELSE "report")
    BY <1>3, <1>5, CommitIs, SeesNext
  <2>2. CASE Staged(l)
    <3>1. /\ Holding(Seen(l).stage, Contents[loader[l].file]) /\ Seen(l).target = db.target
      BY <1>1, <1>2, <2>1, <2>2 DEF Replaces, Aside, At
    <3>2. Staged(l)'
      BY <1>2, <2>1, <2>2, StepsAre
    <3>3. Replaces(l)'
      BY <2>1, <2>2, <3>1, <3>2 DEF Replaces, Aside, GoesOn, At
    <3>4. Standing' /\ RowsGo
      BY <1>2, <2>1, <3>1 DEF Standing, RowsGo
    <3> QED
      BY <1>1, <3>3, <3>4, ReplacesOn
  <2>3. CASE ~Staged(l)
    <3>1. Holding(Seen(l).target, Contents[loader[l].file]) /\ ~Autocommits
      BY <1>1, <1>2, <2>1, <2>3 DEF Replaces, Straight, At
    <3>2. Replaces(l)'
      BY <1>1, <2>1, <2>3, ReplacesEnds
    <3>3. Standing' /\ RowsGo
      BY <1>1, <1>2, <2>1, <3>1 DEF Standing, RowsGo, Holding
    <3> QED
      BY <1>1, <3>2, <3>3, ReplacesOn
  <2> QED
    BY <2>2, <2>3
<1> QED
  BY <1>5

(* The promotions: the destination comes to hold the file's rows, at once. *)
LEMMA ReplacesPromoting ==
    ASSUME Base, Alone, ReplacesInv, Replacing, NEW l \in Loaders,
           \/ PromoteAtOnce(l) \/ PromoteBySwap(l) \/ Retire(l) \/ PromoteTogether(l)
           \/ Remove(l)
    PROVE  ReplacesInv' /\ RowsGo
<1>1. Steps(l) /\ Working(l) /\ loader[l].file \in Files /\ Staged(l)
  BY PromoteAtOnceIs, PromoteBySwapIs, RetireIs, PromoteTogetherIs, RemoveIs, StepsAre
     DEF Base, Stands
<1>2. /\ (Autocommits' <=> Autocommits) /\ job' = job /\ Standing /\ Aside(l)
      /\ txn[l] = NoTxn => Seen(l) = db
  BY <1>1, ReplacingIs DEF Replaces
<1>3. Seen(l) \in Database /\ NoTable \in Tables
  BY SeenTyped, TablesThere DEF Base
<1>4. \A s \in Resting \cup Loading : GoesOn(l, s) => Staged(l)'
  BY <1>1, ReplacingIs
<1>5. CASE PromoteAtOnce(l)
  <2>1. /\ At(l, "promote") /\ Autocommits /\ txn[l] = NoTxn /\ GoesOn(l, "remove")
    BY <1>5, PromoteAtOnceIs
  <2>2. PICK e \in Database :
           /\ Stored(l, e) /\ e.target.rows = Seen(l).stage.rows
           /\ e.target.there = IF job.policy = "replace" THEN Seen(l).target.there
                               ELSE Seen(l).stage.there
    BY <1>5, PromoteAtOnceIs
  <2>3. db' = e /\ Seen(l)' = e /\ Holding(Seen(l).stage, Contents[loader[l].file])
    BY <1>2, <2>1, <2>2, SeesNext DEF Aside, At
  <2>4. Standing' /\ RowsGo
    BY <1>1, <1>2, <2>1, <2>2, <2>3 DEF Standing, RowsGo, Holding
  <2>5. Replaces(l)'
    BY <1>1, <2>1, <2>3, ReplacesEnds
  <2> QED
    BY <1>1, <2>4, <2>5, ReplacesOn
<1>6. CASE PromoteBySwap(l)
  <2>1. /\ At(l, "promote") /\ GoesOn(l, "retire") /\ Staged(l)'
    BY <1>4, <1>6, PromoteBySwapIs, StepsAre
  <2>2. PICK e : e = [target |-> Seen(l).stage, stage |-> NoTable, old |-> Seen(l).target]
    OBVIOUS
  <2>3. e \in Database
    BY <1>3, <2>2, FieldsAre DEF Database
  <2>4. /\ db' = e /\ Seen(l)' = e /\ e.target = Seen(l).stage
        /\ Holding(Seen(l).stage, Contents[loader[l].file])
    BY <1>2, <1>6, <2>1, <2>2, <2>3, PromoteBySwapIs, SeesNext DEF Aside, At
  <2>5. Standing' /\ RowsGo
    BY <1>1, <2>4 DEF Standing, RowsGo, Holding
  <2>6. Replaces(l)'
    BY <2>1, <2>4 DEF Replaces, Aside, GoesOn, At
  <2> QED
    BY <1>1, <2>5, <2>6, ReplacesOn
<1>7. CASE Retire(l)
  <2>1. /\ At(l, "retire") /\ txn[l] = NoTxn /\ GoesOn(l, "remove")
        /\ Stored(l, [Seen(l) EXCEPT !.old = NoTable])
    BY <1>7, RetireIs
  <2>2. PICK e : e = [Seen(l) EXCEPT !.old = NoTable]
    OBVIOUS
  <2>3. e \in Database /\ e.target = db.target
    <3>1. [Seen(l) EXCEPT !.old = NoTable] \in Database
          /\ [Seen(l) EXCEPT !.old = NoTable].target = Seen(l).target
      BY <1>3, TableSet
    <3> QED
      BY <1>2, <2>1, <2>2, <3>1
  <2>4. db' = e /\ Seen(l)' = e
    BY <2>1, <2>2, <2>3, SeesNext
  <2>5. Standing' /\ RowsGo
    BY <1>2, <2>3, <2>4 DEF Standing, RowsGo
  <2>6. Replaces(l)'
    BY <1>1, <2>1, <2>4, ReplacesEnds
  <2> QED
    BY <1>1, <2>5, <2>6, ReplacesOn
<1>8. CASE PromoteTogether(l)
  <2>1. ~Autocommits
    BY <1>8, PromoteTogetherIs
  <2>2. CASE /\ At(l, "promote") /\ GoesOn(l, "copy")
             /\ \E e \in Database : /\ Opened(l, e) /\ e.stage = Seen(l).stage
                                    /\ job.policy = "replace" => e.target.there
    <3>1. PICK e \in Database : /\ Opened(l, e) /\ e.stage = Seen(l).stage
                                /\ job.policy = "replace" => e.target.there
      BY <2>2
    <3>2. /\ db' = db /\ Seen(l)' = e /\ Staged(l)'
          /\ Holding(Seen(l).stage, Contents[loader[l].file])
      BY <1>2, <1>4, <2>2, <3>1, SeesNext, StepsAre DEF Aside, At
    <3>3. Standing' /\ RowsGo
      BY <1>2, <3>2 DEF Standing, RowsGo
    <3>4. Replaces(l)'
      BY <1>2, <2>2, <3>1, <3>2 DEF Replaces, Aside, GoesOn, At
    <3> QED
      BY <1>1, <3>3, <3>4, ReplacesOn
  <2>3. CASE /\ At(l, "copy") /\ GoesOn(l, "settle")
             /\ \E e \in Database :
                   /\ Opened(l, e) /\ e.target.rows = Seen(l).stage.rows
                   /\ e.target.there = IF job.policy = "replace" THEN Seen(l).target.there
                                       ELSE Seen(l).stage.there
    <3>1. PICK e \in Database :
             /\ Opened(l, e) /\ e.target.rows = Seen(l).stage.rows
             /\ e.target.there = IF job.policy = "replace" THEN Seen(l).target.there
                                 ELSE Seen(l).stage.there
      BY <2>3
    <3>2. /\ db' = db /\ Seen(l)' = e /\ Staged(l)'
          /\ Holding(Seen(l).stage, Contents[loader[l].file])
          /\ job.policy = "replace" => Seen(l).target.there
      BY <1>2, <1>4, <2>3, <3>1, SeesNext, StepsAre DEF Aside, At
    <3>3. Standing' /\ RowsGo
      BY <1>2, <3>2 DEF Standing, RowsGo
    <3>4. Holding(e.target, Contents[loader[l].file])
      BY <3>1, <3>2 DEF Holding
    <3>5. Replaces(l)'
      BY <2>3, <3>2, <3>4 DEF Replaces, Aside, GoesOn, At
    <3> QED
      BY <1>1, <3>3, <3>5, ReplacesOn
  <2>4. CASE At(l, "settle") /\ GoesOn(l, "remove") /\ Stored(l, Seen(l))
    <3>1. /\ db' = Seen(l) /\ Seen(l)' = Seen(l)
          /\ Holding(Seen(l).target, Contents[loader[l].file])
      BY <1>2, <1>3, <2>4, SeesNext DEF Aside, At
    <3>2. Standing' /\ RowsGo
      BY <1>1, <1>2, <2>1, <3>1 DEF Standing, RowsGo, Holding
    <3>3. Replaces(l)'
      BY <1>1, <2>4, <3>1, ReplacesEnds
    <3> QED
      BY <1>1, <3>2, <3>3, ReplacesOn
  <2>5. \/ /\ At(l, "promote") /\ GoesOn(l, "copy")
           /\ \E e \in Database : /\ Opened(l, e) /\ e.stage = Seen(l).stage
                                  /\ job.policy = "replace" => e.target.there
        \/ /\ At(l, "copy") /\ GoesOn(l, "settle")
           /\ \E e \in Database :
                 /\ Opened(l, e) /\ e.target.rows = Seen(l).stage.rows
                 /\ e.target.there = IF job.policy = "replace" THEN Seen(l).target.there
                                     ELSE Seen(l).stage.there
        \/ At(l, "settle") /\ GoesOn(l, "remove") /\ Stored(l, Seen(l))
    BY <1>8, PromoteTogetherIs
  <2> QED
    BY <2>2, <2>3, <2>4, <2>5
<1>9. CASE Remove(l)
  <2>1. At(l, "remove") /\ Seen(l).target = db.target
    BY <1>2, <1>9, RemoveIs DEF Aside, At
  <2>2. PICK s \in {"report", "fail", "leave"} :
           /\ GoesOn(l, s)
           /\ Kept \/ Stored(l, [Seen(l) EXCEPT !.stage = NoTable])
    BY <1>9, RemoveIs
  <2>3. PICK e : e = [Seen(l) EXCEPT !.stage = NoTable]
    OBVIOUS
  <2>4. e \in Database /\ e.target = db.target
    <3>1. [Seen(l) EXCEPT !.stage = NoTable] \in Database
          /\ [Seen(l) EXCEPT !.stage = NoTable].target = Seen(l).target
      BY <1>3, TableSet
    <3> QED
      BY <2>1, <2>3, <3>1
  <2>5. (db' = db /\ Seen(l)' = Seen(l)) \/ (db' = e /\ Seen(l)' = e)
    BY <2>2, <2>3, <2>4, SeesNext
  <2>6. Standing' /\ RowsGo
    BY <1>2, <2>4, <2>5 DEF Standing, RowsGo
  <2>7. Seen(l)'.target = db'.target
    BY <2>1, <2>5
  <2>8. Replaces(l)'
    BY <1>1, <2>2, <2>7, ReplacesEnds
  <2> QED
    BY <1>1, <2>6, <2>8, ReplacesOn
<1> QED
  BY <1>5, <1>6, <1>7, <1>8, <1>9

LEMMA ReplacesStep ==
    ASSUME ReadsNoneItself, Undisturbed, Base, Alone, ReplacesInv,
           NEW l \in Loaders, Step(l)
    PROVE  ReplacesInv' /\ (Replacing => RowsGo)
<1>1. CASE ~Replacing
  BY <1>1, StepIs DEF ReplacesInv, Replacing, Adding, Piecewise, Autocommits, Steps
<1>2. CASE Replacing
  <2>1. ~LoadFromPath(l)
    <3>1. ASSUME LoadFromPath(l)
          PROVE  FALSE
      <4>1. job.provider = "duckdb" /\ job.declares /\ job.policy # "append" /\ job.exists
        BY <1>2, <3>1, LoadFromPathIs
           DEF Native, ReadsPaths, Replacing, Adding, Piecewise, Autocommits
      <4>2. job \in Jobs
        BY DEF Base, FilesTyped
      <4> QED
        BY <4>1, <4>2 DEF ReadsNoneItself
    <3> QED
      BY <3>1
  <2> QED
    BY <1>2, <2>1, ReplacesIdly, ReplacesCreating, ReplacesInserting, ReplacesCommitting,
       ReplacesPromoting
       DEF Step
<1> QED
  BY <1>1, <1>2

LEMMA ReplacesFirst == ASSUME Init PROVE ReplacesInv
<1>1. \A l \in Loaders : loader[l].at = "idle"
  BY DEF Init, Fresh
<1>2. db.target = IF job.exists THEN Table(Previous) ELSE NoTable
  BY DEF Init
<1>3. Replacing => Standing
  BY <1>2, TablesThere DEF Standing, Replacing, Piecewise
<1> QED
  BY <1>1, <1>3 DEF ReplacesInv, Replaces, Working

LEMMA ReplacesStutters == ASSUME ReplacesInv, UNCHANGED vars PROVE ReplacesInv'
BY DEF vars, ReplacesInv, Replacing, Adding, Piecewise, Standing, Replaces, Aside, Straight,
       Working, Holding, Seen, Staged, At, Upto, Autocommits

LEMMA ReplacesAlways ==
    ASSUME InTurn, ReadsNoneItself, Undisturbed
    PROVE  Spec => []ReplacesInv
<1>1. Base /\ Alone /\ ReplacesInv /\ [Next]_vars => ReplacesInv'
  BY ReplacesStep, ReplacesStutters DEF Next
<1> QED
  BY <1>1, ReplacesFirst, BaseAlways, AloneAlways, PTL DEF Spec

(* A load that adds, in transactions: only a commit brings rows, a file's. *)
LEMMA AddsRows ==
    ASSUME Base, AddsInv, Adding, ~Autocommits, NEW l \in Loaders, Step(l)
    PROVE  \/ db'.target.rows = db.target.rows
           \/ \E f \in Files : db'.target.rows = Plus(db.target.rows, Contents[f])
<1>1. ~(Clear(l) \/ PromoteAtOnce(l) \/ PromoteBySwap(l) \/ Retire(l) \/ PromoteTogether(l)
        \/ Remove(l))
  BY AddingIs DEF Clear, PromoteAtOnce, PromoteBySwap, Retire, PromoteTogether, Remove
<1>2. CASE LoadFromPath(l) \/ Create(l)
  BY <1>2, AddsCreating
<1>3. CASE Start(l) \/ Take(l) \/ Finish(l) \/ Missing(l) \/ Reject(l) \/ Read(l)
  BY <1>3, StartIs, TakeIs, StopIs, RejectIs, ReadIs DEF Kept
<1>4. CASE Fail(l) \/ Leave(l) \/ Die(l)
  BY <1>4, FailIs, LeaveIs, DieIs DEF Undone
<1>5. CASE Report(l) \/ RouteLoaded(l) \/ Terminate(l)
  BY <1>5, ReportIs, RouteLoadedIs, TerminateIs DEF Kept
<1>6. CASE StatementFails(l)
  BY <1>6, StatementFailsIs DEF Kept, Undone
<1>7. CASE Insert(l)
  <2>1. PICK e : Wrote(l, e)
    BY <1>7, InsertIs
  <2> QED
    BY <2>1 DEF Wrote, Opened
<1>8. CASE Commit(l)
  <2>1. At(l, "commit") /\ db' = Seen(l) /\ loader[l].file \in Files /\ Collects(l)
    BY <1>8, CommitIs, StepsAre DEF Stored, Base, Stands, AddsInv
  <2>2. db'.target.rows = Plus(db.target.rows, Contents[loader[l].file])
    BY <2>1 DEF Collects, Inserted, Seen, At
  <2> QED
    BY <2>1, <2>2
<1> QED
  BY <1>1, <1>2, <1>3, <1>4, <1>5, <1>6, <1>7, <1>8 DEF Step

(* The destination as others see it. *)
SeenRows == IF Piecewise THEN Nothing ELSE db.target.rows
Replacement == job.policy # "append"

LEMMA WholeStep ==
    ASSUME Base, AddsInv, [Next]_vars,
           \A l \in Loaders : Step(l) /\ Replacing => RowsGo
    PROVE  [Whole!Next]_<<SeenRows, Replacement>>
<1> USE DEF SeenRows, Replacement
<1>1. CASE UNCHANGED vars
  BY <1>1 DEF vars, Piecewise, Autocommits
<1>2. CASE Next
  <2>1. PICK l \in Loaders : Step(l)
    BY <1>2 DEF Next
  <2>2. job' = job /\ (Piecewise' <=> Piecewise)
    BY <2>1, StepIs DEF Steps, Piecewise, Autocommits
  <2>3. CASE Piecewise
    BY <2>2, <2>3
  <2>4. CASE ~Piecewise /\ Adding
    <3>1. ~Autocommits
      BY <2>4 DEF Piecewise, Adding
    <3>2. \/ db'.target.rows = db.target.rows
          \/ \E f \in Files : db'.target.rows = Plus(db.target.rows, Contents[f])
      BY <2>1, <2>4, <3>1, AddsRows
    <3>3. DOMAIN db.target.rows = Pieces
      BY DEF Base, TablesTyped, Database, Tables
    <3>4. \A f \in Files :
             Plus(db.target.rows, Contents[f]) = Whole!Beside(db.target.rows, Contents[f])
      BY <3>3 DEF Plus, Whole!Beside
    <3>5. CASE db'.target.rows = db.target.rows
      BY <2>2, <3>5
    <3>6. CASE \E f \in Files : db'.target.rows = Plus(db.target.rows, Contents[f])
      <4>1. Whole!Next
        BY <2>2, <2>4, <3>4, <3>6 DEF Whole!Next, Whole!Load, Adding
      <4> QED
        BY <4>1
    <3> QED
      BY <3>2, <3>5, <3>6
  <2>5. CASE Replacing
    <3>1. RowsGo
      BY <2>1, <2>5
    <3>2. CASE db'.target.rows = db.target.rows
      BY <2>2, <3>2
    <3>3. CASE \E f \in Files : db'.target.rows = Contents[f]
      <4>1. Whole!Next
        BY <2>2, <2>5, <3>3 DEF Whole!Next, Whole!Load, Replacing, Adding
      <4> QED
        BY <4>1
    <3> QED
      BY <3>1, <3>2, <3>3 DEF RowsGo
  <2> QED
    BY <2>3, <2>4, <2>5 DEF Replacing
<1> QED
  BY <1>1, <1>2

(* Every step of a load is, for those who look at the destination, a whole *)
(* file coming into it or nothing (replace_rows, replace_table and         *)
(* data_loader.py's docstrings): of loads that replace and loads that add, *)
(* where the replacing ones take turns and the two cases above are set     *)
(* aside.                                                                  *)
THEOREM LoadsAreWhole ==
    ASSUME InTurn, ReadsNoneItself, Undisturbed
    PROVE  Spec => ImplementsWholeLoads
<1>1. Base /\ Alone /\ AddsInv /\ ReplacesInv /\ [Next]_vars
        => [Whole!Next]_<<SeenRows, Replacement>>
  BY ReplacesStep, WholeStep
<1> QED
  BY <1>1, BaseAlways, AloneAlways, AddsAlways, ReplacesAlways, PTL
     DEF Spec, ImplementsWholeLoads, Whole!Spec, SeenRows, Replacement

(* Where every load adds, none of these cases is: files come in whole with *)
(* SIGTERM anywhere, and all of the loaders side by side.                  *)
THEOREM AddedFilesAreWhole ==
    ASSUME \A j \in Jobs : j.policy = "append"
    PROVE  Spec => ImplementsWholeLoads
<1>1. Base => ~Replacing
  BY DEF Base, FilesTyped, Replacing, Adding
<1>2. Base /\ AddsInv /\ [Next]_vars => [Whole!Next]_<<SeenRows, Replacement>>
  BY <1>1, WholeStep
<1> QED
  BY <1>2, BaseAlways, AddsAlways, PTL
     DEF Spec, ImplementsWholeLoads, Whole!Spec, SeenRows, Replacement
================================================================================
