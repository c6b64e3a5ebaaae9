------------------------------ MODULE DataLoading ------------------------------
(***************************************************************************)
(* Loading files into a table: the transfer of one file with its evidence  *)
(* and its movement (rey_lib/load/load_operation.py), the batch around it  *)
(* (load/configured_load.py), the loader with its staging table            *)
(* (db/data_loader.py) and the table's own atomic replacements             *)
(* (db/database_objects.py), on each of the four providers.  None of them  *)
(* is recognised when it refuses a text for its length, so the loader      *)
(* never widens and tries again: such an insert is one that is refused.    *)
(*                                                                         *)
(* A provider's handle commits every statement by itself (PostgreSQL,      *)
(* DuckDB), or works in a transaction that the code commits or rolls back  *)
(* (MySQL, SQL Server); MySQL's DDL commits whatever is open.  Statements  *)
(* wait while another connection's transaction has changed something.      *)
(***************************************************************************)
EXTENDS Integers, FiniteSets

CONSTANTS Files,         \* the files to load
          Batches,       \* how many inserts a file's records travel in
          Jobs,          \* the loads that are looked at
          Loaders,       \* the processes that run the load, once each
          Overlapping,   \* the policies under which they run side by side
          TerminatedAt,  \* where SIGTERM may reach one
          NoTxn          \* no transaction is open

Providers == {"postgres", "duckdb", "mysql", "sqlserver"}

(* A configured load adds each file of its inbox and routes it; a direct   *)
(* one loads the file it is given by its policy.  A source that declares   *)
(* its structure can be read by the provider itself.                       *)
Job == [provider : Providers, kind : {"configured", "direct"},
        policy : {"append", "replace", "recreate"},
        create : BOOLEAN, declares : BOOLEAN, exists : BOOLEAN]

ASSUME LoadingAssumption ==
    /\ Batches \in Nat \ {0}
    /\ IsFiniteSet(Loaders) /\ "before" \notin Files
    /\ Jobs \subseteq Job
    /\ \A j \in Jobs : j.kind = "configured" => j.policy = "append"

VARIABLES
  job,       \* the load
  db,        \* by table: what the database holds, committed
  txn,       \* by loader: the tables as its open transaction sees them
  loader,    \* by loader: where it stands
  place,     \* by file: where it was routed
  reported,  \* by file: how often its rows were reported loaded
  lost       \* files in hand when a loader died

vars == <<job, db, txn, loader, place, reported, lost>>

Before == <<"before", 1>>                   \* a row that was there
Pieces == {Before} \cup (Files \X (1 .. Batches))
Nothing == [p \in Pieces |-> 0]
Contents == [f \in Files |->
                [p \in Pieces |-> IF p[1] = f THEN 1 ELSE 0]]
Previous == [p \in Pieces |-> IF p = Before THEN 1 ELSE 0]
Table(rows) == [there |-> TRUE, rows |-> rows]
NoTable == [there |-> FALSE, rows |-> Nothing]

-----------------------------------------------------------------------------
(* The providers, as the code relies on them.                              *)

Autocommits == job.provider \in {"postgres", "duckdb"}
DDLCommits == job.provider = "mysql"
ReadsPaths == job.provider = "duckdb"

Seen(l) == IF txn[l] = NoTxn THEN db ELSE txn[l]
Unlocked(l) == \A m \in Loaders \ {l} : txn[m] = NoTxn

Committed(l, tables) == db' = tables /\ txn' = [txn EXCEPT ![l] = NoTxn]

Writes(l, tables) ==
    /\ Unlocked(l)
    /\ IF Autocommits THEN Committed(l, tables)
       ELSE txn' = [txn EXCEPT ![l] = tables] /\ UNCHANGED db

Defines(l, tables) ==
    IF DDLCommits THEN Unlocked(l) /\ Committed(l, tables) ELSE Writes(l, tables)

(* Slip: what was done is kept. *)
KeepsPart(l) == Committed(l, Seen(l))

RollsBack(l) == txn' = [txn EXCEPT ![l] = NoTxn] /\ UNCHANGED db

-----------------------------------------------------------------------------
(* Slip: an existing destination is written to at once. *)
NeverStaged(l) == FALSE

(* What is there is not touched until the new rows are safe. *)
Staged(l) == loader[l].existed /\ job.policy \in {"replace", "recreate"}

Into(l) == IF Staged(l) THEN "stage" ELSE "target"

Fresh == [at |-> "idle", pending |-> {}, file |-> Before, existed |-> FALSE,
          batch |-> 1, end |-> "none"]

At(l, step) == loader[l].at = step
Goes(l, step) == loader' = [loader EXCEPT ![l].at = step]
Ends(l) == loader' = [loader EXCEPT ![l] = [Fresh EXCEPT !.at = "ended"]]
evidence == <<job, place, reported, lost>>

Init ==
    /\ job \in Jobs
    /\ db = [target |-> IF job.exists THEN Table(Previous) ELSE NoTable,
             stage |-> NoTable, old |-> NoTable]
    /\ txn = [l \in Loaders |-> NoTxn]
    /\ loader = [l \in Loaders |-> Fresh]
    /\ place = [f \in Files |-> "inbox"]
    /\ reported = [f \in Files |-> 0]
    /\ lost = {}

(* select_files: the inbox as it is found, or the file that was named.  A  *)
(* batch is begun as ConfiguredLoad.load has it and its tests call it; its *)
(* caller load_files gives it an argument it does not take, and raises.    *)
Start(l) ==
    /\ At(l, "idle")
    /\ job.policy \in Overlapping \/
          \A m \in Loaders \ {l} : loader[m].at \in {"idle", "ended"}
    /\ \E S \in SUBSET Files :
          /\ IF job.kind = "direct" THEN Cardinality(S) = 1
             ELSE S = {f \in Files : place[f] = "inbox"}
          /\ loader' = [loader EXCEPT ![l] = [Fresh EXCEPT !.at = "next", !.pending = S]]
    /\ UNCHANGED <<db, txn, evidence>>

(* The destination is asked for once.  Absent and not to be created, every *)
(* file would fail: the run ends.                                          *)
Take(l) ==
    /\ At(l, "next")
    /\ \E f \in loader[l].pending :
          LET there == Seen(l).target.there IN
          IF there \/ job.create
          THEN loader' = [loader EXCEPT ![l] =
                  [Fresh EXCEPT !.at = "read", !.pending = loader[l].pending \ {f},
                                !.file = f, !.existed = there]]
          ELSE Ends(l)
    /\ UNCHANGED <<db, txn, evidence>>

Finish(l) ==
    /\ At(l, "next") /\ loader[l].pending = {}
    /\ Ends(l) /\ UNCHANGED <<db, txn, evidence>>

Here(f) == job.kind = "direct" \/ place[f] = "inbox"

(* The file cannot be read any more, which is no file fault. *)
Missing(l) ==
    /\ At(l, "read") /\ ~Here(loader[l].file)
    /\ Ends(l) /\ UNCHANGED <<db, txn, evidence>>

(* _route_file: moved, where the load moves files, or left: a movement     *)
(* that fails is logged.                                                   *)
Routes(l, to) ==
    \/ UNCHANGED place
    \/ job.kind = "configured" /\ place' = [place EXCEPT ![loader[l].file] = to]

(* _reject_structure, _reject_empty. *)
Reject(l) ==
    /\ At(l, "read") /\ Here(loader[l].file)
    /\ Routes(l, "rejected") /\ Goes(l, "next")
    /\ UNCHANGED <<job, db, txn, reported, lost>>

Native(l) == job.declares /\ loader[l].existed /\ ReadsPaths

(* load_from_path: the provider reads the file. *)
LoadFromPath(l) ==
    /\ At(l, "read") /\ Here(loader[l].file) /\ Native(l)
    /\ Writes(l, [db EXCEPT !.target.rows =
                     [p \in Pieces |-> @[p] + Contents[loader[l].file][p]]])
    /\ Goes(l, "report")
    /\ UNCHANGED evidence

Read(l) ==
    /\ At(l, "read") /\ Here(loader[l].file) /\ ~Native(l)
    /\ Goes(l, IF Staged(l) THEN "clear"
               ELSE IF loader[l].existed THEN "insert" ELSE "create")
    /\ UNCHANGED <<db, txn, evidence>>

-----------------------------------------------------------------------------
(* The loader.                                                             *)

(* A staging table a failed run left behind is dropped. *)
Clear(l) ==
    /\ At(l, "clear")
    /\ IF Seen(l).stage.there THEN Defines(l, [Seen(l) EXCEPT !.stage = NoTable])
       ELSE UNCHANGED <<db, txn>>
    /\ Goes(l, "create")
    /\ UNCHANGED evidence

(* DatabaseTable.create commits, where its provider does not. *)
Create(l) ==
    /\ At(l, "create") /\ Unlocked(l)
    /\ IF Seen(l)[Into(l)].there THEN UNCHANGED <<db, txn>>
       ELSE Committed(l, [Seen(l) EXCEPT ![Into(l)] = Table(Nothing)])
    /\ Goes(l, "insert")
    /\ UNCHANGED evidence

(* One insert of bulk_insert. *)
Insert(l) ==
    LET table == Seen(l)[Into(l)]  p == <<loader[l].file, loader[l].batch>> IN
    /\ At(l, "insert") /\ table.there
    /\ Writes(l, [Seen(l) EXCEPT ![Into(l)].rows[p] = @ + 1])
    /\ IF loader[l].batch = Batches THEN Goes(l, "commit")
       ELSE loader' = [loader EXCEPT ![l].batch = @ + 1]
    /\ UNCHANGED evidence

(* Slip: the rows inserted are not committed. *)
CommitForgotten(l) ==
    /\ At(l, "commit")
    /\ Goes(l, IF Staged(l) THEN "promote" ELSE "report")
    /\ UNCHANGED <<db, txn, evidence>>

Commit(l) ==
    /\ At(l, "commit")
    /\ Committed(l, Seen(l))
    /\ Goes(l, IF Staged(l) THEN "promote" ELSE "report")
    /\ UNCHANGED evidence

-----------------------------------------------------------------------------
(* The table: replace_rows, replace_table.                                 *)

Loads(l, step) == loader' = [loader EXCEPT ![l].at = step, ![l].end = "loaded"]

(* In one statement, or one call that is its own transaction.  Renamed     *)
(* into its place on PostgreSQL, the staging table is gone.                *)
PromoteAtOnce(l) ==
    LET t == Seen(l) IN
    /\ At(l, "promote") /\ Autocommits
    /\ \/ /\ job.policy = "replace"
          /\ Writes(l, [t EXCEPT !.target.rows = t.stage.rows])
       \/ /\ job.policy = "recreate"
          /\ Writes(l, [t EXCEPT !.target = t.stage,
                                 !.stage = IF job.provider = "postgres"
                                           THEN NoTable ELSE t.stage])
    /\ Loads(l, "remove")
    /\ UNCHANGED evidence

(* MySQL renames both tables in one step, and drops the old one after. *)
PromoteBySwap(l) ==
    LET t == Seen(l) IN
    /\ At(l, "promote") /\ job.provider = "mysql" /\ job.policy = "recreate"
    /\ ~t.old.there
    /\ Defines(l, [target |-> t.stage, stage |-> NoTable, old |-> t.target])
    /\ Loads(l, "retire")
    /\ UNCHANGED evidence

Retire(l) ==
    /\ At(l, "retire")
    /\ Defines(l, [Seen(l) EXCEPT !.old = NoTable])
    /\ Goes(l, "remove")
    /\ UNCHANGED evidence

(* _committed_together: removed, copied or renamed, and committed. *)
PromoteTogether(l) ==
    LET t == Seen(l) IN
    /\ ~Autocommits /\ (job.policy = "replace" \/ job.provider = "sqlserver")
    /\ \/ /\ At(l, "promote")
          /\ Writes(l, [t EXCEPT !.target = IF job.policy = "replace"
                                            THEN Table(Nothing) ELSE NoTable])
          /\ Goes(l, "copy")
       \/ /\ At(l, "copy") /\ job.policy = "replace"
          /\ Writes(l, [t EXCEPT !.target.rows = t.stage.rows])
          /\ Goes(l, "settle")
       \/ /\ At(l, "copy") /\ job.policy = "recreate"
          /\ Writes(l, [t EXCEPT !.target = t.stage, !.stage = NoTable])
          /\ Goes(l, "settle")
       \/ /\ At(l, "settle")
          /\ Committed(l, t)
          /\ Loads(l, "remove")
    /\ UNCHANGED evidence

After(l, end) ==
    CASE end = "loaded" -> "report" [] end = "failed" -> "fail" [] OTHER -> "leave"

(* _remove_staging, which commits.  A removal that fails is a fault of its *)
(* own only after a success.                                               *)
Remove(l) ==
    /\ At(l, "remove")
    /\ \/ /\ IF Seen(l).stage.there
             THEN Unlocked(l) /\ Committed(l, [Seen(l) EXCEPT !.stage = NoTable])
             ELSE UNCHANGED <<db, txn>>
          /\ Goes(l, After(l, loader[l].end))
       \/ /\ Seen(l).stage.there
          /\ Goes(l, IF loader[l].end = "loaded" THEN "fail" ELSE After(l, loader[l].end))
          /\ UNCHANGED <<db, txn>>
    /\ UNCHANGED evidence

-----------------------------------------------------------------------------
(* How a file ends.                                                        *)

InStaging == {"create", "insert", "commit", "promote", "copy", "settle", "retire"}

Raises(l, end) ==
    IF Staged(l) /\ loader[l].at \in InStaging
    THEN loader' = [loader EXCEPT ![l].at = "remove", ![l].end = end]
    ELSE Goes(l, After(l, end))

(* A statement is refused.  An insert and a replacement roll back, DuckDB's *)
(* insert raises what the load does not handle.                            *)
StatementFails(l) ==
    /\ loader[l].at \in {"clear", "create", "insert", "promote", "copy", "retire"}
       \/ (At(l, "read") /\ Native(l))
    /\ IF loader[l].at \in {"insert", "promote", "copy"} THEN RollsBack(l)
       ELSE UNCHANGED <<db, txn>>
    /\ Raises(l, IF At(l, "insert") /\ job.provider = "duckdb" THEN "raised" ELSE "failed")
    /\ UNCHANGED evidence

(* log_row_count *)
Report(l) ==
    /\ At(l, "report")
    /\ reported' = [reported EXCEPT ![loader[l].file] = @ + 1]
    /\ Goes(l, "route")
    /\ UNCHANGED <<job, db, txn, place, lost>>

RouteLoaded(l) ==
    /\ At(l, "route")
    /\ Routes(l, "archive") /\ Goes(l, "next")
    /\ UNCHANGED <<job, db, txn, reported, lost>>

(* The handler of DatabaseError: rolled back and routed; a batch goes on,  *)
(* a direct load raises.                                                   *)
Fail(l) ==
    /\ At(l, "fail")
    /\ RollsBack(l)
    /\ Routes(l, "rejected")
    /\ IF job.kind = "configured" THEN Goes(l, "next") ELSE Ends(l)
    /\ UNCHANGED <<job, reported, lost>>

(* The run ends by what is not handled, and its connection with it. *)
Leave(l) ==
    /\ At(l, "leave")
    /\ RollsBack(l) /\ Ends(l)
    /\ UNCHANGED evidence

Working(l) == loader[l].at \notin {"idle", "next", "ended"}

(* SIGTERM raises in the load, and what it unwinds removes the staging.    *)
Terminate(l) ==
    /\ Working(l) /\ loader[l].at \in TerminatedAt
    /\ Raises(l, "terminated")
    /\ lost' = lost \cup {loader[l].file}
    /\ UNCHANGED <<db, txn, job, place, reported>>

Die(l) ==
    /\ Working(l)
    /\ RollsBack(l) /\ Ends(l)
    /\ lost' = lost \cup {loader[l].file}
    /\ UNCHANGED <<job, place, reported>>

Step(l) ==
    \/ Start(l) \/ Take(l) \/ Finish(l) \/ Missing(l) \/ Reject(l) \/ LoadFromPath(l)
    \/ Read(l) \/ Clear(l) \/ Create(l) \/ Insert(l) \/ Commit(l)
    \/ PromoteAtOnce(l) \/ PromoteBySwap(l) \/ Retire(l)
    \/ PromoteTogether(l) \/ Remove(l) \/ StatementFails(l) \/ Report(l)
    \/ RouteLoaded(l) \/ Fail(l) \/ Leave(l) \/ Terminate(l) \/ Die(l)

Next == \E l \in Loaders : Step(l)

Spec == Init /\ [][Next]_vars

-----------------------------------------------------------------------------
Tables == [there : BOOLEAN, rows : [Pieces -> Nat]]
Database == [target : Tables, stage : Tables, old : Tables]
Resting == {"idle", "next", "ended", "read", "report", "route"}
Loading == {"clear", "remove", "fail", "leave"} \cup InStaging

ASSUME NoTxnAssumption == NoTxn \notin Database

(* The types: no batch past the last, only the tables that there can be.   *)
TypeOK ==
    /\ job \in Jobs
    /\ db \in Database
    /\ txn \in [Loaders -> Database \cup {NoTxn}]
    /\ loader \in [Loaders ->
          [at : Resting \cup Loading, pending : SUBSET Files,
           file : Files \cup {Before}, existed : BOOLEAN, batch : 1 .. Batches,
           end : {"none", "loaded", "failed", "raised", "terminated"}]]
    /\ place \in [Files -> {"inbox", "archive", "rejected"}]
    /\ reported \in [Files -> Nat]
    /\ lost \subseteq Files

(* Records that are inserted into the destination itself, by a handle that *)
(* commits every statement, come into it piece by piece.                   *)
Piecewise == Autocommits /\ (job.policy = "append" \/ ~job.exists)

(* The destination as others see it: a file's records come into it all at  *)
(* once and once each, or nothing changes (the docstrings of data_loader   *)
(* and of replace_rows and replace_table), whatever fails, dies, is        *)
(* terminated or runs beside it.                                           *)
Whole == INSTANCE WholeLoads
    WITH rows <- IF Piecewise THEN Nothing ELSE db.target.rows,
         replacing <- job.policy # "append"

ImplementsWholeLoads == Whole!Spec

Counting(f) == Cardinality({l \in Loaders : At(l, "report") /\ loader[l].file = f})

(* Of a load that adds, what was reported loaded is committed; in a        *)
(* transaction nothing is that was not, so a file that failed left nothing *)
(* behind.  And a file in the archive has its records in the table         *)
(* (movements.success), whatever else became of them.                      *)
RowsAreReported ==
    \A f \in Files, b \in 1 .. Batches :
        LET held == db.target.rows[<<f, b>>] IN
        /\ job.policy = "append" =>
              /\ held >= reported[f]
              /\ f \in lost \/ Autocommits \/ held = reported[f] + Counting(f)
        /\ place[f] = "archive" => held > 0

(* Between files nothing stays in an open transaction of the connection    *)
(* that the whole run shares, to be committed or undone with another file; *)
(* and a load that replaced its destination left no companion table.       *)
NothingHeldAtRest ==
    \A l \in Loaders :
        /\ loader[l].at \in Resting => txn[l] = NoTxn
        /\ loader[l].at \in {"report", "route"} /\ Staged(l)
              => ~db.stage.there /\ ~db.old.there

(* Documented of replace_destination and of the staging (data_loader.py):  *)
(* a failure at any point leaves the destination as it was, a success has  *)
(* one file's records in place of what was there.                          *)
ReplacedOrUnchanged ==
    job.exists /\ job.policy # "append" =>
        db.target.rows \in {Previous} \cup {Contents[f] : f \in Files}
================================================================================
