------------------------------ MODULE FtpSync ------------------------------
(***************************************************************************)
(* One FTP connection synchronised by repeated runs of run_sync            *)
(* (rey_lib/ftp/sync_engine.py) over the state of state_manager.py.        *)
(*                                                                         *)
(* A run loads the state file, retries the queue of failed downloads       *)
(* (pass 1), then lists each remote directory and downloads what is new    *)
(* (pass 2), and only at its end writes the state file.  Meanwhile the     *)
(* server's files change, downloads fail, and the run may be cut short     *)
(* anywhere: by the process's death, or by a listing, a connection or a    *)
(* write that raises, none of which run_sync catches.                      *)
(*                                                                         *)
(* A file's version is its modification time; 0 stands for "no file".      *)
(***************************************************************************)
EXTENDS Integers, Sequences, FiniteSets, SequencesExt

CONSTANTS
  Paths,        \* the remote directories of conn.sync.remote_paths, in order: sets of file names
  Globbed,      \* the positions in Paths that a glob pattern stands for
  MaxTime,      \* bound: the latest modification time
  Size,         \* the size of each version (constant: a server that reports none)
  InitialStamp, \* conn.sync.initial_stamp, 0 for none
  MaxFiles,     \* conn.sync.max_files_per_run (more than there are files: no cap)
  MaxRetries,   \* conn.ftp.max_retry_sessions
  Modes,        \* the values of resync that runs are started with
  Faults,       \* bound: downloads and glob listings the network fails
  Aborts,       \* bound: runs cut short
  Tears         \* whether a run may be cut short between truncating a file and writing it

Files == UNION { Paths[i] : i \in DOMAIN Paths }
Times == 1..MaxTime
Times0 == 0..MaxTime

ASSUME PathsAssumption ==
  /\ Paths \in Seq(SUBSET Files) /\ IsFiniteSet(Files)
  /\ Globbed \subseteq DOMAIN Paths
  /\ \A i, j \in DOMAIN Paths : i # j => Paths[i] \cap Paths[j] = {}
ASSUME NumbersAssumption ==
  /\ MaxTime \in Nat \ {0} /\ InitialStamp \in Times0
  /\ MaxFiles \in Nat /\ MaxRetries \in Nat /\ Faults \in Nat /\ Aborts \in Nat
ASSUME ChoicesAssumption ==
  /\ Size \in [Times -> Nat]
  /\ Modes \in SUBSET BOOLEAN /\ Modes # {}
  /\ Tears \in BOOLEAN

VARIABLES
  remote,    \* the server's files
  local,     \* the mirror under conn.sync.local_destination: the whole copy held, 0 if none
  disk,      \* the state file
  diskOk,    \* whether it can be read
  failed,    \* the failed file's records
  failedOk,  \* whether it can be read
  phase,     \* where the run stands
  state,     \* the run's state dict
  cut,       \* last_stamp: the run's cutoff
  todo,      \* what is left of the pass's list
  path,      \* the directory to be listed next
  pulled,    \* len(all_downloaded)
  item,      \* the entry being downloaded
  faults, aborts, \* what is left of the bounds
  got,       \* history: the newest version ever downloaded whole
  owed       \* history: failures a finished run queued, not downloaded or abandoned since

env == <<remote, faults, aborts>>
files == <<disk, diskOk, failed, failedOk>>
run == <<state, cut, todo, path, pulled, item>>
vars == <<remote, local, disk, diskOk, failed, failedOk, phase, state, cut, todo, path,
          pulled, item, faults, aborts, got, owed>>

----------------------------------------------------------------------------
(* The state dict and its operations.                                      *)

Entry == [file : Files, modified : Times, count : Nat]
EmptyState == [recorded |-> [f \in Files |-> 0], stamp |-> 0, queue |-> <<>>]
NoItem == [modified |-> 0]

Queued(s) == { s.queue[i].file : i \in DOMAIN s.queue }

\* What is not of f, in the order it had.
Dequeued(q, f) ==
  LET kept == { i \in DOMAIN q : q[i].file # f }
      Place(i) == Cardinality({ j \in kept : j <= i })
  IN [k \in 1..Cardinality(kept) |-> q[CHOOSE i \in kept : Place(i) = k]]

\* record_downloaded: the mark only ever advances.
Recorded(s, e) ==
  [s EXCEPT !.recorded[e.file] = e.modified,
            !.stamp = IF e.modified > @ THEN e.modified ELSE @]

\* remove_from_retry_queue.
Removed(s, f) == [s EXCEPT !.queue = Dequeued(@, f)]

\* add_to_retry_queue: to the back, with the count it had.
Requeued(s, e) ==
  LET counts == { s.queue[i].count : i \in { j \in DOMAIN s.queue : s.queue[j].file = e.file } }
      count == IF counts = {} THEN 1 ELSE CHOOSE c \in counts : TRUE
  IN [s EXCEPT !.queue = Append(Dequeued(@, e.file), [e EXCEPT !.count = count])]

\* increment_retry_count.
Incremented(s, f) ==
  LET q == s.queue
  IN [s EXCEPT !.queue = [i \in DOMAIN q |-> IF q[i].file = f THEN [q[i] EXCEPT !.count = @ + 1]
                                             ELSE q[i]]]

Count(s, f) == s.queue[CHOOSE i \in DOMAIN s.queue : s.queue[i].file = f].count

\* is_new_or_updated.
NewOrUpdated(s, f) == remote[f] > s.recorded[f]

Remaining == IF MaxFiles > pulled THEN MaxFiles - pulled ELSE 0

----------------------------------------------------------------------------
Init ==
  /\ remote = [f \in Files |-> 0]
  /\ local = [f \in Files |-> 0]
  /\ disk = EmptyState /\ diskOk = TRUE
  /\ failed = <<>> /\ failedOk = TRUE
  /\ phase = "idle" /\ state = EmptyState
  /\ cut = 0 /\ todo = <<>> /\ path = 1 /\ pulled = 0 /\ item = NoItem
  /\ faults = Faults /\ aborts = Aborts
  /\ got = [f \in Files |-> 0] /\ owed = {}

(* The server: a file appears with any modification time, an update of it  *)
(* with a later one.                                                       *)
Upload(f) ==
  /\ \E t \in Times : t > remote[f] /\ remote' = [remote EXCEPT ![f] = t]
  /\ UNCHANGED <<local, files, phase, run, faults, aborts, got, owed>>

\* run_sync: load_state raises when the file cannot be read.
Start(resync) ==
  /\ phase = "idle" /\ diskOk
  /\ phase' = "retrying"
  /\ state' = disk
  /\ todo' = disk.queue
  /\ cut' = CASE resync         -> 0
              [] disk.stamp > 0 -> disk.stamp
              [] OTHER          -> InitialStamp
  /\ UNCHANGED <<env, local, files, path, pulled, item, got, owed>>

----------------------------------------------------------------------------
(* Pass 1, _retry_failed.                                                  *)

\* Opening the local file for writing is the end of the copy it held.
Begin(e, next) ==
  /\ item' = e
  /\ local' = [local EXCEPT ![e.file] = 0]
  /\ phase' = next

\* As it would be with the limit's test after the download.
RetryPastCap ==
  /\ phase = "retrying" /\ todo # <<>> /\ pulled <= MaxFiles
  /\ Begin(Head(todo), "recovering")
  /\ todo' = Tail(todo)
  /\ UNCHANGED <<env, files, state, cut, path, pulled, got, owed>>

Retry ==
  /\ phase = "retrying" /\ todo # <<>> /\ pulled < MaxFiles
  /\ Begin(Head(todo), "recovering")
  /\ todo' = Tail(todo)
  /\ UNCHANGED <<env, files, state, cut, path, pulled, got, owed>>

RetriesDone ==
  /\ phase = "retrying" /\ (todo = <<>> \/ pulled >= MaxFiles)
  /\ phase' = "scanning" /\ todo' = <<>>
  /\ UNCHANGED <<env, local, files, state, cut, path, pulled, item, got, owed>>

\* download_file compares what arrived with the size that was listed.
Verified(e) == Size[remote[e.file]] = Size[e.modified]

Downloaded(e) ==
  /\ Verified(e)
  /\ local' = [local EXCEPT ![e.file] = remote[e.file]]
  /\ got' = [got EXCEPT ![e.file] = remote[e.file]]
  /\ owed' = owed \ {e.file}
  /\ pulled' = pulled + 1
  /\ item' = NoItem

\* The mismatch, or a network fault.
DownloadFails(e) ==
  /\ \/ ~Verified(e) /\ UNCHANGED faults
     \/ faults > 0 /\ faults' = faults - 1
  /\ UNCHANGED <<remote, aborts, local, files, cut, todo, path, pulled, got, owed>>

Recover ==
  /\ phase = "recovering" /\ Downloaded(item)
  /\ state' = Removed(Recorded(state, item), item.file)
  /\ phase' = "retrying"
  /\ UNCHANGED <<env, files, cut, todo, path>>

ExhaustedLate(s, f) == Count(s, f) > MaxRetries
Exhausted(s, f) == Count(s, f) >= MaxRetries

\* As it would be if an entry left the queue when it is taken up.
RetryFailsDequeued ==
  /\ phase = "recovering" /\ DownloadFails(item)
  /\ state' = Removed(state, item.file)
  /\ phase' = "retrying" /\ item' = NoItem

RetryFails ==
  /\ phase = "recovering" /\ DownloadFails(item)
  /\ state' = Incremented(state, item.file)
  /\ IF Exhausted(state', item.file)
     THEN phase' = "abandoning" /\ item' = item
     ELSE phase' = "retrying" /\ item' = NoItem

(* abandon_to_failed_file: the entry leaves the queue, the failed file is  *)
(* read (raising, and ending the run, if it cannot be), truncated, and     *)
(* then written.                                                           *)
Abandon ==
  /\ phase = "abandoning" /\ failedOk
  /\ state' = Removed(state, item.file)
  /\ failedOk' = FALSE
  /\ phase' = "recording"
  /\ UNCHANGED <<env, local, disk, diskOk, failed, cut, todo, path, pulled, item, got, owed>>

\* As it would be if the failed file were not read before it is written.
RecordFailedAlone ==
  /\ phase = "recording"
  /\ failed' = << [file |-> item.file, modified |-> item.modified] >>
  /\ failedOk' = TRUE
  /\ owed' = owed \ {item.file}
  /\ phase' = "retrying" /\ item' = NoItem
  /\ UNCHANGED <<env, local, disk, diskOk, state, cut, todo, path, pulled, got>>

RecordFailed ==
  /\ phase = "recording"
  /\ failed' = Append(failed, [file |-> item.file, modified |-> item.modified])
  /\ failedOk' = TRUE
  /\ owed' = owed \ {item.file}
  /\ phase' = "retrying" /\ item' = NoItem
  /\ UNCHANGED <<env, local, disk, diskOk, state, cut, todo, path, pulled, got>>

----------------------------------------------------------------------------
(* Pass 2, _sync_path for each directory.                                  *)

Candidates ==
  { f \in Paths[path] : remote[f] > cut /\ NewOrUpdated(state, f) }

\* The first so many of the listing, which comes in no particular order.
Capped(S) ==
  LET limit == IF Cardinality(S) < Remaining THEN Cardinality(S) ELSE Remaining
  IN { T \in SUBSET S : Cardinality(T) = limit }

List ==
  /\ phase = "scanning" /\ path <= Len(Paths) /\ Remaining > 0
  /\ \E T \in Capped(Candidates) : \E l \in SetToSeqs(T) :
       todo' = [i \in DOMAIN l |-> [file |-> l[i], modified |-> remote[l[i]], count |-> 1]]
  /\ path' = path + 1
  /\ phase' = "pulling"
  /\ UNCHANGED <<env, local, files, state, cut, pulled, item, got, owed>>

\* _expand_remote_paths leaves out a pattern whose parent it cannot list.
Skip ==
  /\ phase = "scanning" /\ path \in Globbed /\ faults > 0
  /\ faults' = faults - 1
  /\ path' = path + 1
  /\ UNCHANGED <<remote, aborts, local, files, phase, state, cut, todo, pulled, item, got, owed>>

\* As it would be if the file were recorded before it is downloaded.
PullRecordsFirst ==
  /\ phase = "pulling" /\ todo # <<>>
  /\ Begin(Head(todo), "fetching")
  /\ todo' = Tail(todo)
  /\ state' = Recorded(state, Head(todo))
  /\ UNCHANGED <<env, files, cut, path, pulled, got, owed>>

Pull ==
  /\ phase = "pulling" /\ todo # <<>>
  /\ Begin(Head(todo), "fetching")
  /\ todo' = Tail(todo)
  /\ UNCHANGED <<env, files, state, cut, path, pulled, got, owed>>

Fetch ==
  /\ phase = "fetching" /\ Downloaded(item)
  /\ state' = Recorded(state, item)
  /\ phase' = "pulling"
  /\ UNCHANGED <<env, files, cut, todo, path>>

\* As it would be if a failure were recorded like a success.
FetchFailsForgotten ==
  /\ phase = "fetching" /\ DownloadFails(item)
  /\ state' = Recorded(state, item)
  /\ phase' = "pulling" /\ item' = NoItem

FetchFails ==
  /\ phase = "fetching" /\ DownloadFails(item)
  /\ state' = Requeued(state, item)
  /\ phase' = "pulling" /\ item' = NoItem

PathDone ==
  /\ phase = "pulling" /\ todo = <<>>
  /\ phase' = "scanning"
  /\ UNCHANGED <<env, local, files, run, got, owed>>

----------------------------------------------------------------------------
(* The end of a run: save_state truncates the state file, then writes it.  *)

Idle ==
  /\ phase' = "idle" /\ state' = EmptyState
  /\ cut' = 0 /\ todo' = <<>> /\ path' = 1 /\ pulled' = 0 /\ item' = NoItem

OpenState ==
  /\ phase = "scanning" /\ (path > Len(Paths) \/ Remaining = 0)
  /\ phase' = "writing" /\ diskOk' = FALSE
  /\ UNCHANGED <<env, local, disk, failed, failedOk, run, got, owed>>

WriteState ==
  /\ phase = "writing"
  /\ disk' = state /\ diskOk' = TRUE
  /\ owed' = owed \cup Queued(state)
  /\ Idle
  /\ UNCHANGED <<env, local, failed, failedOk, got>>

\* The failed file cannot be read: StateError out of the run.
AbandonRaises ==
  /\ phase = "abandoning" /\ ~failedOk
  /\ Idle
  /\ UNCHANGED <<env, local, files, got, owed>>

\* The process dies, or a listing, the connection or a write raises.
Abort ==
  /\ phase # "idle" /\ aborts > 0
  /\ Tears \/ phase \notin {"recording", "writing"}
  /\ aborts' = aborts - 1
  /\ Idle
  /\ UNCHANGED <<remote, faults, local, files, got, owed>>

Run ==
  \/ \E resync \in Modes : Start(resync)
  \/ Retry \/ RetriesDone \/ Recover \/ RetryFails \/ Abandon \/ RecordFailed \/ AbandonRaises
  \/ List \/ Skip \/ Pull \/ Fetch \/ FetchFails \/ PathDone
  \/ OpenState \/ WriteState

Next == Run \/ Abort \/ \E f \in Files : Upload(f)

Spec == Init /\ [][Next]_vars

\* Runs are started again and again and each goes on; nothing makes the
\* server change, the network fail or a run be cut short.
FairSpec == Spec /\ WF_vars(Run)

----------------------------------------------------------------------------
(* Properties.                                                             *)

TypeOK ==
  /\ remote \in [Files -> Times0] /\ local \in [Files -> Times0] /\ got \in [Files -> Times0]
  /\ \A s \in {disk, state} :
       /\ s.recorded \in [Files -> Times0] /\ s.stamp \in Times0 /\ s.queue \in Seq(Entry)
  /\ diskOk \in BOOLEAN /\ failedOk \in BOOLEAN
  /\ failed \in Seq([file : Files, modified : Times])
  /\ phase \in {"idle", "retrying", "recovering", "abandoning", "recording", "scanning",
                "pulling", "fetching", "writing"}
  /\ cut \in Times0 /\ todo \in Seq(Entry) /\ path \in 1..Len(Paths) + 1 /\ pulled \in Nat
  /\ item \in Entry \cup {NoItem}
  /\ faults \in 0..Faults /\ aborts \in 0..Aborts
  /\ owed \subseteq Files

(* No version is recorded that was not downloaded whole at some time, in   *)
(* whatever order updates, failures and cut-short runs come                *)
(* (_download_one records after download_file returns).                    *)
RecordedWasDownloaded ==
  \A f \in Files : state.recorded[f] <= got[f] /\ disk.recorded[f] <= got[f]

(* A failure that a finished run has queued stays queued in the state file *)
(* across any later run, finished or cut short, until the file is          *)
(* downloaded or entered in the failed file, as long as the state file can *)
(* be read at all.                                                         *)
OwedIsQueued == phase = "idle" /\ diskOk => owed \subseteq Queued(disk)

(* No file is queued twice, and none is queued that used up its sessions:  *)
(* pass 1 and pass 2 edit the same queue, each by file name.               *)
QueuedOnce ==
  \A i, j \in DOMAIN disk.queue :
    /\ disk.queue[i].file = disk.queue[j].file => i = j
    /\ disk.queue[i].count = 1 \/ disk.queue[i].count < MaxRetries

(* The two passes and all directories together download no more than the   *)
(* run's cap.                                                              *)
CapKept == pulled <= MaxFiles

(* Between runs a file the state calls downloaded is held, or the next     *)
(* resync run will fetch it, or it is queued, or the failed file names it. *)
Reported ==
  phase = "idle" /\ diskOk /\ failedOk =>
    \A f \in Files :
      \/ disk.recorded[f] = 0 \/ local[f] # 0
      \/ NewOrUpdated(disk, f)
      \/ f \in Queued(disk)
      \/ \E i \in DOMAIN failed : failed[i].file = f

(* The same without the failed file: no file is taken for downloaded that  *)
(* is neither held nor going to be fetched.                                *)
HeldOrFetched ==
  phase = "idle" =>
    \A f \in Files :
      disk.recorded[f] = 0 \/ local[f] # 0 \/ NewOrUpdated(disk, f) \/ f \in Queued(disk)

(* Where runs are repeated in resync mode and no file fails in as many     *)
(* sessions as it is given, the mirror comes to hold the server's files.   *)
EverythingArrives == <>[](local = remote)
=============================================================================
