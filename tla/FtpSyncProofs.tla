----------------------------- MODULE FtpSyncProofs -----------------------------
(***************************************************************************)
(* Proofs about FtpSync, for any number of directories, files, versions,   *)
(* failures and runs cut short, whatever the cap and the limit of retries. *)
(***************************************************************************)
EXTENDS FtpSync, FiniteSetTheorems, TLAPS

-----------------------------------------------------------------------------
(* Queues. *)

(* What a queue holds, and that no file is in it twice. *)
Entries(q) == { q[i] : i \in DOMAIN q }
Once(q) == \A i, j \in DOMAIN q : q[i].file = q[j].file => i = j

(* The place of each of some positions of a queue among them. *)
Places(S) == [i \in S |-> Cardinality({j \in S : j <= i})]

(* Each has one of its own, from the first to as many as there are.        *)
LEMMA PlacesFill ==
    ASSUME NEW n \in Nat, NEW S \in SUBSET (1 .. n)
    PROVE  /\ Cardinality(S) \in Nat
           /\ \A i \in S : Places(S)[i] \in 1 .. Cardinality(S)
           /\ \A i, j \in S : Places(S)[i] = Places(S)[j] => i = j
           /\ \A k \in 1 .. Cardinality(S) : \E i \in S : Places(S)[i] = k
<1> DEFINE m == Cardinality(S)
           r == Places(S)
           Upto(i) == {j \in S : j <= i}
<1>1. IsFiniteSet(S) /\ m \in Nat
  <2>1. IsFiniteSet(1 .. n)
    BY FS_Interval
  <2> QED
    BY <2>1, FS_Subset, FS_CardinalityType
<1>2. \A i \in S : /\ Upto(i) \in SUBSET S /\ i \in Upto(i)
                   /\ IsFiniteSet(Upto(i)) /\ Cardinality(Upto(i)) \in Nat
                   /\ Cardinality(Upto(i)) <= m /\ Cardinality(Upto(i)) # 0
  <2> TAKE i \in S
  <2>1. Upto(i) \in SUBSET S /\ i \in Upto(i)
    OBVIOUS
  <2> HIDE DEF Upto
  <2>2. IsFiniteSet(Upto(i)) /\ Cardinality(Upto(i)) <= m
    BY <1>1, <2>1, FS_Subset
  <2> QED
    BY <2>1, <2>2, FS_CardinalityType, FS_EmptySet
<1>3. \A i \in S : r[i] \in 1 .. m
  BY <1>1, <1>2 DEF Places
<1>4. ASSUME NEW i \in S, NEW j \in S, i < j PROVE r[i] # r[j]
  <2>1. Upto(i) \in SUBSET Upto(j) /\ Upto(i) # Upto(j)
    <3>1. \A h \in S : h \in Int
      OBVIOUS
    <3>2. \A h \in S : h <= i => h <= j
      BY <1>4, <3>1
    <3>3. j \in Upto(j) /\ j \notin Upto(i)
      BY <1>4, <3>1
    <3> QED
      BY <3>2, <3>3
  <2>2. r[i] = Cardinality(Upto(i)) /\ r[j] = Cardinality(Upto(j))
    BY DEF Places
  <2> HIDE DEF Upto
  <2> QED
    BY <1>2, <2>1, <2>2, FS_Subset
<1>5. \A i, j \in S : r[i] = r[j] => i = j
  <2>1. \A i, j \in S : i = j \/ i < j \/ j < i
    OBVIOUS
  <2> QED
    BY <1>4, <2>1
<1>6. r \in Injection(S, 1 .. m)
  BY <1>3, <1>5 DEF Injection, IsInjective, Places
<1>7. IsFiniteSet(1 .. m) /\ Cardinality(1 .. m) = m
  BY <1>1, FS_Interval
<1>8. r \in Surjection(S, 1 .. m)
  BY <1>6, <1>7, FS_Injection
<1> QED
  BY <1>1, <1>3, <1>5, <1>8 DEF Surjection

(* Taking a file out of a queue leaves the rest of it, in order. *)
LEMMA DequeuedIs ==
    ASSUME NEW q \in Seq(Entry), NEW f
    PROVE  /\ Dequeued(q, f) \in Seq(Entry)
           /\ Entries(Dequeued(q, f)) = {e \in Entries(q) : e.file # f}
           /\ Once(q) => Once(Dequeued(q, f))
<1> DEFINE S == {i \in DOMAIN q : q[i].file # f}
           r == Places(S)
           at == [k \in 1 .. Cardinality(S) |-> CHOOSE i \in S : Cardinality({j \in S : j <= i}) = k]
           d == Dequeued(q, f)
<1>1. DOMAIN q = 1 .. Len(q) /\ Len(q) \in Nat /\ S \in SUBSET (1 .. Len(q))
  OBVIOUS
<1>2. /\ Cardinality(S) \in Nat
      /\ \A i \in S : r[i] \in 1 .. Cardinality(S)
      /\ \A i, j \in S : r[i] = r[j] => i = j
      /\ \A k \in 1 .. Cardinality(S) : \E i \in S : r[i] = k
  <2> HIDE DEF S
  <2> QED
    BY <1>1, PlacesFill
<1>3. \A k \in 1 .. Cardinality(S) : at[k] \in S /\ r[at[k]] = k
  <2> TAKE k \in 1 .. Cardinality(S)
  <2>1. \E i \in S : Cardinality({j \in S : j <= i}) = k
    BY <1>2 DEF Places
  <2>2. at[k] \in S /\ Cardinality({j \in S : j <= at[k]}) = k
    BY <2>1
  <2> QED
    BY <2>2 DEF Places
<1>4. d = [k \in 1 .. Cardinality(S) |-> q[at[k]]]
  BY DEF Dequeued
<1> HIDE DEF r, at
<1>5. \A i \in S : r[i] \in 1 .. Cardinality(S) /\ at[r[i]] = i
  <2> HIDE DEF S
  <2> QED
    BY <1>2, <1>3
<1>8. d \in Seq(Entry) /\ DOMAIN d = 1 .. Cardinality(S)
  BY <1>2, <1>3, <1>4
<1>9. Entries(d) = {e \in Entries(q) : e.file # f}
  <2>1. ASSUME NEW e \in Entries(d) PROVE e \in Entries(q) /\ e.file # f
    <3>1. PICK k \in DOMAIN d : e = d[k]
      BY DEF Entries
    <3> QED
      BY <1>3, <1>4, <1>8, <3>1 DEF Entries
  <2>2. ASSUME NEW e \in Entries(q), e.file # f PROVE e \in Entries(d)
    <3>1. PICK i \in DOMAIN q : e = q[i]
      BY DEF Entries
    <3>2. i \in S
      BY <2>2, <3>1
    <3>3. r[i] \in DOMAIN d /\ d[r[i]] = e
      BY <1>4, <1>5, <1>8, <3>1, <3>2
    <3> QED
      BY <3>3 DEF Entries
  <2> QED
    BY <2>1, <2>2
<1>10. ASSUME Once(q) PROVE Once(d)
  <2> SUFFICES ASSUME NEW k \in DOMAIN d, NEW h \in DOMAIN d, d[k].file = d[h].file
               PROVE  k = h
    BY DEF Once
  <2>1. at[k] \in S /\ at[h] \in S /\ d[k] = q[at[k]] /\ d[h] = q[at[h]]
    BY <1>3, <1>4, <1>8
  <2>2. at[k] = at[h]
    BY <1>10, <2>1 DEF Once
  <2> QED
    BY <1>3, <1>8, <2>2
<1> QED
  BY <1>8, <1>9, <1>10

(* What goes to the back of a queue. *)
LEMMA AppendedIs ==
    ASSUME NEW q \in Seq(Entry), NEW e \in Entry
    PROVE  /\ Append(q, e) \in Seq(Entry)
           /\ Entries(Append(q, e)) = Entries(q) \cup {e}
           /\ Once(q) /\ (\A x \in Entries(q) : x.file # e.file) => Once(Append(q, e))
<1> DEFINE a == Append(q, e)
<1>1. /\ a \in Seq(Entry) /\ Len(a) = Len(q) + 1 /\ DOMAIN a = 1 .. Len(q) + 1
      /\ a[Len(q) + 1] = e /\ DOMAIN q = 1 .. Len(q) /\ Len(q) \in Nat
      /\ \A i \in 1 .. Len(q) : a[i] = q[i]
  OBVIOUS
<1> HIDE DEF a
<1>2. Entries(a) = Entries(q) \cup {e}
  <2>1. \A i \in DOMAIN a : i \in DOMAIN q \/ i = Len(q) + 1
    BY <1>1
  <2>2. \A i \in DOMAIN q : i \in DOMAIN a
    BY <1>1
  <2>3. Len(q) + 1 \in DOMAIN a
    BY <1>1
  <2> QED
    BY <1>1, <2>1, <2>2, <2>3 DEF Entries
<1>3. ASSUME Once(q), \A x \in Entries(q) : x.file # e.file PROVE Once(a)
  <2>1. \A i \in DOMAIN q : q[i].file # e.file
    BY <1>3 DEF Entries
  <2> QED
    BY <1>1, <1>3, <2>1 DEF Once
<1> QED
  BY <1>1, <1>2, <1>3 DEF a

(* What is taken from the front of a queue. *)
LEMMA TakenIs ==
    ASSUME NEW q \in Seq(Entry), q # <<>>
    PROVE  /\ Tail(q) \in Seq(Entry) /\ Len(Tail(q)) = Len(q) - 1 /\ Len(q) > 0
           /\ Head(q) \in Entry /\ Head(q) \in Entries(q)
           /\ Entries(Tail(q)) \subseteq Entries(q)
           /\ Once(q) => /\ Once(Tail(q))
                         /\ \A e \in Entries(Tail(q)) : e.file # Head(q).file
<1>1. /\ Tail(q) \in Seq(Entry) /\ Len(Tail(q)) = Len(q) - 1 /\ Len(q) > 0 /\ Len(q) \in Nat
      /\ DOMAIN q = 1 .. Len(q) /\ DOMAIN Tail(q) = 1 .. Len(q) - 1
      /\ Head(q) = q[1] /\ 1 \in DOMAIN q
      /\ \A i \in 1 .. Len(q) - 1 : Tail(q)[i] = q[i + 1] /\ i + 1 \in DOMAIN q
  OBVIOUS
<1>2. Entries(Tail(q)) \subseteq Entries(q) /\ Head(q) \in Entries(q) /\ Head(q) \in Entry
  BY <1>1 DEF Entries
<1>3. Once(q) => Once(Tail(q)) /\ \A e \in Entries(Tail(q)) : e.file # Head(q).file
  BY <1>1 DEF Entries, Once
<1> QED
  BY <1>1, <1>2, <1>3


-----------------------------------------------------------------------------
(* The state dict. *)

Dict == [recorded : [Files -> Times0], stamp : Times0, queue : Seq(Entry)]

LEMMA Numbers ==
    /\ MaxTime \in Nat /\ InitialStamp \in Times0 /\ MaxFiles \in Nat /\ MaxRetries \in Nat
    /\ Faults \in Nat /\ Aborts \in Nat
    /\ Times \subseteq Nat /\ Times0 \subseteq Nat /\ Times \subseteq Times0 /\ 0 \in Times0
    /\ \A t \in Times : t > 0
BY NumbersAssumption DEF Times, Times0

(* An empty queue. *)
LEMMA NoEntries ==
    /\ <<>> \in Seq(Entry) /\ Entries(<<>>) = {} /\ Once(<<>>) /\ Len(<<>>) = 0
BY DEF Entries, Once

(* A run that is over, or has not begun, has nothing in its state. *)
LEMMA EmptyIs ==
    /\ EmptyState \in Dict /\ EmptyState.queue = <<>>
    /\ EmptyState.recorded = [f \in Files |-> 0]
BY NoEntries, Numbers DEF EmptyState, Dict

(* The files queued. *)
LEMMA QueuedIs ==
    ASSUME NEW s \in Dict
    PROVE  /\ Queued(s) = {e.file : e \in Entries(s.queue)}
           /\ Queued(s) \subseteq Files
           /\ Entries(s.queue) \subseteq Entry
<1>1. s.queue \in Seq(Entry) /\ \A i \in DOMAIN s.queue : s.queue[i] \in Entry
  BY DEF Dict
<1>2. Entries(s.queue) \subseteq Entry
  BY <1>1 DEF Entries
<1>3. Queued(s) = {e.file : e \in Entries(s.queue)}
  BY DEF Queued, Entries
<1> QED
  BY <1>2, <1>3 DEF Entry

(* record_downloaded leaves the queue alone. *)
LEMMA RecordedIs ==
    ASSUME NEW s \in Dict, NEW e \in Entry
    PROVE  /\ Recorded(s, e) \in Dict
           /\ Recorded(s, e).queue = s.queue
           /\ Recorded(s, e).recorded = [s.recorded EXCEPT ![e.file] = e.modified]
BY Numbers DEF Recorded, Dict, Entry

(* remove_from_retry_queue takes out what is queued of the file only. *)
LEMMA RemovedIs ==
    ASSUME NEW s \in Dict, NEW f
    PROVE  /\ Removed(s, f) \in Dict
           /\ Removed(s, f).recorded = s.recorded
           /\ Entries(Removed(s, f).queue) = {e \in Entries(s.queue) : e.file # f}
           /\ Queued(Removed(s, f)) = Queued(s) \ {f}
           /\ Once(s.queue) => Once(Removed(s, f).queue)
<1>1. s.queue \in Seq(Entry)
  BY DEF Dict
<1>2. Removed(s, f) \in Dict /\ Removed(s, f).recorded = s.recorded
      /\ Removed(s, f).queue = Dequeued(s.queue, f)
  BY <1>1, DequeuedIs DEF Removed, Dict
<1>3. Queued(Removed(s, f)) = Queued(s) \ {f}
  BY <1>1, <1>2, DequeuedIs, QueuedIs
<1> QED
  BY <1>1, <1>2, <1>3, DequeuedIs

(* add_to_retry_queue: one entry of the file, with the count it had or 1.  *)
LEMMA RequeuedIs ==
    ASSUME NEW s \in Dict, NEW e \in Entry
    PROVE  /\ Requeued(s, e) \in Dict
           /\ Requeued(s, e).recorded = s.recorded
           /\ \E n \in Nat :
                 /\ Entries(Requeued(s, e).queue) =
                       {x \in Entries(s.queue) : x.file # e.file} \cup {[e EXCEPT !.count = n]}
                 /\ n = 1 \/ \E x \in Entries(s.queue) : x.count = n
           /\ Queued(Requeued(s, e)) = Queued(s) \cup {e.file}
           /\ Once(s.queue) => Once(Requeued(s, e).queue)
<1> DEFINE counts == {s.queue[i].count : i \in {j \in DOMAIN s.queue : s.queue[j].file = e.file}}
           n == IF counts = {} THEN 1 ELSE CHOOSE c \in counts : TRUE
           x == [e EXCEPT !.count = n]
           d == Dequeued(s.queue, e.file)
<1>1. s.queue \in Seq(Entry)
  BY DEF Dict
<1>2. \A c \in counts : c \in Nat /\ \E y \in Entries(s.queue) : y.count = c
  <2>1. \A j \in DOMAIN s.queue : s.queue[j] \in Entries(s.queue) /\ s.queue[j].count \in Nat
    <3>1. \A j \in DOMAIN s.queue : s.queue[j] \in Entry
      BY <1>1
    <3> QED
      BY <3>1 DEF Entries, Entry
  <2> QED
    BY <2>1
<1>3. n \in Nat /\ (n = 1 \/ \E y \in Entries(s.queue) : y.count = n)
  <2>1. n = 1 \/ n \in counts
    OBVIOUS
  <2> HIDE DEF n, counts
  <2> QED
    BY <1>2, <2>1
<1> HIDE DEF n
<1>4. x \in Entry /\ x.file = e.file
  BY <1>3 DEF Entry
<1>5. d \in Seq(Entry) /\ Entries(d) = {y \in Entries(s.queue) : y.file # e.file}
      /\ (Once(s.queue) => Once(d))
  BY <1>1, DequeuedIs
<1>6. /\ Append(d, x) \in Seq(Entry) /\ Entries(Append(d, x)) = Entries(d) \cup {x}
      /\ Once(s.queue) => Once(Append(d, x))
  BY <1>4, <1>5, AppendedIs
<1>7. Requeued(s, e) = [s EXCEPT !.queue = Append(d, x)]
  BY DEF Requeued, n
<1>8. /\ Requeued(s, e) \in Dict /\ Requeued(s, e).recorded = s.recorded
      /\ Requeued(s, e).queue = Append(d, x)
  BY <1>6, <1>7 DEF Dict
<1>9. Queued(Requeued(s, e)) = Queued(s) \cup {e.file}
  <2>1. /\ Queued(Requeued(s, e)) = {y.file : y \in Entries(d) \cup {x}}
        /\ Queued(s) = {y.file : y \in Entries(s.queue)}
    BY <1>6, <1>8, QueuedIs
  <2> HIDE DEF d, x
  <2> QED
    BY <1>4, <1>5, <2>1
<1> QED
  BY <1>3, <1>5, <1>6, <1>8, <1>9

(* increment_retry_count changes counts only. *)
LEMMA IncrementedIs ==
    ASSUME NEW s \in Dict, NEW f
    PROVE  /\ Incremented(s, f) \in Dict
           /\ Incremented(s, f).recorded = s.recorded
           /\ DOMAIN Incremented(s, f).queue = DOMAIN s.queue
           /\ \A i \in DOMAIN s.queue :
                 Incremented(s, f).queue[i] =
                    IF s.queue[i].file = f
                    THEN [s.queue[i] EXCEPT !.count = @ + 1] ELSE s.queue[i]
           /\ Queued(Incremented(s, f)) = Queued(s)
           /\ Once(s.queue) => Once(Incremented(s, f).queue)
<1> DEFINE q == s.queue
           next == [i \in DOMAIN q |-> IF q[i].file = f THEN [q[i] EXCEPT !.count = @ + 1]
                                       ELSE q[i]]
<1>1. q \in Seq(Entry) /\ DOMAIN q = 1 .. Len(q) /\ Len(q) \in Nat
  BY DEF Dict
<1>2. \A i \in DOMAIN q : next[i] \in Entry /\ next[i].file = q[i].file
  <2>1. \A e \in Entry : /\ [e EXCEPT !.count = @ + 1] \in Entry
                         /\ [e EXCEPT !.count = @ + 1].file = e.file
    BY DEF Entry
  <2>2. \A i \in DOMAIN q : q[i] \in Entry
    BY <1>1
  <2> QED
    BY <2>1, <2>2
<1>3. next \in Seq(Entry) /\ DOMAIN next = DOMAIN q
  <2>1. next \in [1 .. Len(q) -> Entry]
    BY <1>1, <1>2
  <2> HIDE DEF next
  <2> QED
    BY <1>1, <2>1
<1>4. /\ Incremented(s, f) \in Dict /\ Incremented(s, f).recorded = s.recorded
      /\ Incremented(s, f).queue = next
  <2>1. Incremented(s, f) = [s EXCEPT !.queue = next]
    BY DEF Incremented
  <2> HIDE DEF next
  <2> QED
    BY <1>3, <2>1 DEF Dict
<1>5. Queued(Incremented(s, f)) = Queued(s)
  <2> HIDE DEF next
  <2> QED
    BY <1>2, <1>3, <1>4 DEF Queued
<1>6. Once(q) => Once(next)
  BY <1>2, <1>3 DEF Once
<1> QED
  BY <1>4, <1>5, <1>6

-----------------------------------------------------------------------------
(* Types. *)

(* A file is being downloaded, or given up. *)
Under == {"recovering", "abandoning", "recording", "fetching"}

OutsideOK ==
    /\ remote \in [Files -> Times0] /\ local \in [Files -> Times0] /\ got \in [Files -> Times0]
    /\ faults \in 0..Faults /\ aborts \in 0..Aborts /\ owed \subseteq Files

FilesOK ==
    /\ disk \in Dict /\ diskOk \in BOOLEAN /\ failedOk \in BOOLEAN
    /\ failed \in Seq([file : Files, modified : Times])

RunOK ==
    /\ phase \in {"idle", "retrying", "scanning", "pulling", "writing"} \cup Under
    /\ state \in Dict /\ cut \in Times0 /\ todo \in Seq(Entry)
    /\ path \in 1..Len(Paths) + 1 /\ pulled \in Nat /\ item \in Entry \cup {NoItem}
    /\ phase \in Under => item \in Entry

TypeInv == OutsideOK /\ FilesOK /\ RunOK

(* The directories are a list, of files. *)
LEMMA DirectoriesAre ==
    /\ Len(Paths) \in Nat /\ DOMAIN Paths = 1 .. Len(Paths)
    /\ \A i \in DOMAIN Paths : Paths[i] \subseteq Files
    /\ IsFiniteSet(Files)
BY PathsAssumption DEF Files

(* Before the first run there is nothing. *)
LEMMA TypeInit == Init => TypeInv
BY Numbers, EmptyIs, NoEntries, DirectoriesAre
   DEF Init, TypeInv, OutsideOK, FilesOK, RunOK, Under

(* What a directory's list is: newer versions than recorded, no more than  *)
(* the cap leaves.                                                         *)
LEMMA ListedIs ==
    ASSUME TypeInv, List
    PROVE  /\ todo' \in Seq(Entry) /\ Len(todo') <= Remaining
           /\ \A e \in Entries(todo') :
                 e.modified = remote[e.file] /\ remote[e.file] > state.recorded[e.file]
                 /\ e.count = 1
<1>1. PICK T \in Capped(Candidates) : \E l \in SetToSeqs(T) :
         todo' = [i \in DOMAIN l |-> [file |-> l[i], modified |-> remote[l[i]], count |-> 1]]
  BY DEF List
<1>2. PICK l \in SetToSeqs(T) :
         todo' = [i \in DOMAIN l |-> [file |-> l[i], modified |-> remote[l[i]], count |-> 1]]
  BY <1>1
<1>3. Candidates \subseteq Files /\ IsFiniteSet(Candidates)
  <2>1. path \in DOMAIN Paths
    BY DirectoriesAre DEF TypeInv, RunOK, List
  <2>2. Candidates \subseteq Files
    BY <2>1, DirectoriesAre DEF Candidates
  <2> QED
    BY <2>2, DirectoriesAre, FS_Subset
<1>4. Remaining \in Nat
  BY Numbers DEF Remaining, TypeInv, RunOK
<1>5. T \subseteq Candidates /\ Cardinality(T) \in Nat /\ Cardinality(T) <= Remaining
  <2>1. Cardinality(Candidates) \in Nat
    BY <1>3, FS_CardinalityType
  <2> QED
    BY <1>4, <2>1 DEF Capped
<1>6. l \in [1 .. Cardinality(T) -> T]
  BY DEF SetToSeqs
<1>7. \A f \in Candidates : remote[f] > state.recorded[f] /\ remote[f] \in Times
  BY <1>3, Numbers DEF Candidates, NewOrUpdated, TypeInv, OutsideOK, RunOK, Times, Times0
<1>8. \A i \in DOMAIN l : todo'[i] \in Entry
  BY <1>2, <1>3, <1>5, <1>6, <1>7 DEF Entry
<1>9. todo' \in [1 .. Cardinality(T) -> Entry]
  BY <1>2, <1>6, <1>8
<1>10. todo' \in Seq(Entry) /\ Len(todo') = Cardinality(T) /\ DOMAIN todo' = 1 .. Cardinality(T)
  BY <1>5, <1>9
<1>11. \A i \in DOMAIN todo' :
          todo'[i].modified = remote[todo'[i].file] /\ todo'[i].file \in Candidates
          /\ todo'[i].count = 1
  BY <1>2, <1>5, <1>6
<1> QED
  BY <1>5, <1>7, <1>10, <1>11 DEF Entries

(* Taking up an entry of the list. *)
LEMMA TakesUp ==
    ASSUME TypeInv, Retry \/ Pull
    PROVE  /\ item' = Head(todo) /\ item' \in Entry /\ item' \in Entries(todo)
           /\ todo' = Tail(todo) /\ todo' \in Seq(Entry)
           /\ Entries(todo') \subseteq Entries(todo)
           /\ Len(todo') = Len(todo) - 1 /\ Len(todo) > 0 /\ Len(todo) \in Nat
           /\ local' = [local EXCEPT ![item'.file] = 0]
           /\ Once(todo) => /\ Once(todo')
                            /\ \A e \in Entries(todo') : e.file # item'.file
<1>1. todo \in Seq(Entry) /\ todo # <<>>
  BY DEF TypeInv, RunOK, Retry, Pull
<1>2. item' = Head(todo) /\ todo' = Tail(todo) /\ local' = [local EXCEPT ![item'.file] = 0]
  BY DEF Retry, Pull, Begin
<1> QED
  BY <1>1, <1>2, TakenIs

(* A download that arrives is what the server holds. *)
LEMMA ArrivesIs ==
    ASSUME TypeInv, Recover \/ Fetch
    PROVE  /\ item \in Entry /\ item.file \in Files /\ item.modified \in Times
           /\ local' = [local EXCEPT ![item.file] = remote[item.file]]
           /\ got' = [got EXCEPT ![item.file] = remote[item.file]]
           /\ owed' = owed \ {item.file} /\ pulled' = pulled + 1
           /\ UNCHANGED <<env, files, cut, todo, path>>
BY DEF TypeInv, RunOK, Recover, Fetch, Downloaded, Under, Entry

(* The end of a run leaves nothing of it. *)
LEMMA IdleIs ==
    ASSUME Idle
    PROVE  RunOK' /\ state' = EmptyState /\ phase' = "idle" /\ todo' = <<>> /\ pulled' = 0
BY EmptyIs, NoEntries, Numbers, DirectoriesAre DEF Idle, RunOK, Under

(* Every step keeps the types. *)
LEMMA TypeStep == TypeInv /\ [Next]_vars => TypeInv'
<1> SUFFICES ASSUME TypeInv, [Next]_vars PROVE TypeInv'
  OBVIOUS
<1> USE DEF TypeInv
<1>1. CASE UNCHANGED vars
  BY <1>1 DEF vars, OutsideOK, FilesOK, RunOK
<1>2. CASE \E f \in Files : Upload(f)
  BY <1>2, Numbers DEF Upload, files, run, OutsideOK, FilesOK, RunOK
<1>3. CASE Abort
  BY <1>3, IdleIs, Numbers DEF Abort, files, OutsideOK, FilesOK
<1>4. ASSUME NEW resync \in Modes, Start(resync) PROVE TypeInv'
  <2>1. disk.queue \in Seq(Entry) /\ disk.stamp \in Times0
    BY DEF FilesOK, Dict
  <2> QED
    BY <1>4, <2>1, Numbers DEF Start, env, files, OutsideOK, FilesOK, RunOK, Under
<1>5. CASE Retry
  <2>1. item'.file \in Files
    BY <1>5, TakesUp DEF Entry
  <2> QED
    BY <1>5, <2>1, TakesUp, Numbers DEF Retry, Begin, env, files, OutsideOK, FilesOK, RunOK, Under
<1>6. CASE RetriesDone
  BY <1>6, NoEntries DEF RetriesDone, env, files, OutsideOK, FilesOK, RunOK, Under
<1>7. CASE Recover
  <2>1. state' \in Dict
    BY <1>7, ArrivesIs, RecordedIs, RemovedIs DEF Recover, RunOK
  <2> QED
    BY <1>7, <2>1, ArrivesIs DEF Recover, Downloaded, env, files, OutsideOK, FilesOK, RunOK, Under
<1>8. CASE RetryFails
  <2>1. item \in Entry /\ state' \in Dict
    BY <1>8, IncrementedIs DEF RetryFails, RunOK, Under
  <2>2. faults' \in 0 .. Faults
    BY <1>8, Numbers DEF RetryFails, DownloadFails, OutsideOK
  <2> QED
    BY <1>8, <2>1, <2>2 DEF RetryFails, DownloadFails, files, OutsideOK, FilesOK, RunOK, Under
<1>9. CASE Abandon
  <2>1. state' \in Dict
    BY <1>9, RemovedIs DEF Abandon, RunOK
  <2> QED
    BY <1>9, <2>1 DEF Abandon, env, OutsideOK, FilesOK, RunOK, Under
<1>10. CASE RecordFailed
  <2>1. [file |-> item.file, modified |-> item.modified] \in [file : Files, modified : Times]
    BY <1>10 DEF RecordFailed, RunOK, Under, Entry
  <2>2. failed' \in Seq([file : Files, modified : Times])
    BY <1>10, <2>1 DEF RecordFailed, FilesOK
  <2> QED
    BY <1>10, <2>2 DEF RecordFailed, env, OutsideOK, FilesOK, RunOK, Under
<1>11. CASE AbandonRaises
  BY <1>11, IdleIs DEF AbandonRaises, env, files, OutsideOK, FilesOK
<1>12. CASE List
  <2>1. path' \in 1 .. Len(Paths) + 1
    BY <1>12, DirectoriesAre DEF List, RunOK
  <2> QED
    BY <1>12, <2>1, ListedIs DEF List, env, files, OutsideOK, FilesOK, RunOK, Under
<1>13. CASE Skip
  <2>1. path' \in 1 .. Len(Paths) + 1
    BY <1>13, DirectoriesAre, PathsAssumption DEF Skip, RunOK
  <2>2. faults' \in 0 .. Faults
    BY <1>13, Numbers DEF Skip, OutsideOK
  <2> QED
    BY <1>13, <2>1, <2>2 DEF Skip, files, OutsideOK, FilesOK, RunOK, Under
<1>14. CASE Pull
  <2>1. item'.file \in Files
    BY <1>14, TakesUp DEF Entry
  <2> QED
    BY <1>14, <2>1, TakesUp, Numbers DEF Pull, Begin, env, files, OutsideOK, FilesOK, RunOK, Under
<1>15. CASE Fetch
  <2>1. state' \in Dict
    BY <1>15, ArrivesIs, RecordedIs DEF Fetch, RunOK
  <2> QED
    BY <1>15, <2>1, ArrivesIs DEF Fetch, Downloaded, env, files, OutsideOK, FilesOK, RunOK, Under
<1>16. CASE FetchFails
  <2>1. item \in Entry /\ state' \in Dict
    BY <1>16, RequeuedIs DEF FetchFails, RunOK, Under
  <2>2. faults' \in 0 .. Faults
    BY <1>16, Numbers DEF FetchFails, DownloadFails, OutsideOK
  <2> QED
    BY <1>16, <2>1, <2>2 DEF FetchFails, DownloadFails, files, OutsideOK, FilesOK, RunOK, Under
<1>17. CASE PathDone \/ OpenState
  BY <1>17 DEF PathDone, OpenState, env, files, run, OutsideOK, FilesOK, RunOK, Under
<1>18. CASE WriteState
  <2>1. owed' \subseteq Files
    BY <1>18, QueuedIs DEF WriteState, RunOK, OutsideOK
  <2> QED
    BY <1>18, <2>1, IdleIs DEF WriteState, env, OutsideOK, FilesOK, RunOK
<1> QED
  BY <1>1, <1>2, <1>3, <1>4, <1>5, <1>6, <1>7, <1>8, <1>9, <1>10, <1>11, <1>12, <1>13,
     <1>14, <1>15, <1>16, <1>17, <1>18 DEF Next, Run

(* Whatever the server and the network do, every variable keeps its type.  *)
THEOREM TypeCorrect == Spec => []TypeOK
<1>1. TypeInv => TypeOK
  BY DEF TypeInv, OutsideOK, FilesOK, RunOK, Under, TypeOK, Dict
<1> QED
  BY <1>1, TypeInit, TypeStep, PTL DEF Spec

-----------------------------------------------------------------------------
(* The cap: what is listed, under way and done stay within it together.    *)
CapInv ==
    /\ pulled <= MaxFiles
    /\ phase = "recovering" => pulled < MaxFiles
    /\ phase = "pulling" => pulled + Len(todo) <= MaxFiles
    /\ phase = "fetching" => pulled + Len(todo) < MaxFiles

(* Each pass takes up no more than the cap leaves. *)
LEMMA CapStep == TypeInv /\ CapInv /\ [Next]_vars => CapInv'
<1> SUFFICES ASSUME TypeInv, CapInv, [Next]_vars PROVE CapInv'
  OBVIOUS
<1>t. /\ pulled \in Nat /\ MaxFiles \in Nat /\ Len(todo) \in Nat
      /\ phase \in {"idle", "retrying", "scanning", "pulling", "writing"} \cup Under
  BY Numbers DEF TypeInv, RunOK
<1>1. CASE Retry
  BY <1>1, <1>t DEF Retry, Begin, CapInv
<1>2. CASE Pull
  BY <1>2, <1>t, TakesUp DEF Pull, Begin, CapInv
<1>3. CASE Recover
  BY <1>3, <1>t, ArrivesIs DEF Recover, CapInv
<1>4. CASE Fetch
  BY <1>4, <1>t, ArrivesIs DEF Fetch, CapInv
<1>5. CASE RetryFails \/ FetchFails
  BY <1>5, <1>t DEF RetryFails, FetchFails, DownloadFails, CapInv
<1>6. CASE List
  <2>1. Len(todo') <= MaxFiles - pulled /\ Len(todo') \in Nat
    BY <1>6, <1>t, ListedIs DEF Remaining, List
  <2> QED
    BY <1>6, <1>t, <2>1 DEF List, CapInv
<1>7. CASE Idle
  BY <1>7, <1>t DEF Idle, CapInv
<1>8. CASE \/ UNCHANGED vars \/ RetriesDone \/ Skip \/ PathDone \/ OpenState \/ Abandon
           \/ RecordFailed \/ (\E f \in Files : Upload(f)) \/ \E resync \in Modes : Start(resync)
  BY <1>8, <1>t DEF vars, run, RetriesDone, Skip, PathDone, OpenState, Abandon,
     RecordFailed, Upload, Start, CapInv
<1> QED
  BY <1>1, <1>2, <1>3, <1>4, <1>5, <1>6, <1>7, <1>8
     DEF Next, Run, AbandonRaises, WriteState, Abort

(* Retries and all directories together download no more than the cap. *)
THEOREM CapIsKept == Spec => []CapKept
<1>1. Init => CapInv
  BY Numbers DEF Init, CapInv
<1>2. CapInv => CapKept
  BY DEF CapInv, CapKept
<1> QED
  BY <1>1, <1>2, TypeInit, TypeStep, CapStep, PTL DEF Spec

-----------------------------------------------------------------------------
(* Versions: what is listed, queued, under way or recorded is no newer     *)
(* than what the server holds, and what is recorded was downloaded.        *)

Past(q) == \A e \in Entries(q) : e.modified <= remote[e.file]

VersionInv ==
    /\ Past(state.queue) /\ Past(disk.queue) /\ Past(todo)
    /\ phase \in Under => item.modified <= remote[item.file]
    /\ \A f \in Files : got[f] <= remote[f]
    /\ RecordedWasDownloaded

(* A download brings the server's version, which is no older than the one  *)
(* listed and recorded.                                                    *)
LEMMA VersionArrives ==
    ASSUME TypeInv, VersionInv, Recover \/ Fetch
    PROVE  VersionInv'
<1>1. /\ item \in Entry /\ item.file \in Files /\ item.modified \in Times /\ phase \in Under
      /\ got' = [got EXCEPT ![item.file] = remote[item.file]]
      /\ UNCHANGED <<remote, disk, todo>> /\ phase' \notin Under
  BY ArrivesIs DEF Recover, Fetch, Under, env, files
<1>2. /\ state \in Dict /\ disk \in Dict /\ remote \in [Files -> Times0] /\ got \in [Files -> Times0]
      /\ \A s \in {state, disk} : s.recorded \in [Files -> Times0]
  BY DEF TypeInv, RunOK, FilesOK, OutsideOK, Dict
<1>3. /\ state'.recorded = [state.recorded EXCEPT ![item.file] = item.modified]
      /\ Entries(state'.queue) \subseteq Entries(state.queue)
  <2>1. Recorded(state, item) \in Dict /\ Recorded(state, item).queue = state.queue
        /\ Recorded(state, item).recorded = [state.recorded EXCEPT ![item.file] = item.modified]
    BY <1>1, <1>2, RecordedIs
  <2> DEFINE r == Recorded(state, item)
  <2>2. state' = r \/ state' = Removed(r, item.file)
    BY DEF Recover, Fetch
  <2>3. r \in Dict => /\ Removed(r, item.file).recorded = r.recorded
                      /\ Entries(Removed(r, item.file).queue) \subseteq Entries(r.queue)
    BY RemovedIs
  <2> HIDE DEF r
  <2> QED
    BY <2>1, <2>2, <2>3 DEF r
<1>4. item.modified <= remote[item.file]
  BY <1>1 DEF VersionInv
<1>n. /\ item.modified \in Nat
      /\ \A f \in Files : /\ got[f] \in Nat /\ remote[f] \in Nat /\ state.recorded[f] \in Nat
                          /\ disk.recorded[f] \in Nat
  BY <1>1, <1>2, Numbers
<1>5. \A f \in Files : got[f] <= got'[f] /\ got'[f] <= remote[f] /\ got'[f] \in Nat
  BY <1>1, <1>2, <1>n DEF VersionInv
<1>6. \A f \in Files : state'.recorded[f] <= got'[f] /\ disk'.recorded[f] <= got'[f]
  <2> TAKE f \in Files
  <2>1. CASE f = item.file
    <3>1. state'.recorded[f] = item.modified /\ got'[f] = remote[f] /\ disk'.recorded = disk.recorded
      BY <1>1, <1>2, <1>3, <2>1
    <3>2. disk.recorded[f] <= got[f]
      BY DEF VersionInv, RecordedWasDownloaded
    <3> QED
      BY <1>4, <1>5, <1>n, <2>1, <3>1, <3>2
  <2>2. CASE f # item.file
    BY <1>1, <1>2, <1>3, <2>2 DEF VersionInv, RecordedWasDownloaded
  <2> QED
    BY <2>1, <2>2
<1> QED
  BY <1>1, <1>3, <1>5, <1>6 DEF VersionInv, Past, RecordedWasDownloaded

(* A failure queues or counts what was already listed. *)
LEMMA VersionFails ==
    ASSUME TypeInv, VersionInv, RetryFails \/ FetchFails
    PROVE  VersionInv'
<1>1. /\ item \in Entry /\ phase \in Under
      /\ UNCHANGED <<remote, disk, todo, got>>
      /\ phase' \in Under => item' = item
      /\ state' = Incremented(state, item.file) \/ state' = Requeued(state, item)
      /\ state \in Dict
  BY DEF RetryFails, FetchFails, DownloadFails, files, TypeInv, RunOK, Under
<1>2. state'.recorded = state.recorded
  BY <1>1, IncrementedIs, RequeuedIs
<1>3. ASSUME NEW e \in Entries(state'.queue) PROVE e.modified <= remote[e.file]
  <2>1. CASE state' = Incremented(state, item.file)
    <3>1. PICK i \in DOMAIN state.queue :
             e = IF state.queue[i].file = item.file
                 THEN [state.queue[i] EXCEPT !.count = @ + 1] ELSE state.queue[i]
      <4>1. PICK i \in DOMAIN state'.queue : e = state'.queue[i]
        BY <1>3 DEF Entries
      <4>2. /\ DOMAIN state'.queue = DOMAIN state.queue
            /\ state'.queue[i] = IF state.queue[i].file = item.file
                                 THEN [state.queue[i] EXCEPT !.count = @ + 1]
                                 ELSE state.queue[i]
        BY <1>1, <2>1, <4>1, IncrementedIs
      <4> QED
        BY <4>1, <4>2
    <3>2. state.queue[i] \in Entries(state.queue) /\ state.queue[i] \in Entry
      BY <1>1, QueuedIs DEF Entries
    <3>3. e.modified = state.queue[i].modified /\ e.file = state.queue[i].file
      BY <3>1, <3>2 DEF Entry
    <3> QED
      BY <3>2, <3>3 DEF VersionInv, Past
  <2>2. CASE state' = Requeued(state, item)
    <3>1. PICK n : Entries(state'.queue) = {x \in Entries(state.queue) : x.file # item.file}
                                           \cup {[item EXCEPT !.count = n]}
      BY <1>1, <2>2, RequeuedIs
    <3>2. e \in Entries(state.queue) \/ e = [item EXCEPT !.count = n]
      BY <1>3, <3>1
    <3> QED
      BY <1>1, <3>2 DEF VersionInv, Past, Entry
  <2> QED
    BY <1>1, <2>1, <2>2
<1> QED
  BY <1>1, <1>2, <1>3 DEF VersionInv, Past, RecordedWasDownloaded

(* Every step keeps versions in their order. *)
LEMMA VersionStep == TypeInv /\ VersionInv /\ [Next]_vars => VersionInv'
<1> SUFFICES ASSUME TypeInv, VersionInv, [Next]_vars PROVE VersionInv'
  OBVIOUS
<1>1. CASE \E f \in Files : Upload(f)
  <2>1. \A f \in Files : remote[f] <= remote'[f] /\ remote[f] \in Nat /\ remote'[f] \in Nat
    <3>1. PICK f \in Files, t \in Times : t > remote[f] /\ remote' = [remote EXCEPT ![f] = t]
      BY <1>1 DEF Upload
    <3>2. t \in Nat /\ remote \in [Files -> Nat]
      BY Numbers DEF TypeInv, OutsideOK
    <3> QED
      BY <3>1, <3>2
  <2>2. /\ Entries(state.queue) \subseteq Entry /\ Entries(disk.queue) \subseteq Entry
        /\ Entries(todo) \subseteq Entry
    BY QueuedIs DEF TypeInv, RunOK, FilesOK, Entries
  <2>3. \A f \in Files, m \in Nat : m <= remote[f] => m <= remote'[f]
    BY <2>1
  <2>4. UNCHANGED <<state, disk, todo, phase, item, got>>
    BY <1>1 DEF Upload, run, files
  <2>5. \A e \in Entry : e.file \in Files /\ e.modified \in Nat
    BY Numbers DEF Entry
  <2>6. \A f \in Files : got[f] \in Nat
    BY Numbers DEF TypeInv, OutsideOK
  <2>7. phase \in Under => item \in Entry
    BY DEF TypeInv, RunOK
  <2> QED
    BY <2>2, <2>3, <2>4, <2>5, <2>6, <2>7 DEF VersionInv, Past, RecordedWasDownloaded
<1>2. CASE Retry \/ Pull
  BY <1>2, TakesUp DEF Retry, Pull, env, files, VersionInv, Past, RecordedWasDownloaded
<1>3. CASE List
  <2>1. Past(todo)'
    <3>1. \A e \in Entries(todo') : e \in Entry
      BY <1>3, ListedIs DEF Entries
    <3>2. \A e \in Entries(todo') : e.modified = remote'[e.file] /\ e.modified \in Nat
      BY <1>3, <3>1, ListedIs, Numbers DEF List, env, Entry
    <3> QED
      BY <3>2 DEF Past
  <2> QED
    BY <1>3, <2>1 DEF List, env, files, Under, VersionInv, Past, RecordedWasDownloaded
<1>4. CASE Idle /\ UNCHANGED <<remote, got>> /\ (disk' = disk \/ disk' = state)
  <2>1. Past(todo)' /\ Past(state.queue)' /\ phase' \notin Under
    BY <1>4, IdleIs, EmptyIs, NoEntries DEF Past, Under
  <2>2. \A f \in Files : state'.recorded[f] = 0 /\ 0 <= got[f]
    <3>1. \A f \in Files : got[f] \in Nat
      BY Numbers DEF TypeInv, OutsideOK
    <3>2. state' = EmptyState
      BY <1>4 DEF Idle
    <3> QED
      BY <3>1, <3>2, EmptyIs
  <2> QED
    BY <1>4, <2>1, <2>2 DEF VersionInv, Past, RecordedWasDownloaded
<1>5. CASE Abandon
  BY <1>5, RemovedIs DEF Abandon, env, Under, TypeInv, RunOK, VersionInv, Past,
     RecordedWasDownloaded
<1>6. CASE RetriesDone
  BY <1>6, NoEntries DEF RetriesDone, env, files, Under, VersionInv, Past, RecordedWasDownloaded
<1>7. CASE \/ UNCHANGED vars \/ Skip \/ PathDone \/ OpenState \/ RecordFailed
           \/ \E resync \in Modes : Start(resync)
  BY <1>7 DEF vars, run, env, files, Skip, PathDone, OpenState, RecordFailed, Start, Under,
     VersionInv, Past, RecordedWasDownloaded
<1> QED
  BY <1>1, <1>2, <1>3, <1>4, <1>5, <1>6, <1>7, VersionArrives, VersionFails
     DEF Next, Run, AbandonRaises, WriteState, Abort, env, files

(* No version is recorded that was not downloaded whole. *)
THEOREM RecordedCame == Spec => []RecordedWasDownloaded
<1>1. Init => VersionInv
  BY EmptyIs, NoEntries, Numbers DEF Init, Under, VersionInv, Past, RecordedWasDownloaded
<1>2. VersionInv => RecordedWasDownloaded
  BY DEF VersionInv
<1> QED
  BY <1>1, <1>2, TypeInit, TypeStep, VersionStep, PTL DEF Spec

-----------------------------------------------------------------------------
(* The queue: a file once, and none that used up its sessions but the one  *)
(* being given up.                                                         *)

Sound(e) == e.count = 1 \/ e.count < MaxRetries

QueueInv ==
    /\ Once(disk.queue) /\ Once(state.queue)
    /\ \A e \in Entries(disk.queue) : Sound(e)
    /\ \A e \in Entries(state.queue) :
          Sound(e) \/ (phase = "abandoning" /\ e.file = item.file)

(* The count looked up is that of the file's entry. *)
LEMMA CountIs ==
    ASSUME NEW s, Once(s.queue), NEW i \in DOMAIN s.queue
    PROVE  Count(s, s.queue[i].file) = s.queue[i].count
BY DEF Once, Count

(* A failed retry is counted: either the count is within the limit, or the *)
(* file is given up.                                                       *)
LEMMA QueueCounts ==
    ASSUME TypeInv, QueueInv, RetryFails
    PROVE  QueueInv'
<1>1. /\ state \in Dict /\ state' = Incremented(state, item.file)
      /\ phase = "recovering" /\ UNCHANGED disk
      /\ IF Exhausted(state', item.file) THEN phase' = "abandoning" /\ item' = item
         ELSE phase' = "retrying"
  BY DEF RetryFails, DownloadFails, files, TypeInv, RunOK
<1>2. /\ DOMAIN state'.queue = DOMAIN state.queue /\ Once(state'.queue) /\ state' \in Dict
      /\ \A i \in DOMAIN state.queue :
            state'.queue[i] = IF state.queue[i].file = item.file
                              THEN [state.queue[i] EXCEPT !.count = @ + 1] ELSE state.queue[i]
  BY <1>1, IncrementedIs DEF QueueInv
<1>3. ASSUME NEW i \in DOMAIN state'.queue
      PROVE  Sound(state'.queue[i]) \/ (phase' = "abandoning" /\ state'.queue[i].file = item'.file)
  <2>1. CASE state.queue[i].file # item.file
    BY <1>1, <1>2, <2>1 DEF QueueInv, Entries
  <2>2. CASE state.queue[i].file = item.file
    <3>1. state.queue[i] \in Entry
      BY <1>1, <1>2 DEF Dict
    <3>2. state'.queue[i].file = item.file /\ state'.queue[i].count \in Nat
      <4>1. state'.queue[i] = [state.queue[i] EXCEPT !.count = @ + 1]
        BY <1>2, <2>2
      <4> QED
        BY <2>2, <3>1, <4>1 DEF Entry
    <3>3. Count(state', item.file) = state'.queue[i].count
      BY <1>2, <3>2, CountIs
    <3> QED
      BY <1>1, <3>2, <3>3, Numbers DEF Exhausted, Sound
  <2> QED
    BY <2>1, <2>2
<1> QED
  BY <1>1, <1>2, <1>3 DEF QueueInv, Entries

(* Every step keeps the queues so. *)
LEMMA QueueStep == TypeInv /\ QueueInv /\ [Next]_vars => QueueInv'
<1> SUFFICES ASSUME TypeInv, QueueInv, [Next]_vars PROVE QueueInv'
  OBVIOUS
<1>d. state \in Dict /\ disk \in Dict
  BY DEF TypeInv, RunOK, FilesOK
<1>1. CASE Recover
  <2> DEFINE r == Recorded(state, item)
  <2>1. r \in Dict /\ r.queue = state.queue
    BY <1>1, <1>d, ArrivesIs, RecordedIs
  <2>2. state' = Removed(r, item.file) /\ disk' = disk /\ phase = "recovering"
    BY <1>1 DEF Recover, files
  <2> HIDE DEF r
  <2>3. Entries(state'.queue) \subseteq Entries(state.queue) /\ Once(state'.queue)
    BY <2>1, <2>2, RemovedIs DEF QueueInv
  <2> QED
    BY <2>2, <2>3 DEF QueueInv
<1>2. CASE Fetch
  <2>1. state'.queue = state.queue
    BY <1>2, <1>d, ArrivesIs, RecordedIs DEF Fetch
  <2> QED
    BY <1>2, <2>1 DEF Fetch, files, QueueInv
<1>3. CASE FetchFails
  <2>1. item \in Entry /\ state' = Requeued(state, item) /\ disk' = disk /\ phase = "fetching"
    BY <1>3 DEF FetchFails, DownloadFails, files, TypeInv, RunOK, Under
  <2>2. PICK n \in Nat :
           /\ Entries(state'.queue) = {x \in Entries(state.queue) : x.file # item.file}
                                      \cup {[item EXCEPT !.count = n]}
           /\ n = 1 \/ \E x \in Entries(state.queue) : x.count = n
    BY <1>d, <2>1, RequeuedIs
  <2>3. \A e \in Entries(state.queue) : Sound(e)
    BY <2>1 DEF QueueInv
  <2>4. Sound([item EXCEPT !.count = n])
    BY <2>1, <2>2, <2>3 DEF Sound, Entry
  <2>5. Once(state'.queue)
    BY <1>d, <2>1, RequeuedIs DEF QueueInv
  <2> QED
    BY <2>1, <2>2, <2>3, <2>4, <2>5 DEF QueueInv
<1>4. CASE Abandon
  <2>1. Entries(state'.queue) = {e \in Entries(state.queue) : e.file # item.file}
        /\ Once(state'.queue)
    BY <1>4, <1>d, RemovedIs DEF Abandon, QueueInv
  <2> QED
    BY <1>4, <2>1 DEF Abandon, QueueInv
<1>5. CASE Idle /\ (disk' = disk \/ (disk' = state /\ phase = "writing"))
  BY <1>5, EmptyIs, NoEntries DEF Idle, QueueInv
<1>6. CASE \E resync \in Modes : Start(resync)
  BY <1>6 DEF Start, files, QueueInv
<1>7. CASE \/ UNCHANGED vars \/ RetriesDone \/ Retry \/ Pull \/ List \/ Skip \/ PathDone
           \/ OpenState \/ RecordFailed \/ \E f \in Files : Upload(f)
  <2>1. UNCHANGED <<state, disk>> /\ (phase = "abandoning" => UNCHANGED <<phase, item>>)
    BY <1>7 DEF vars, run, files, RetriesDone, Retry, Pull, List, Skip, PathDone, OpenState,
       RecordFailed, Upload
  <2> QED
    BY <2>1 DEF QueueInv
<1> QED
  BY <1>1, <1>2, <1>3, <1>4, <1>5, <1>6, <1>7, QueueCounts
     DEF Next, Run, AbandonRaises, WriteState, Abort, files

(* Nothing is queued at first. *)
LEMMA QueueInit == Init => QueueInv
BY EmptyIs, NoEntries DEF Init, QueueInv

(* No file is queued twice, and none that used up its sessions. *)
THEOREM OnceInQueue == Spec => []QueuedOnce
<1>1. QueueInv => QueuedOnce
  BY DEF QueueInv, QueuedOnce, Once, Entries, Sound
<1> QED
  BY <1>1, TypeInit, TypeStep, QueueInit, QueueStep, PTL DEF Spec

-----------------------------------------------------------------------------
(* Pass 1: what is still to be retried, and what is being retried, is in   *)
(* the queue of the state file and, until it is downloaded or given up, in *)
(* that of the run.                                                        *)
PassInv ==
    /\ phase \in {"retrying", "recovering", "abandoning", "recording"} =>
          /\ Once(todo)
          /\ \A e \in Entries(todo) : e.file \in Queued(state) /\ e.file \in Queued(disk)
    /\ phase \in {"recovering", "abandoning"} => item.file \in Queued(state)
    /\ phase \in {"recovering", "abandoning", "recording"} =>
          /\ item.file \in Queued(disk)
          /\ \A e \in Entries(todo) : e.file # item.file

(* Every step keeps the pass so. *)
LEMMA PassStep == TypeInv /\ QueueInv /\ PassInv /\ [Next]_vars => PassInv'
<1> SUFFICES ASSUME TypeInv, QueueInv, PassInv, [Next]_vars PROVE PassInv'
  OBVIOUS
<1>d. state \in Dict /\ disk \in Dict
  BY DEF TypeInv, RunOK, FilesOK
<1>q. (disk' = disk => Queued(disk)' = Queued(disk)) /\ (state' = state => Queued(state)' = Queued(state))
  BY DEF Queued
<1>1. CASE \E resync \in Modes : Start(resync)
  <2>1. todo' = disk.queue /\ state' = disk /\ disk' = disk /\ phase' = "retrying"
    BY <1>1 DEF Start, files
  <2>2. Queued(state)' = Queued(disk) /\ Queued(disk)' = Queued(disk)
    BY <2>1 DEF Queued
  <2>3. \A e \in Entries(disk.queue) : e.file \in Queued(disk)
    BY <1>d, QueuedIs
  <2> QED
    BY <2>1, <2>2, <2>3 DEF PassInv, QueueInv
<1>2. CASE Retry
  BY <1>2, <1>q, TakesUp DEF Retry, Begin, files, PassInv
<1>3. CASE Recover
  <2> DEFINE r == Recorded(state, item)
  <2>1. r \in Dict /\ Queued(r) = Queued(state)
    <3>1. item \in Entry
      BY <1>3, ArrivesIs
    <3>2. r \in Dict /\ r.queue = state.queue
      BY <1>d, <3>1, RecordedIs
    <3> HIDE DEF r
    <3> QED
      BY <3>2 DEF Queued
  <2>2. state' = Removed(r, item.file) /\ UNCHANGED <<disk, todo>>
        /\ phase = "recovering" /\ phase' = "retrying"
    BY <1>3 DEF Recover, files
  <2> HIDE DEF r
  <2>3. Queued(state') = Queued(state) \ {item.file}
    BY <2>1, <2>2, RemovedIs
  <2>4. Queued(state)' = Queued(state')
    BY DEF Queued
  <2> QED
    BY <1>q, <2>2, <2>3, <2>4 DEF PassInv
<1>4. CASE RetryFails
  <2>1. /\ state' = Incremented(state, item.file) /\ UNCHANGED <<disk, todo>>
        /\ phase = "recovering"
        /\ (phase' = "abandoning" /\ item' = item) \/ phase' = "retrying"
    BY <1>4 DEF RetryFails, DownloadFails, files
  <2>2. Queued(state') = Queued(state)
    BY <1>d, <2>1, IncrementedIs
  <2>3. Queued(state)' = Queued(state')
    BY DEF Queued
  <2> QED
    BY <1>q, <2>1, <2>2, <2>3 DEF PassInv
<1>5. CASE Abandon
  <2>1. state' = Removed(state, item.file) /\ UNCHANGED <<disk, todo, item>>
        /\ phase = "abandoning" /\ phase' = "recording"
    BY <1>5 DEF Abandon
  <2>2. Queued(state') = Queued(state) \ {item.file}
    BY <1>d, <2>1, RemovedIs
  <2>3. Queued(state)' = Queued(state')
    BY DEF Queued
  <2> QED
    BY <1>q, <2>1, <2>2, <2>3 DEF PassInv
<1>6. CASE RecordFailed
  BY <1>6, <1>q DEF RecordFailed, PassInv
<1>7. CASE UNCHANGED vars \/ \E f \in Files : Upload(f)
  BY <1>7, <1>q DEF vars, run, files, Upload, PassInv
<1>8. CASE Fetch \/ FetchFails
  BY <1>8 DEF Fetch, FetchFails, PassInv
<1>9. CASE RetriesDone \/ List \/ Skip \/ Pull \/ PathDone \/ OpenState \/ Idle
  BY <1>9 DEF RetriesDone, List, Skip, Pull, Begin, PathDone, OpenState, Idle, PassInv
<1> QED
  BY <1>1, <1>2, <1>3, <1>4, <1>5, <1>6, <1>7, <1>8, <1>9
     DEF Next, Run, AbandonRaises, WriteState, Abort

(* No run has begun at first. *)
LEMMA PassInit == Init => PassInv
BY DEF Init, PassInv

-----------------------------------------------------------------------------
(* What is owed is queued in the state file, whichever run was the last to *)
(* write it; and a run under way will write it again.                      *)
OwedInv ==
    /\ owed \subseteq Queued(disk)
    /\ phase # "idle" =>
          owed \subseteq Queued(state) \cup (IF phase = "recording" THEN {item.file} ELSE {})

(* Every step keeps what is owed queued. *)
LEMMA OwedStep == TypeInv /\ OwedInv /\ [Next]_vars => OwedInv'
<1> SUFFICES ASSUME TypeInv, OwedInv, [Next]_vars PROVE OwedInv'
  OBVIOUS
<1>d. state \in Dict /\ disk \in Dict
  BY DEF TypeInv, RunOK, FilesOK
<1>q. /\ disk' = disk => Queued(disk)' = Queued(disk)
      /\ disk' = state => Queued(disk)' = Queued(state)
      /\ Queued(state)' = Queued(state')
  BY DEF Queued
<1>1. CASE \E resync \in Modes : Start(resync)
  BY <1>1, <1>q DEF Start, files, OwedInv
<1>2. CASE Recover \/ Fetch
  <2> DEFINE r == Recorded(state, item)
  <2>1. item \in Entry /\ owed' = owed \ {item.file} /\ disk' = disk
        /\ phase \in {"recovering", "fetching"}
    BY <1>2, ArrivesIs DEF files, Recover, Fetch
  <2>2. r \in Dict /\ r.queue = state.queue
    BY <1>d, <2>1, RecordedIs
  <2>3. state' = r \/ state' = Removed(r, item.file)
    BY <1>2 DEF Recover, Fetch
  <2> HIDE DEF r
  <2>4. Queued(r) = Queued(state)
    BY <2>2 DEF Queued
  <2>5. Queued(state) \ {item.file} \subseteq Queued(state')
    BY <2>2, <2>3, <2>4, RemovedIs
  <2> QED
    BY <1>q, <2>1, <2>5 DEF OwedInv
<1>3. CASE RetryFails \/ FetchFails
  <2>1. /\ item \in Entry /\ owed' = owed /\ disk' = disk
        /\ phase \in {"recovering", "fetching"}
        /\ state' = Incremented(state, item.file) \/ state' = Requeued(state, item)
    BY <1>3 DEF RetryFails, FetchFails, DownloadFails, files, TypeInv, RunOK, Under
  <2>2. Queued(state) \subseteq Queued(state')
    BY <1>d, <2>1, IncrementedIs, RequeuedIs
  <2> QED
    BY <1>q, <2>1, <2>2 DEF OwedInv
<1>4. CASE Abandon
  <2>1. Queued(state') = Queued(state) \ {item.file}
    BY <1>4, <1>d, RemovedIs DEF Abandon
  <2> QED
    BY <1>4, <1>q, <2>1 DEF Abandon, OwedInv
<1>5. CASE RecordFailed
  BY <1>5, <1>q DEF RecordFailed, OwedInv
<1>6. CASE WriteState
  BY <1>6, <1>q DEF WriteState, Idle, OwedInv
<1>7. CASE Idle /\ UNCHANGED <<disk, owed>>
  BY <1>7, <1>q DEF Idle, OwedInv
<1>8. CASE \/ UNCHANGED vars \/ RetriesDone \/ Retry \/ Pull \/ List \/ Skip \/ PathDone
           \/ OpenState \/ \E f \in Files : Upload(f)
  <2>1. \/ /\ UNCHANGED <<state, disk, owed>>
           /\ phase # "recording"
           /\ phase' # "recording"
           /\ phase' # "idle" => phase # "idle"
        \/ UNCHANGED <<state, disk, owed, phase, item>>
    BY <1>8 DEF vars, run, files, RetriesDone, Retry, Pull, Begin, List, Skip, PathDone,
       OpenState, Upload
  <2> QED
    BY <1>q, <2>1 DEF OwedInv
<1> QED
  BY <1>1, <1>2, <1>3, <1>4, <1>5, <1>6, <1>7, <1>8
     DEF Next, Run, AbandonRaises, Abort, files

(* A failure a finished run queued stays queued until it is downloaded or  *)
(* entered in the failed file, whatever runs come after and however they   *)
(* end.                                                                    *)
THEOREM OwedStaysQueued == Spec => []OwedIsQueued
<1>1. Init => OwedInv
  BY DEF Init, OwedInv
<1>2. OwedInv => OwedIsQueued
  BY DEF OwedInv, OwedIsQueued
<1> QED
  BY <1>1, <1>2, TypeInit, TypeStep, OwedStep, PTL DEF Spec

-----------------------------------------------------------------------------
(* A file that a state calls downloaded is held, or will be fetched again, *)
(* or is queued, or the failed file names it.                              *)

Named(f) == \E i \in DOMAIN failed : failed[i].file = f

Accounted(s, f) ==
    \/ s.recorded[f] = 0 \/ local[f] # 0
    \/ remote[f] > s.recorded[f] \/ f \in Queued(s) \/ Named(f)

(* That pass 2 takes up only what the state file, too, sees as newer or    *)
(* has in its queue rests on this: a run records an older version than the *)
(* state file's only of what the state file has queued.                    *)
Behind(f, m) == f \in Queued(disk) \/ disk.recorded[f] <= m

ReportInv ==
    /\ \A f \in Files : Accounted(disk, f)
    /\ phase # "idle" =>
          \A f \in Files : /\ Behind(f, state.recorded[f])
                           /\ Accounted(state, f) \/ (phase \in Under /\ f = item.file)
    /\ phase = "pulling" \/ phase = "fetching" =>
          \A e \in Entries(todo) :
             e.file \in Queued(disk) \/ disk.recorded[e.file] < e.modified
    /\ phase = "fetching" =>
          item.file \in Queued(disk) \/ disk.recorded[item.file] < item.modified

(* What the quantities are that a report compares. *)
LEMMA ReportNumbers ==
    ASSUME TypeInv
    PROVE  /\ state \in Dict /\ disk \in Dict
           /\ \A f \in Files : /\ state.recorded[f] \in Nat /\ disk.recorded[f] \in Nat
                               /\ remote[f] \in Nat /\ local[f] \in Nat
           /\ \A e \in Entry : e.file \in Files /\ e.modified \in Nat /\ e.modified > 0
           /\ Entries(todo) \subseteq Entry
<1>1. \A s \in {state, disk} : s \in Dict /\ s.recorded \in [Files -> Times0]
  BY DEF TypeInv, RunOK, FilesOK, Dict
<1>2. remote \in [Files -> Times0] /\ local \in [Files -> Times0]
  BY DEF TypeInv, OutsideOK
<1>3. \A e \in Entry : e.file \in Files /\ e.modified \in Times
  BY DEF Entry
<1>4. \A i \in DOMAIN todo : todo[i] \in Entry
  BY DEF TypeInv, RunOK
<1> QED
  BY <1>1, <1>2, <1>3, <1>4, Numbers DEF Entries

(* What a step makes of what is accounted for in the state of the run and  *)
(* in the state file.                                                      *)
LEMMA ReportNext ==
    /\ disk' = disk => Queued(disk)' = Queued(disk)
    /\ disk' = state => Queued(disk)' = Queued(state)
    /\ Queued(state)' = Queued(state')
    /\ failed' = failed => \A f : Named(f)' = Named(f)
BY DEF Queued, Named

(* Opening a file for writing loses the copy held: pass 1 does so to what  *)
(* the state file has queued, pass 2 to what it has queued or sees as      *)
(* older than what the server holds.                                       *)
LEMMA ReportTakesUp ==
    ASSUME TypeInv, PassInv, VersionInv, ReportInv, Retry \/ Pull
    PROVE  ReportInv'
<1>1. /\ item' \in Entry /\ item' \in Entries(todo) /\ Entries(todo') \subseteq Entries(todo)
      /\ local' = [local EXCEPT ![item'.file] = 0]
  BY TakesUp
<1>2. /\ UNCHANGED <<remote, disk, state, failed>> /\ phase \notin Under /\ phase # "idle"
      /\ \/ phase = "retrying" /\ phase' = "recovering"
         \/ phase = "pulling" /\ phase' = "fetching"
  BY DEF Retry, Pull, Begin, env, files, Under
<1>3. \A f \in Files : f # item'.file => local'[f] = local[f]
  BY <1>1 DEF TypeInv, OutsideOK
<1>4. item'.file \in Queued(disk) \/ disk.recorded[item'.file] < item'.modified
  BY <1>1, <1>2 DEF PassInv, ReportInv
<1>5. item'.modified <= remote[item'.file]
  BY <1>1 DEF VersionInv, Past
<1>6. item'.file \in Queued(disk) \/ remote[item'.file] > disk.recorded[item'.file]
  BY <1>1, <1>4, <1>5, ReportNumbers
<1>7. \A f \in Files : Accounted(disk, f)'
  BY <1>2, <1>3, <1>6, ReportNext DEF ReportInv, Accounted
<1>8. \A f \in Files : Behind(f, state.recorded[f])' /\ (f = item'.file \/ Accounted(state, f)')
  BY <1>2, <1>3, ReportNext DEF ReportInv, Accounted, Behind
<1>9. phase' = "fetching" =>
         \A e \in Entries(todo') : e.file \in Queued(disk) \/ disk.recorded[e.file] < e.modified
  BY <1>1, <1>2 DEF ReportInv
<1> QED
  BY <1>2, <1>4, <1>7, <1>8, <1>9, ReportNext DEF ReportInv, Under

(* A download holds what it records. *)
LEMMA ReportArrives ==
    ASSUME TypeInv, PassInv, VersionInv, ReportInv, Recover \/ Fetch
    PROVE  ReportInv'
<1> DEFINE r == Recorded(state, item)
<1>1. /\ item \in Entry /\ item.file \in Files
      /\ local' = [local EXCEPT ![item.file] = remote[item.file]]
      /\ UNCHANGED <<remote, disk, failed, todo>>
      /\ phase \in Under
      /\ \/ phase = "recovering" /\ phase' = "retrying"
         \/ phase = "fetching" /\ phase' = "pulling"
  BY ArrivesIs DEF env, files, Recover, Fetch, Under
<1>2. /\ r \in Dict /\ r.queue = state.queue
      /\ r.recorded = [state.recorded EXCEPT ![item.file] = item.modified]
  BY <1>1, RecordedIs, ReportNumbers
<1>3. state' = r \/ state' = Removed(r, item.file)
  BY DEF Recover, Fetch
<1> HIDE DEF r
<1>4. Queued(r) = Queued(state)
  BY <1>2 DEF Queued
<1>5. state'.recorded = r.recorded /\ Queued(state) \ {item.file} \subseteq Queued(state')
  BY <1>2, <1>3, <1>4, RemovedIs
<1>6. \A f \in Files : f # item.file => local'[f] = local[f] /\ state'.recorded[f] = state.recorded[f]
  BY <1>1, <1>2, <1>5 DEF TypeInv, OutsideOK, RunOK, Dict
<1>7. state'.recorded[item.file] = item.modified /\ local'[item.file] = remote[item.file]
  BY <1>1, <1>2, <1>5 DEF TypeInv, OutsideOK, RunOK, Dict
<1>8. local'[item.file] # 0
  BY <1>1, <1>7, ReportNumbers DEF VersionInv
<1>9. \A f \in Files : Accounted(disk, f)'
  BY <1>1, <1>6, <1>8, ReportNext DEF ReportInv, Accounted
<1>10. \A f \in Files : Accounted(state, f)'
  BY <1>1, <1>5, <1>6, <1>8, ReportNext DEF ReportInv, Accounted, Under
<1>11. \A f \in Files : Behind(f, state.recorded[f])'
  <2> TAKE f \in Files
  <2>1. CASE f # item.file
    BY <1>1, <1>6, <2>1, ReportNext DEF ReportInv, Behind, Under
  <2>2. CASE f = item.file
    <3>1. f \in Queued(disk) \/ disk.recorded[f] < item.modified
      BY <1>1, <2>2 DEF PassInv, ReportInv
    <3> QED
      BY <1>1, <1>7, <2>2, <3>1, ReportNext, ReportNumbers DEF Behind
  <2> QED
    BY <2>1, <2>2
<1>12. phase' = "pulling" =>
          \A e \in Entries(todo') : e.file \in Queued(disk)' \/ disk'.recorded[e.file] < e.modified
  BY <1>1, ReportNext DEF ReportInv
<1> QED
  BY <1>1, <1>9, <1>10, <1>11, <1>12 DEF ReportInv

(* A failure is queued, counted, or given up and then named. *)
LEMMA ReportFails ==
    ASSUME TypeInv, PassInv, ReportInv,
           RetryFails \/ FetchFails \/ Abandon \/ RecordFailed
    PROVE  ReportInv'
<1>1. /\ item \in Entry /\ item.file \in Files /\ phase \in Under
      /\ UNCHANGED <<remote, local, disk, todo>>
  BY DEF RetryFails, FetchFails, DownloadFails, Abandon, RecordFailed, env, files, Under,
     TypeInv, RunOK, Entry
<1>2. /\ state'.recorded = state.recorded
      /\ Queued(state) \ {item.file} \subseteq Queued(state')
  <2>1. \/ state' = Incremented(state, item.file) \/ state' = Requeued(state, item)
        \/ state' = Removed(state, item.file) \/ state' = state
    BY DEF RetryFails, FetchFails, Abandon, RecordFailed
  <2> QED
    BY <1>1, <2>1, IncrementedIs, RequeuedIs, RemovedIs, ReportNumbers
<1>3. \A f : Named(f) => Named(f)'
  <2>1. CASE failed' = failed
    BY <2>1, ReportNext
  <2>2. CASE RecordFailed
    <3>1. failed' = Append(failed, [file |-> item.file, modified |-> item.modified])
          /\ failed \in Seq([file : Files, modified : Times])
      BY <2>2 DEF RecordFailed, TypeInv, FilesOK
    <3>2. \A i \in DOMAIN failed : i \in DOMAIN failed' /\ failed'[i] = failed[i]
      BY <3>1
    <3> QED
      BY <3>2 DEF Named
  <2> QED
    BY <2>1, <2>2 DEF RetryFails, FetchFails, DownloadFails, Abandon, files
<1>4. \A f \in Files : Accounted(disk, f)'
  BY <1>1, <1>3, ReportNext DEF ReportInv, Accounted
<1>5. \A f \in Files : f # item.file => Accounted(state, f)'
  BY <1>1, <1>2, <1>3, ReportNext DEF ReportInv, Accounted, Under
<1>6. \A f \in Files : Behind(f, state.recorded[f])'
  BY <1>1, <1>2, ReportNext DEF ReportInv, Behind, Under
<1>7. ASSUME NEW f \in Files, f = item.file
      PROVE  (phase' \in Under /\ item' = item) \/ Accounted(state, f)'
  <2>1. CASE RetryFails
    <3>1. item.file \in Queued(state) /\ state' = Incremented(state, item.file)
      BY <2>1 DEF RetryFails, PassInv
    <3>2. item.file \in Queued(state')
      BY <3>1, IncrementedIs, ReportNumbers
    <3> QED
      BY <1>7, <3>2, ReportNext DEF Accounted
  <2>2. CASE FetchFails
    <3>1. item.file \in Queued(state')
      BY <1>1, <2>2, RequeuedIs, ReportNumbers DEF FetchFails
    <3> QED
      BY <1>7, <3>1, ReportNext DEF Accounted
  <2>3. CASE Abandon
    BY <2>3 DEF Abandon, Under
  <2>4. CASE RecordFailed
    <3>1. failed' = Append(failed, [file |-> item.file, modified |-> item.modified])
          /\ failed \in Seq([file : Files, modified : Times])
      BY <2>4 DEF RecordFailed, TypeInv, FilesOK
    <3>2. Len(failed) + 1 \in DOMAIN failed' /\ failed'[Len(failed) + 1].file = item.file
      BY <3>1
    <3> QED
      BY <1>7, <3>2 DEF Accounted, Named
  <2> QED
    BY <2>1, <2>2, <2>3, <2>4
<1>8. phase' = "pulling" =>
         \A e \in Entries(todo') : e.file \in Queued(disk)' \/ disk'.recorded[e.file] < e.modified
  BY <1>1, ReportNext DEF ReportInv, RetryFails, FetchFails, Abandon, RecordFailed
<1>9. phase' # "fetching"
  BY DEF RetryFails, FetchFails, Abandon, RecordFailed
<1> QED
  BY <1>1, <1>4, <1>5, <1>6, <1>7, <1>8, <1>9 DEF ReportInv

(* Every step keeps every file accounted for. *)
LEMMA ReportStep ==
    TypeInv /\ PassInv /\ VersionInv /\ ReportInv /\ [Next]_vars => ReportInv'
<1> SUFFICES ASSUME TypeInv, PassInv, VersionInv, ReportInv, [Next]_vars PROVE ReportInv'
  OBVIOUS
<1>1. CASE \E resync \in Modes : Start(resync)
  <2>1. /\ UNCHANGED <<remote, local, disk, failed>> /\ state' = disk /\ phase' = "retrying"
    BY <1>1 DEF Start, env, files
  <2>2. Queued(state)' = Queued(disk)
    BY <2>1 DEF Queued
  <2>3. \A f \in Files : Accounted(disk, f)' /\ Accounted(state, f)' /\ Behind(f, state.recorded[f])'
    BY <2>1, <2>2, ReportNext, ReportNumbers DEF ReportInv, Accounted, Behind
  <2> QED
    BY <2>1, <2>3 DEF ReportInv
<1>2. CASE List
  <2>1. /\ UNCHANGED <<remote, local, disk, failed, state>> /\ phase = "scanning"
        /\ phase' = "pulling"
    BY <1>2 DEF List, env, files
  <2>2. \A e \in Entries(todo') : e \in Entry /\ e.modified = remote[e.file]
                                  /\ remote[e.file] > state.recorded[e.file]
    BY <1>2, ListedIs DEF Entries
  <2>3. \A e \in Entries(todo') : e.file \in Queued(disk) \/ disk.recorded[e.file] < e.modified
    BY <2>1, <2>2, ReportNumbers DEF ReportInv, Behind
  <2> QED
    BY <2>1, <2>3, ReportNext DEF ReportInv, Accounted, Behind, Under
<1>3. CASE WriteState
  <2>1. /\ UNCHANGED <<remote, local, failed>> /\ disk' = state /\ phase = "writing"
        /\ phase' = "idle"
    BY <1>3 DEF WriteState, Idle, env
  <2> QED
    BY <2>1, ReportNext DEF ReportInv, Accounted, Under
<1>4. CASE Idle /\ UNCHANGED <<remote, local, disk, failed>>
  BY <1>4, ReportNext DEF Idle, ReportInv, Accounted
<1>5. CASE \E f \in Files : Upload(f)
  <2>1. UNCHANGED <<local, disk, failed, state, phase, todo, item>>
    BY <1>5 DEF Upload, files, run
  <2>2. \A f \in Files : remote'[f] >= remote[f] /\ remote'[f] \in Nat
    <3>1. PICK f \in Files, t \in Times : t > remote[f] /\ remote' = [remote EXCEPT ![f] = t]
      BY <1>5 DEF Upload
    <3>2. t \in Nat /\ remote \in [Files -> Nat]
      BY Numbers DEF TypeInv, OutsideOK
    <3> QED
      BY <3>1, <3>2
  <2>3. \A f \in Files : /\ Accounted(disk, f) => Accounted(disk, f)'
                         /\ Accounted(state, f) => Accounted(state, f)'
    BY <2>1, <2>2, ReportNext, ReportNumbers DEF Accounted
  <2> QED
    BY <2>1, <2>3, ReportNext DEF ReportInv, Behind
<1>6. CASE UNCHANGED vars
  BY <1>6, ReportNext DEF vars, ReportInv, Accounted, Behind
<1>7. CASE RetriesDone \/ Skip \/ PathDone \/ OpenState
  <2>1. /\ UNCHANGED <<remote, local, disk, failed, state>> /\ phase \notin Under /\ phase # "idle"
        /\ phase' \in {"scanning", "writing"}
    BY <1>7 DEF RetriesDone, Skip, PathDone, OpenState, env, files, run, Under
  <2> QED
    BY <2>1, ReportNext DEF ReportInv, Accounted, Behind
<1> QED
  BY <1>1, <1>2, <1>3, <1>4, <1>5, <1>6, <1>7, ReportTakesUp, ReportArrives, ReportFails
     DEF Next, Run, AbandonRaises, Abort, files, env

(* Between runs every file a state file calls downloaded is held, or will  *)
(* be fetched by the next resync run, or is queued, or is in the failed    *)
(* file.                                                                   *)
THEOREM EveryFileReported == Spec => []Reported
<1>1. Init => ReportInv
  <2> SUFFICES ASSUME Init PROVE ReportInv
    OBVIOUS
  <2>1. \A f \in Files : disk.recorded[f] = 0
    BY EmptyIs DEF Init
  <2> QED
    BY <2>1 DEF Init, ReportInv, Accounted
<1>2. Init => VersionInv
  BY EmptyIs, NoEntries, Numbers DEF Init, Under, VersionInv, Past, RecordedWasDownloaded
<1>3. ReportInv => Reported
  BY DEF ReportInv, Accounted, Reported, Named, NewOrUpdated
<1> QED
  BY <1>1, <1>2, <1>3, TypeInit, TypeStep, QueueInit, QueueStep, PassInit, PassStep,
     VersionStep, ReportStep, PTL DEF Spec

================================================================================
