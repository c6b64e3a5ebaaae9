------------------------ MODULE WorkflowDirectionProofs ------------------------
(***************************************************************************)
(* Proofs about WorkflowDirection, for any workflow, any configuration,    *)
(* any requests and any number of directions and faults: what a direction  *)
(* reaches, what it undoes and reports, where its records hang, that the   *)
(* batch ends, and that steps are released as OrderedRelease promises.     *)
(***************************************************************************)
EXTENDS WorkflowDirection, FiniteSetTheorems, WellFoundedInduction, TLAPS

-----------------------------------------------------------------------------
(* The nesting cursor.                                                     *)

AnchorMaps == UNION {[L -> Records] : L \in SUBSET Nat}

Parents == Records \cup {NoRecord}

Nests == [level : Nat, minimum : Nat, anchors : AnchorMaps, parent : Parents]

(* A set of numbers has a least one, and below a bound a greatest one.     *)
LEMMA LeastOf ==
    ASSUME NEW S \in SUBSET Nat, S # {}
    PROVE  \E k \in S : \A j \in S : k <= j
<1> DEFINE R == {ss \in Nat \X Nat : ss[1] < ss[2]}
<1>1. IsWellFoundedOn(R, Nat)
  BY NatLessThanWellFounded DEF OpToRel
<1>2. PICK k \in S : \A j \in S : <<j, k>> \notin R
  <2> HIDE DEF R
  <2> QED
    BY <1>1, WFMin
<1>3. \A j \in S : k <= j
  <2> TAKE j \in S
  <2>1. <<j, k>> \notin R
    BY <1>2
  <2>2. <<j, k>> \in Nat \X Nat /\ <<j, k>>[1] = j /\ <<j, k>>[2] = k
    OBVIOUS
  <2>3. ~(j < k)
    BY <2>1, <2>2
  <2> QED
    BY <2>3
<1> QED
  BY <1>3

LEMMA GreatestBelow ==
    ASSUME NEW S \in SUBSET Nat, S # {}, NEW l \in Nat, \A k \in S : k <= l
    PROVE  \E k \in S : \A j \in S : j <= k
<1> DEFINE Gaps == {g \in Nat : \E k \in S : k + g = l}
<1>1. \A j \in S : l - j \in Gaps
  OBVIOUS
<1>2. PICK g \in Gaps : \A h \in Gaps : g <= h
  <2>1. Gaps \in SUBSET Nat /\ Gaps # {}
    BY <1>1
  <2> HIDE DEF Gaps
  <2> QED
    BY <2>1, LeastOf
<1>3. PICK k \in S : k + g = l
  BY <1>2
<1>4. \A j \in S : j <= k
  BY <1>1, <1>2, <1>3
<1> QED
  BY <1>4

(* The parent of a record is the anchor of the greatest level above it.    *)
LEMMA AnchorIs ==
    ASSUME NEW a \in AnchorMaps, NEW l \in Nat
    PROVE  \/ /\ AnchorBelow(a, l) = NoRecord
              /\ \A k \in DOMAIN a : ~(k < l)
           \/ \E k \in DOMAIN a : /\ k < l
                                  /\ \A j \in DOMAIN a : j < l => j <= k
                                  /\ AnchorBelow(a, l) = a[k]
<1> DEFINE below == {k \in DOMAIN a : k < l}
<1>1. DOMAIN a \subseteq Nat
  BY DEF AnchorMaps
<1>2. CASE below = {}
  BY <1>2 DEF AnchorBelow
<1>3. CASE below # {}
  <2>1. \E k \in below : \A j \in below : j <= k
    <3>1. below \in SUBSET Nat /\ \A k \in below : k <= l
      BY <1>1
    <3> HIDE DEF below
    <3> QED
      BY <1>3, <3>1, GreatestBelow
  <2> DEFINE k == CHOOSE k \in below : \A j \in below : j <= k
  <2>2. k \in below /\ \A j \in below : j <= k
    BY <2>1
  <2>3. AnchorBelow(a, l) = a[k]
    BY <1>3 DEF AnchorBelow
  <2> HIDE DEF k
  <2> QED
    BY <2>2, <2>3
<1> QED
  BY <1>2, <1>3

LEMMA AnchorType ==
    ASSUME NEW a \in AnchorMaps, NEW l \in Nat
    PROVE  AnchorBelow(a, l) \in Parents
<1>1. \A k \in DOMAIN a : a[k] \in Records
  BY DEF AnchorMaps
<1> QED
  BY <1>1, AnchorIs DEF Parents

LEMMA KeptAbove ==
    ASSUME NEW a \in AnchorMaps, NEW l \in Nat
    PROVE  /\ KeepAbove(a, l) \in AnchorMaps
           /\ DOMAIN KeepAbove(a, l) = {j \in DOMAIN a : j < l}
           /\ \A k \in DOMAIN KeepAbove(a, l) : KeepAbove(a, l)[k] = a[k]
<1>1. /\ DOMAIN KeepAbove(a, l) = {j \in DOMAIN a : j < l}
      /\ \A k \in DOMAIN KeepAbove(a, l) : KeepAbove(a, l)[k] = a[k]
  BY DEF KeepAbove
<1>2. \A k \in DOMAIN a : a[k] \in Records
  BY DEF AnchorMaps
<1>3. {j \in DOMAIN a : j < l} \in SUBSET Nat
  BY DEF AnchorMaps
<1>4. KeepAbove(a, l) \in [{j \in DOMAIN a : j < l} -> Records]
  BY <1>2 DEF KeepAbove
<1> QED
  BY <1>1, <1>3, <1>4 DEF AnchorMaps

(* A cursor moved: where it stands, what it keeps and what it hangs from.  *)
Moved(n, m, l, keep) ==
    /\ m \in Nests
    /\ m.level = l
    /\ DOMAIN m.anchors = {j \in DOMAIN n.anchors : j < keep}
    /\ \A k \in DOMAIN m.anchors : m.anchors[k] = n.anchors[k]
    /\ m.parent = AnchorBelow(m.anchors, l)

LEMMA MovedBy ==
    ASSUME NEW n \in Nests, NEW l \in Nat, NEW keep, NEW kept \in AnchorMaps,
           DOMAIN kept = {j \in DOMAIN n.anchors : j < keep},
           \A k \in DOMAIN kept : kept[k] = n.anchors[k],
           AnchorBelow(kept, l) \in Parents,
           NEW m, m = [n EXCEPT !.level = l, !.anchors = kept,
                                !.parent = AnchorBelow(kept, l)]
    PROVE  Moved(n, m, l, keep) /\ m.minimum = n.minimum
<1>1. m = [level |-> l, minimum |-> n.minimum, anchors |-> kept,
           parent |-> AnchorBelow(kept, l)]
  BY DEF Nests
<1> QED
  BY <1>1 DEF Moved, Nests

LEMMA SetLevelMoves ==
    ASSUME NEW n \in Nests, NEW base \in Nat
    PROVE  Moved(n, SetLevel(n, base), base, base) /\ SetLevel(n, base).minimum = base + 1
<1> DEFINE kept == KeepAbove(n.anchors, base)
<1>1. /\ kept \in AnchorMaps
      /\ DOMAIN kept = {j \in DOMAIN n.anchors : j < base}
      /\ \A k \in DOMAIN kept : kept[k] = n.anchors[k]
      /\ AnchorBelow(kept, base) \in Parents
  BY KeptAbove, AnchorType DEF Nests
<1>2. SetLevel(n, base) = [level |-> base, minimum |-> base + 1, anchors |-> kept,
                           parent |-> AnchorBelow(kept, base)]
  BY DEF SetLevel
<1> HIDE DEF kept
<1> QED
  BY <1>1, <1>2 DEF Moved, Nests

LEMMA EnterMoves ==
    ASSUME NEW n \in Nests
    PROVE  LET l == IF n.level + 1 > n.minimum THEN n.level + 1 ELSE n.minimum
           IN Moved(n, Enter(n), l, l) /\ Enter(n).minimum = n.minimum
<1> DEFINE l == IF n.level + 1 > n.minimum THEN n.level + 1 ELSE n.minimum
           kept == KeepAbove(n.anchors, l)
<1>1. l \in Nat
  BY DEF Nests
<1>2. /\ kept \in AnchorMaps
      /\ DOMAIN kept = {j \in DOMAIN n.anchors : j < l}
      /\ \A k \in DOMAIN kept : kept[k] = n.anchors[k]
      /\ AnchorBelow(kept, l) \in Parents
  BY <1>1, KeptAbove, AnchorType DEF Nests
<1>3. Enter(n) = [n EXCEPT !.level = l, !.anchors = kept, !.parent = AnchorBelow(kept, l)]
  BY DEF Enter
<1> HIDE DEF l, kept
<1>4. Moved(n, Enter(n), l, l)
  BY <1>1, <1>2, <1>3, MovedBy
<1>5. Enter(n).minimum = n.minimum
  BY <1>3 DEF Nests
<1> QED
  BY <1>4, <1>5 DEF l

LEMMA SiblingMoves ==
    ASSUME NEW n \in Nests
    PROVE  Moved(n, Sibling(n), n.level, n.level) /\ Sibling(n).minimum = n.minimum
<1> DEFINE l == n.level
           kept == KeepAbove(n.anchors, l)
<1>1. l \in Nat
  BY DEF Nests
<1>2. /\ kept \in AnchorMaps
      /\ DOMAIN kept = {j \in DOMAIN n.anchors : j < l}
      /\ \A k \in DOMAIN kept : kept[k] = n.anchors[k]
      /\ AnchorBelow(kept, l) \in Parents
  BY <1>1, KeptAbove, AnchorType DEF Nests
<1>3. Sibling(n) = [n EXCEPT !.level = l, !.anchors = kept, !.parent = AnchorBelow(kept, l)]
  BY DEF Sibling, Nests
<1> HIDE DEF l, kept
<1>4. Moved(n, Sibling(n), l, l)
  BY <1>1, <1>2, <1>3, MovedBy
<1>5. Sibling(n).minimum = n.minimum
  BY <1>3 DEF Nests
<1> QED
  BY <1>4, <1>5 DEF l

LEMMA ExitMoves ==
    ASSUME NEW n \in Nests
    PROVE  \E l \in Nat : /\ Moved(n, Exit(n), l, l + 1)
                          /\ Exit(n).minimum = n.minimum
                          /\ n.level >= 5 /\ n.minimum = 6 => l >= 5
<1> DEFINE l == IF n.level - 1 > n.minimum THEN n.level - 1
                ELSE IF n.minimum < n.level THEN n.minimum ELSE n.level
           top == l + 1
           kept == KeepAbove(n.anchors, top)
<1>1. l \in Nat /\ top \in Nat /\ (n.level >= 5 /\ n.minimum = 6 => l >= 5)
  BY DEF Nests
<1>2. /\ kept \in AnchorMaps
      /\ DOMAIN kept = {j \in DOMAIN n.anchors : j < top}
      /\ \A k \in DOMAIN kept : kept[k] = n.anchors[k]
      /\ AnchorBelow(kept, l) \in Parents
  BY <1>1, KeptAbove, AnchorType DEF Nests
<1>3. Exit(n) = [n EXCEPT !.level = l, !.anchors = kept, !.parent = AnchorBelow(kept, l)]
  BY DEF Exit
<1> HIDE DEF l, top, kept
<1>4. Moved(n, Exit(n), l, top)
  BY <1>1, <1>2, <1>3, MovedBy
<1>5. Exit(n).minimum = n.minimum
  BY <1>3 DEF Nests
<1> QED
  BY <1>1, <1>4, <1>5 DEF top

(* A record anchors its level when nothing does yet.                       *)
LEMMA RecordedAnchors ==
    ASSUME NEW n \in Nests, NEW r \in Records
    PROVE  LET m == Recorded(n, r) IN
           /\ m \in Nests
           /\ m.level = n.level /\ m.minimum = n.minimum /\ m.parent = n.parent
           /\ DOMAIN m.anchors = DOMAIN n.anchors \cup {n.level}
           /\ \A k \in DOMAIN n.anchors : m.anchors[k] = n.anchors[k]
           /\ n.level \notin DOMAIN n.anchors => m.anchors[n.level] = r
<1>1. CASE n.level \in DOMAIN n.anchors
  BY <1>1 DEF Recorded, Nests
<1>2. CASE n.level \notin DOMAIN n.anchors
  <2> DEFINE L == DOMAIN n.anchors \cup {n.level}
             a == [k \in L |-> IF k = n.level THEN r ELSE n.anchors[k]]
  <2>1. /\ DOMAIN n.anchors \subseteq Nat /\ n.level \in Nat
        /\ \A k \in DOMAIN n.anchors : n.anchors[k] \in Records
    BY DEF Nests, AnchorMaps
  <2>2. a \in AnchorMaps
    <3>1. L \in SUBSET Nat
      BY <2>1
    <3>2. a \in [L -> Records]
      BY <2>1
    <3> QED
      BY <3>1, <3>2 DEF AnchorMaps
  <2>3. Recorded(n, r) = [level |-> n.level, minimum |-> n.minimum, anchors |-> a,
                          parent |-> n.parent]
    BY <1>2 DEF Recorded, Nests
  <2>4. /\ DOMAIN a = L
        /\ \A k \in DOMAIN n.anchors : a[k] = n.anchors[k]
        /\ a[n.level] = r
    BY <1>2
  <2> HIDE DEF a
  <2> QED
    BY <2>2, <2>3, <2>4 DEF Nests
<1> QED
  BY <1>1, <1>2

-----------------------------------------------------------------------------
(* Types.                                                                  *)

EvidenceOK ==
    /\ nest \in Nests
    /\ record.id \in Records /\ record.parent \in Parents
    /\ faults \in 0 .. MaxFaults

LEMMA FaultCounts == EvidenceOK /\ Fault => faults' \in 0 .. MaxFaults
  BY StepAssumption DEF EvidenceOK, Fault

LEMMA LoggedIsEvidence ==
    ASSUME NEW n \in Nests, NEW t, NEW i, Rec(t, i) \in Records, Log(n, t, i)
    PROVE  nest' \in Nests /\ record'.id \in Records /\ record'.parent \in Parents
<1>1. nest' \in Nests
  BY RecordedAnchors DEF Log
<1>2. n.parent \in Parents
  BY DEF Nests
<1> QED
  BY <1>1, <1>2 DEF Log

LEMMA NotedIsNest ==
    ASSUME NEW n \in Nests, NEW i, Rec("NOTICE", i) \in Records, NEW m \in Noted(n, i)
    PROVE  m \in Nests
  BY RecordedAnchors DEF Noted

(* However a record is dealt with, the cursor stays one.                   *)
LEMMA RecordingIsEvidence ==
    ASSUME EvidenceOK, NEW n \in Nests, NEW t, NEW i, Rec(t, i) \in Records,
           Rec("NOTICE", i) \in Records,
           \/ Kept(n, t, i)
           \/ Missing(n, i)
           \/ Log(n, t, i) /\ (Fault \/ UNCHANGED faults)
           \/ Lost(n, i)
    PROVE  EvidenceOK'
<1>1. CASE Lost(n, i)
  BY <1>1, FaultCounts, NotedIsNest DEF Lost, EvidenceOK
<1>2. CASE Log(n, t, i) /\ (Fault \/ UNCHANGED faults)
  BY <1>2, FaultCounts, LoggedIsEvidence DEF EvidenceOK
<1> QED
  BY <1>1, <1>2 DEF Kept, Missing

LEMMA Moves ==
    ASSUME NEW n \in Nests
    PROVE  /\ SetLevel(n, Base.workflow) \in Nests
           /\ SetLevel(n, Base.workflow_step) \in Nests
           /\ Enter(n) \in Nests /\ Sibling(n) \in Nests /\ Exit(n) \in Nests
<1>1. Base.workflow = 4 /\ Base.workflow_step = 5
  BY DEF Base
<1>2. SetLevel(n, 4) \in Nests /\ SetLevel(n, 5) \in Nests
  BY SetLevelMoves DEF Moved
<1>3. Enter(n) \in Nests
  BY EnterMoves DEF Moved
<1>4. Sibling(n) \in Nests
  BY SiblingMoves DEF Moved
<1>5. Exit(n) \in Nests
  BY ExitMoves DEF Moved
<1> QED
  BY <1>1, <1>2, <1>3, <1>4, <1>5

LEMMA RecordsOf ==
    ASSUME NEW i \in Steps \cup {0}
    PROVE  /\ Rec("APP_START", i) \in Records /\ Rec("RUN_START", i) \in Records
           /\ Rec("STEP_START", i) \in Records /\ Rec("EVIDENCE", i) \in Records
           /\ Rec("STEP_END", i) \in Records /\ Rec("RUN_COMPLETE", i) \in Records
           /\ Rec("NOTICE", i) \in Records
  BY DEF Records

LEMMA EvidenceStep ==
    ASSUME EvidenceOK, here \in Steps \cup {0}, todo \subseteq Steps, [Next]_vars
    PROVE  EvidenceOK'
<1>0. nest \in Nests
  BY DEF EvidenceOK
<1>1. ASSUME NEW q \in Requests, Direct(q) PROVE EvidenceOK'
  BY <1>1 DEF Direct, EvidenceOK, evidence
<1>2. CASE Start
  BY <1>0, <1>2, Moves, RecordsOf, RecordingIsEvidence DEF Start
<1>3. CASE HoldBack \/ Release
  <2>1. PICK i \in todo : /\ nest' \in Noted(SetLevel(nest, Base.workflow_step), i)
                          /\ UNCHANGED record /\ (Fault \/ UNCHANGED faults)
    BY <1>3 DEF HoldBack, Release
  <2>2. Rec("NOTICE", i) \in Records
    BY RecordsOf
  <2>3. nest' \in Nests
    BY <1>0, <2>1, <2>2, Moves, NotedIsNest
  <2> QED
    BY <2>1, <2>3, FaultCounts DEF EvidenceOK
<1>5. CASE Open
  BY <1>0, <1>5, RecordsOf, RecordingIsEvidence DEF Open
<1>6. CASE Operate
  <2> DEFINE n == Enter(nest)
  <2>1. n \in Nests /\ Sibling(n) \in Nests
    BY <1>0, Moves
  <2>2. Enter(Recorded(n, Rec("EVIDENCE", here))) \in Nests
    BY <2>1, Moves, RecordsOf, RecordedAnchors
  <2>3. PICK m \in {n, Enter(Recorded(n, Rec("EVIDENCE", here))), Sibling(n)} :
           Log(m, "EVIDENCE", here)
    BY <1>6 DEF Operate
  <2>4. /\ m \in Nests /\ UNCHANGED faults
        /\ Rec("EVIDENCE", here) \in Records /\ Rec("NOTICE", here) \in Records
    BY <1>6, <2>1, <2>2, <2>3, RecordsOf DEF Operate, bounds
  <2> QED
    BY <2>3, <2>4, RecordingIsEvidence
<1>7. CASE Close
  <2> DEFINE n == IF result = "not run" THEN Enter(nest) ELSE nest
  <2>1. n \in Nests /\ Exit(n) \in Nests
    BY <1>0, Moves
  <2>2. Rec("STEP_END", here) \in Records /\ Rec("NOTICE", here) \in Records
    BY RecordsOf
  <2>3. \/ Kept(n, "STEP_END", here)
        \/ Fault /\ UNCHANGED record /\ nest' \in {Exit(m) : m \in Noted(n, here)}
        \/ /\ Fault
           /\ nest' = Exit(Recorded(n, Rec("STEP_END", here)))
           /\ record' = [id |-> Rec("STEP_END", here), parent |-> n.parent]
    BY <1>7 DEF Close
  <2> HIDE DEF n
  <2>4. CASE Kept(n, "STEP_END", here)
    BY <2>1, <2>2, <2>4, RecordingIsEvidence
  <2>5. CASE Fault /\ UNCHANGED record /\ nest' \in {Exit(m) : m \in Noted(n, here)}
    BY <2>1, <2>2, <2>5, NotedIsNest, Moves, FaultCounts DEF EvidenceOK
  <2>6. CASE /\ Fault
             /\ nest' = Exit(Recorded(n, Rec("STEP_END", here)))
             /\ record' = [id |-> Rec("STEP_END", here), parent |-> n.parent]
    <3>1. nest' \in Nests
      BY <2>1, <2>2, <2>6, RecordedAnchors, Moves
    <3>2. n.parent \in Parents
      BY <2>1 DEF Nests
    <3> QED
      BY <2>2, <2>6, <3>1, <3>2, FaultCounts DEF EvidenceOK
  <2> QED
    BY <2>3, <2>4, <2>5, <2>6
<1>8. CASE Finish
  BY <1>0, <1>8, Moves, FaultCounts DEF Finish, EvidenceOK
<1>9. CASE Refusal
  BY <1>0, <1>9, Moves, RecordsOf, RecordingIsEvidence DEF Refusal
<1>10. CASE Complete
  <2> DEFINE n == IF request.enabled THEN SetLevel(nest, Base.workflow) ELSE nest
  <2>1. n \in Nests /\ Rec("RUN_COMPLETE", 0) \in Records /\ Rec("NOTICE", 0) \in Records
    BY <1>0, Moves, RecordsOf
  <2>2. \/ Log(n, "RUN_COMPLETE", 0) /\ UNCHANGED faults
        \/ Lost(n, 0)
        \/ Missing(n, 0)
    BY <1>10 DEF Complete
  <2> HIDE DEF n
  <2> QED
    BY <2>1, <2>2, RecordingIsEvidence
<1>11. ASSUME NEW s, Terminate(s) PROVE EvidenceOK'
  BY <1>0, <1>11, Moves DEF Terminate, EvidenceOK, bounds
<1>12. CASE End
  BY <1>12 DEF End, EvidenceOK, evidence, bounds
<1>13. CASE FinishRun
  BY <1>13, FaultCounts DEF FinishRun, EvidenceOK, evidence
<1>14. CASE Collect
  BY <1>14, FaultCounts DEF Collect, EvidenceOK, evidence
<1>15. CASE UNCHANGED vars
  BY <1>15 DEF vars, EvidenceOK, evidence, bounds
<1> QED
  BY <1>1, <1>2, <1>3, <1>5, <1>6, <1>7, <1>8, <1>9, <1>10, <1>11, <1>12, <1>13,
     <1>14, <1>15 DEF Next

(* Where the thread is in the life of a step. *)
Stepping == {"open", "operate", "close", "finish"}

TypeInv == TypeOK /\ EvidenceOK /\ (pc \in Stepping => here \in Steps)

LEMMA SelectType ==
    ASSUME NEW q \in Requests, ~Unselectable(q)
    PROVE  Select(q) \subseteq Steps
<1>1. \A x \in Identifiers : Means[x] \subseteq Steps
  BY StepAssumption
<1>2. \A x : Spans(x) => Span(x) \subseteq Steps
  BY <1>1 DEF Spans, Span, Resolves, Holds
<1>3. CASE q.step # Anything
  BY <1>2, <1>3 DEF Select, Unselectable
<1>4. CASE q.step = Anything
  BY <1>4 DEF Select
<1> QED
  BY <1>3, <1>4

LEMMA StatusType == Status \in Statuses
  BY DEF Status, Statuses

(* The cursor at first: at the level of the application, which APP_START   *)
(* anchors.                                                                *)
LEMMA CursorAtFirst ==
    LET n == Recorded(SetLevel(Fresh, Base.app), Rec("APP_START", 0)) IN
    /\ n \in Nests /\ n.level = 3
    /\ DOMAIN n.anchors = {3} /\ n.anchors[3] = Rec("APP_START", 0)
<1> DEFINE n == SetLevel(Fresh, 3)
<1>1. Base.app = 3
  BY DEF Base
<1>2. Fresh \in Nests /\ DOMAIN Fresh.anchors = {}
  <2>1. <<>> \in [{} -> Records] /\ {} \in SUBSET Nat
    OBVIOUS
  <2>2. <<>> \in AnchorMaps /\ DOMAIN <<>> = {}
    BY <2>1 DEF AnchorMaps
  <2> QED
    BY <2>2 DEF Fresh, Nests, Parents
<1>3. n \in Nests /\ n.level = 3 /\ DOMAIN n.anchors = {}
  <2>1. Moved(Fresh, n, 3, 3)
    BY <1>2, SetLevelMoves
  <2> QED
    BY <1>2, <2>1 DEF Moved
<1>4. Rec("APP_START", 0) \in Records
  BY RecordsOf
<1> HIDE DEF n
<1>5. LET m == Recorded(n, Rec("APP_START", 0)) IN
      m \in Nests /\ m.level = 3 /\ DOMAIN m.anchors = {3}
      /\ m.anchors[3] = Rec("APP_START", 0)
  BY <1>3, <1>4, RecordedAnchors
<1> QED
  BY <1>1, <1>5 DEF n

(* The rest of TypeOK, in the parts that a proof of it takes one by one.   *)
DirectionOK ==
    /\ rules \in Rules /\ request \in Requests
    /\ selected \subseteq Steps /\ observed \subseteq Steps /\ todo \subseteq Steps
    /\ stepState \in [Steps -> Statuses \cup {"PENDING", "RUNNING"}]
    /\ runs \in [Steps -> Statuses \cup {"none", "RUNNING"}]
    /\ firstFailure \in Steps \cup {0} /\ here \in Steps \cup {0}
    /\ step \in Steps \cup {0}
    /\ pc \in Stepping => here \in Steps

StandingOK ==
    /\ state \in {"IDLE", "RUNNING", "SUCCEEDED", "FAILED"}
    /\ running \in BOOLEAN
    /\ pc \in Directing \cup {"ready", "ending", "collect", "gone"}
    /\ result \in Results
    /\ outcome \in {"none", "SUCCEEDED", "FAILED", "refused", "raised"}
    /\ completion \in {"none", "success", "failed", "refused"}

EndingOK ==
    /\ appRun \in {"RUNNING", "SUCCEEDED", "FAILED", "ABORTED"}
    /\ terminated \in {"none", "SUCCEEDED", "ABORTED"}
    /\ directions \in 0 .. MaxDirections

LEMMA TypeParts == TypeInv <=> EvidenceOK /\ DirectionOK /\ StandingOK /\ EndingOK
<1>1. EvidenceOK => /\ nest.level \in Nat
                    /\ record.id \in Records /\ record.parent \in Records \cup {NoRecord}
                    /\ faults \in 0 .. MaxFaults
  BY DEF EvidenceOK, Nests, Parents
<1> QED
  BY <1>1 DEF TypeInv, TypeOK, DirectionOK, StandingOK, EndingOK

LEMMA TypeInit == Init => TypeInv
<1> SUFFICES ASSUME Init PROVE TypeInv
  OBVIOUS
<1>1. nest \in Nests /\ Rec("APP_START", 0) \in Records
  BY CursorAtFirst, RecordsOf DEF Init
<1>2. EvidenceOK
  BY <1>1, StepAssumption DEF Init, EvidenceOK, Parents
<1>3. DirectionOK
  BY DEF Init, DirectionOK, Stepping
<1>4. StandingOK
  BY DEF Init, StandingOK, Results
<1>5. EndingOK
  BY StepAssumption DEF Init, EndingOK
<1> QED
  BY <1>2, <1>3, <1>4, <1>5, TypeParts

LEMMA DirectionStep == TypeInv /\ [Next]_vars => DirectionOK'
<1> SUFFICES ASSUME DirectionOK, [Next]_vars PROVE DirectionOK'
  BY TypeParts
<1> USE DEF DirectionOK, Stepping
<1>1. ASSUME NEW q \in Requests, Direct(q) PROVE DirectionOK'
  <2>1. selected' \subseteq Steps /\ todo' \subseteq Steps
    BY <1>1, SelectType DEF Direct
  <2>2. runs' \in [Steps -> Statuses \cup {"none", "RUNNING"}]
    BY <1>1 DEF Direct
  <2> QED
    BY <1>1, <2>1, <2>2 DEF Direct, Leave, ClearedObserved, ambient
<1>2. CASE Start
  BY <1>2 DEF Start, Leave
<1>3. CASE HoldBack
  BY <1>3 DEF HoldBack, Leave
<1>4. CASE Release
  BY <1>4 DEF Release, Becomes, ambient
<1>5. CASE Open
  BY <1>5 DEF Open, StepRaises, Leave
<1>6. CASE Operate
  BY <1>6 DEF Operate, workflow, ambient
<1>7. CASE Close
  BY <1>7 DEF Close, StepRaises, Leave, ambient
<1>8. CASE Finish
  <2>1. firstFailure' \in Steps \cup {0}
    BY <1>8 DEF Finish, NoteFailure
  <2>2. stepState' \in [Steps -> Statuses \cup {"PENDING", "RUNNING"}]
    BY <1>8, StatusType DEF Finish, Becomes
  <2>3. runs' \in [Steps -> Statuses \cup {"none", "RUNNING"}]
    BY <1>8, StatusType DEF Finish
  <2>4. observed' \subseteq Steps
    BY <1>8 DEF Finish, Becomes
  <2> QED
    BY <1>8, <2>1, <2>2, <2>3, <2>4 DEF Finish, StepRaises, Leave
<1>9. CASE Refusal
  BY <1>9 DEF Refusal, Leave
<1>10. CASE Complete
  BY <1>10 DEF Complete, Leave
<1>11. ASSUME NEW s \in {"SUCCEEDED", "ABORTED"}, Terminate(s) PROVE DirectionOK'
  BY <1>11 DEF Terminate
<1>12. CASE End
  BY <1>12 DEF End, workflow, ambient
<1>13. CASE FinishRun
  BY <1>13 DEF FinishRun, workflow
<1>14. CASE Collect
  BY <1>14 DEF Collect, workflow, ambient
<1>15. CASE UNCHANGED vars
  BY <1>15 DEF vars, workflow, thread, ambient
<1> QED
  BY <1>1, <1>2, <1>3, <1>4, <1>5, <1>6, <1>7, <1>8, <1>9, <1>10, <1>11, <1>12,
     <1>13, <1>14, <1>15 DEF Next

LEMMA StandingStep == TypeInv /\ [Next]_vars => StandingOK'
<1> SUFFICES ASSUME StandingOK, [Next]_vars PROVE StandingOK'
  BY TypeParts
<1> USE DEF StandingOK
<1>1. ASSUME NEW q \in Requests, Direct(q) PROVE StandingOK'
  BY <1>1 DEF Direct, Leave, Directing, Results
<1>2. CASE Start
  BY <1>2 DEF Start, Leave, Directing
<1>3. CASE HoldBack
  BY <1>3 DEF HoldBack, Leave, Directing, Results
<1>4. CASE Release
  BY <1>4 DEF Release, Directing, Results
<1>5. CASE Open
  BY <1>5 DEF Open, StepRaises, Leave, Directing
<1>6. CASE Operate
  BY <1>6 DEF Operate, workflow, Directing, Results
<1>7. CASE Close
  BY <1>7 DEF Close, StepRaises, Leave, Directing
<1>8. CASE Finish
  BY <1>8 DEF Finish, StepRaises, Leave, Directing
<1>9. CASE Refusal
  BY <1>9 DEF Refusal, Leave
<1>10. CASE Complete
  <2>1. Outcome \in {"SUCCEEDED", "FAILED", "refused"}
    BY DEF Outcome
  <2> QED
    BY <1>10, <2>1 DEF Complete, Leave
<1>11. ASSUME NEW s \in {"SUCCEEDED", "ABORTED"}, Terminate(s) PROVE StandingOK'
  BY <1>11 DEF Terminate
<1>12. CASE End
  BY <1>12 DEF End, workflow
<1>13. CASE FinishRun
  BY <1>13 DEF FinishRun, workflow
<1>14. CASE Collect
  BY <1>14 DEF Collect, workflow
<1>15. CASE UNCHANGED vars
  BY <1>15 DEF vars, workflow, thread
<1> QED
  BY <1>1, <1>2, <1>3, <1>4, <1>5, <1>6, <1>7, <1>8, <1>9, <1>10, <1>11, <1>12,
     <1>13, <1>14, <1>15 DEF Next

LEMMA EndingStep == TypeInv /\ [Next]_vars => EndingOK'
<1> SUFFICES ASSUME EndingOK, [Next]_vars PROVE EndingOK'
  BY TypeParts
<1>1. CASE UNCHANGED <<appRun, terminated, directions>>
  BY <1>1 DEF EndingOK
<1>2. ASSUME NEW q \in Requests, Direct(q) PROVE EndingOK'
  BY <1>2, StepAssumption DEF Direct, EndingOK
<1>3. ASSUME NEW s \in {"SUCCEEDED", "ABORTED"}, Terminate(s) PROVE EndingOK'
  BY <1>3 DEF Terminate, EndingOK, bounds
<1>4. CASE FinishRun
  BY <1>4 DEF FinishRun, Declared, EndingOK
<1>5. ASSUME Start \/ HoldBack \/ Release \/ Open \/ Operate \/ Close \/ Finish
             \/ Refusal \/ Complete \/ End \/ Collect \/ UNCHANGED vars
      PROVE  UNCHANGED <<appRun, terminated, directions>>
  BY <1>5 DEF Start, HoldBack, Release, Open, Operate, Close, Finish, Refusal, Complete,
     End, Collect, vars, bounds
<1> QED
  BY <1>1, <1>2, <1>3, <1>4, <1>5 DEF Next

LEMMA TypeStep == TypeInv /\ [Next]_vars => TypeInv'
<1> SUFFICES ASSUME TypeInv, [Next]_vars PROVE TypeInv'
  OBVIOUS
<1>1. EvidenceOK /\ here \in Steps \cup {0} /\ todo \subseteq Steps
  BY TypeParts DEF DirectionOK
<1>2. EvidenceOK'
  BY <1>1, EvidenceStep
<1>3. TypeInv' <=> (EvidenceOK /\ DirectionOK /\ StandingOK /\ EndingOK)'
  BY TypeParts, PTL
<1> QED
  BY <1>2, <1>3, DirectionStep, StandingStep, EndingStep

(* Every variable of the direction keeps its type.                         *)
THEOREM TypeCorrect == Spec => []TypeOK
<1>1. TypeInv => TypeOK
  BY DEF TypeInv
<1> QED
  BY <1>1, TypeInit, TypeStep, PTL DEF Spec

-----------------------------------------------------------------------------
(* What a direction opens and undoes.                                      *)

(* While a direction goes on nothing is reported of it; between two there  *)
(* is a lock to be had and no step bound.                                  *)
FlowInv ==
    /\ pc \in Directing => /\ state = "RUNNING" /\ running
                           /\ outcome = "none" /\ completion = "none"
    /\ pc \notin Directing => ~running /\ state # "RUNNING"
    /\ pc \notin {"operate", "close", "finish"} => step = 0

LEMMA FlowStep == StandingOK /\ FlowInv /\ [Next]_vars => FlowInv'
<1> SUFFICES ASSUME StandingOK, FlowInv, [Next]_vars PROVE FlowInv'
  OBVIOUS
<1> USE DEF FlowInv, Directing
<1>1. ASSUME NEW q \in Requests, Direct(q) PROVE FlowInv'
  BY <1>1 DEF Direct, Leave, ambient
<1>2. CASE Start
  BY <1>2 DEF Start, Leave
<1>3. CASE HoldBack
  <2>1. pc = "next" /\ step' = step
        /\ \/ pc' = "open" /\ UNCHANGED <<state, running, outcome, completion>>
           \/ Leave("raised")
    BY <1>3 DEF HoldBack
  <2> QED
    BY <2>1 DEF Leave
<1>4. CASE Release
  BY <1>4 DEF Release, ambient
<1>5. CASE Open
  BY <1>5 DEF Open, StepRaises, Leave
<1>6. CASE Operate
  BY <1>6 DEF Operate, workflow, ambient
<1>7. CASE Close
  BY <1>7 DEF Close, StepRaises, Leave, ambient
<1>8. CASE Finish
  BY <1>8 DEF Finish, StepRaises, Leave
<1>9. CASE Refusal
  BY <1>9 DEF Refusal, Leave
<1>10. CASE Complete
  BY <1>10 DEF Complete, Leave, Outcome
<1>11. ASSUME NEW s \in {"SUCCEEDED", "ABORTED"}, Terminate(s) PROVE FlowInv'
  BY <1>11 DEF Terminate
<1>12. CASE End
  BY <1>12 DEF End, workflow, ambient
<1>13. CASE FinishRun
  BY <1>13 DEF FinishRun, workflow
<1>14. CASE Collect
  BY <1>14 DEF Collect, workflow, ambient
<1>15. CASE UNCHANGED vars
  BY <1>15 DEF vars, workflow, thread, ambient
<1> QED
  BY <1>1, <1>2, <1>3, <1>4, <1>5, <1>6, <1>7, <1>8, <1>9, <1>10, <1>11, <1>12,
     <1>13, <1>14, <1>15 DEF Next

(* The ambient binding outside a direction and in one: by the frames, what *)
(* they restore.                                                           *)
Frames(b) == /\ DOMAIN b.frames = {Main}
             /\ b.frames[Main] \in Seq({NoRun, AppLog})

Outside(b) ==
    /\ Frames(b)
    /\ \/ b.run = NoRun /\ Len(b.frames[Main]) = 0
       \/ b.run = AppLog /\ Len(b.frames[Main]) = 1 /\ b.frames[Main][1] = NoRun

Inside(b) ==
    /\ Frames(b) /\ b.run = AppLog
    /\ Len(b.frames[Main]) \in {1, 2} /\ b.frames[Main][1] = NoRun
    /\ Len(b.frames[Main]) = 2 => b.frames[Main][2] = AppLog

BindingInv == /\ pc \in Bound => Inside(binding)
              /\ pc \notin Bound => Outside(binding)

LEMMA Unbinds == Outside(Unbound({Main}))
<1>1. <<>> \in Seq({NoRun, AppLog}) /\ Len(<<>>) = 0
  OBVIOUS
<1> QED
  BY <1>1 DEF Outside, Frames, Unbound

LEMMA Binds == ASSUME NEW b, Outside(b) PROVE Inside(Bind(b, Main, AppLog))
<1> DEFINE f == [b.frames EXCEPT ![Main] = Append(@, b.run)]
           s == b.frames[Main]
<1>1. Bind(b, Main, AppLog).run = AppLog /\ Bind(b, Main, AppLog).frames = f
  BY StepAssumption DEF Bind
<1>2. DOMAIN f = {Main} /\ f[Main] = Append(s, b.run)
  BY DEF Outside, Frames
<1>3. s \in Seq({NoRun, AppLog}) /\ b.run \in {NoRun, AppLog}
  BY DEF Outside, Frames
<1>4. /\ Append(s, b.run) \in Seq({NoRun, AppLog})
      /\ Len(Append(s, b.run)) = Len(s) + 1
      /\ Append(s, b.run)[Len(s) + 1] = b.run
      /\ \A k \in 1 .. Len(s) : Append(s, b.run)[k] = s[k]
  BY <1>3
<1> HIDE DEF f
<1> QED
  BY <1>1, <1>2, <1>4 DEF Outside, Inside, Frames

LEMMA Clears == ASSUME NEW b, Inside(b) PROVE Outside(Clear(b, Main))
<1> DEFINE s == b.frames[Main]
           t == SubSeq(s, 1, Len(s) - 1)
           f == [b.frames EXCEPT ![Main] = SubSeq(@, 1, Len(@) - 1)]
<1>1. s \in Seq({NoRun, AppLog}) /\ Len(s) \in {1, 2} /\ s # <<>>
  BY DEF Inside, Frames
<1>2. Clear(b, Main).run = s[Len(s)] /\ Clear(b, Main).frames = f
  BY <1>1 DEF Clear
<1>3. DOMAIN f = {Main} /\ f[Main] = t
  BY DEF Inside, Frames
<1>4. /\ t \in Seq({NoRun, AppLog}) /\ Len(t) = Len(s) - 1
      /\ \A k \in 1 .. Len(s) - 1 : t[k] = s[k]
  BY <1>1
<1> HIDE DEF f, t
<1> QED
  BY <1>1, <1>2, <1>3, <1>4 DEF Outside, Inside, Frames

LEMMA Resets == ASSUME NEW b, Outside(b) PROVE Outside(Reset(b))
  BY Unbinds DEF Reset, Outside, Frames

LEMMA BindingStep == StandingOK /\ BindingInv /\ [Next]_vars => BindingInv'
<1> SUFFICES ASSUME StandingOK, BindingInv, [Next]_vars PROVE BindingInv'
  OBVIOUS
<1> USE DEF BindingInv, Bound, Directing
<1>1. ASSUME NEW q \in Requests, Direct(q) PROVE BindingInv'
  BY <1>1 DEF Direct, Leave, ambient
<1>2. CASE Start
  BY <1>2, Binds DEF Start, Leave
<1>3. CASE HoldBack
  BY <1>3, Clears DEF HoldBack, Leave, Unbind
<1>4. CASE Release
  BY <1>4 DEF Release, ambient
<1>5. CASE Open
  BY <1>5, Clears DEF Open, StepRaises, Leave, Unbind
<1>6. CASE Operate
  BY <1>6 DEF Operate, ambient
<1>7. CASE Close
  BY <1>7, Clears DEF Close, StepRaises, Leave, Unbind, ambient
<1>8. CASE Finish
  BY <1>8, Clears DEF Finish, StepRaises, Leave, Unbind
<1>9. CASE Refusal
  BY <1>9, Clears DEF Refusal, Leave, Unbind
<1>10. CASE Complete
  BY <1>10, Clears DEF Complete, Leave, Unbind
<1>11. ASSUME NEW s \in {"SUCCEEDED", "ABORTED"}, Terminate(s) PROVE BindingInv'
  BY <1>11, Clears DEF Terminate
<1>12. CASE End
  BY <1>12 DEF End, ambient
<1>13. CASE FinishRun
  BY <1>13, Resets DEF FinishRun
<1>14. CASE Collect
  BY <1>14 DEF Collect, ambient
<1>15. CASE UNCHANGED vars
  BY <1>15 DEF vars, thread, ambient
<1> QED
  BY <1>1, <1>2, <1>3, <1>4, <1>5, <1>6, <1>7, <1>8, <1>9, <1>10, <1>11, <1>12,
     <1>13, <1>14, <1>15 DEF Next

-----------------------------------------------------------------------------
(* The steps of a direction and their Runs.                                *)

Settled(i) == runs[i] \in Statuses

(* Only what was selected and taken up has a Run; one Run at most is open, *)
(* that of the step in hand, or the one an error left so.                  *)
RunsInv ==
    /\ todo \subseteq selected
    /\ pc \in Stepping => here \in selected \ todo
    /\ \A i \in Steps : runs[i] # "none" => i \in selected \ todo
    /\ \A i \in Steps : runs[i] = "RUNNING" =>
          /\ i = here
          /\ pc \in Stepping \cup {"refusal"} \/ (pc \notin Directing /\ outcome = "raised")

(* The selected steps are taken up one after another, in their order, and  *)
(* each is settled before the next.                                        *)
TurnInv ==
    /\ pc \in Stepping => /\ runs[here] = "RUNNING"
                          /\ \A i \in selected \ (todo \cup {here}) : Settled(i)
    /\ pc = "next" => \A i \in selected \ todo : Settled(i)
    /\ pc = "start" => todo = selected
    /\ pc \in Stepping \cup {"start", "next"} => \A i \in selected \ todo, j \in todo : i < j
    /\ outcome \in {"SUCCEEDED", "FAILED"} => \A i \in selected : Settled(i)

LEMMA RunsStep == TypeInv /\ FlowInv /\ RunsInv /\ [Next]_vars => RunsInv'
<1> SUFFICES ASSUME DirectionOK, FlowInv, RunsInv, [Next]_vars PROVE RunsInv'
  BY TypeParts
<1> USE DEF RunsInv, Directing, Stepping
<1>1. ASSUME NEW q \in Requests, Direct(q) PROVE RunsInv'
  BY <1>1 DEF Direct, Leave
<1>2. CASE Start
  BY <1>2 DEF Start, Leave
<1>3. CASE HoldBack
  <2>1. PICK i \in todo :
           /\ pc = "next" /\ todo' = todo \ {i} /\ here' = i
           /\ \/ runs' = [runs EXCEPT ![i] = "RUNNING"] /\ pc' = "open"
              \/ UNCHANGED runs /\ Leave("raised")
           /\ UNCHANGED selected
    BY <1>3 DEF HoldBack
  <2>2. i \in Steps /\ \A k \in Steps : runs[k] # "RUNNING"
    BY <2>1 DEF DirectionOK
  <2>3. CASE runs' = [runs EXCEPT ![i] = "RUNNING"] /\ pc' = "open"
    BY <2>1, <2>2, <2>3 DEF DirectionOK
  <2>4. CASE UNCHANGED runs /\ Leave("raised")
    BY <2>1, <2>2, <2>4 DEF Leave
  <2> QED
    BY <2>1, <2>3, <2>4
<1>4. CASE Release
  <2>1. PICK i \in todo :
           /\ pc = "next" /\ todo' = todo \ {i} /\ here' = i
           /\ \/ runs' = [runs EXCEPT ![i] = "RUNNING"] /\ pc' = "open"
              \/ UNCHANGED runs /\ pc' = "refusal"
           /\ UNCHANGED selected
    BY <1>4 DEF Release
  <2>2. i \in Steps /\ \A k \in Steps : runs[k] # "RUNNING"
    BY <2>1 DEF DirectionOK
  <2>3. CASE runs' = [runs EXCEPT ![i] = "RUNNING"] /\ pc' = "open"
    BY <2>1, <2>2, <2>3 DEF DirectionOK
  <2>4. CASE UNCHANGED runs /\ pc' = "refusal"
    BY <2>1, <2>2, <2>4
  <2> QED
    BY <2>1, <2>3, <2>4
<1>5. CASE Open
  BY <1>5 DEF Open, StepRaises, Leave
<1>6. CASE Operate
  BY <1>6 DEF Operate, workflow
<1>7. CASE Close
  BY <1>7 DEF Close, StepRaises, Leave
<1>8. CASE Finish
  <2>1. /\ pc = "finish" /\ UNCHANGED <<selected, todo, here>>
        /\ \/ runs' = [runs EXCEPT ![here] = Status]
           \/ UNCHANGED runs /\ StepRaises
    BY <1>8 DEF Finish
  <2>2. CASE runs' = [runs EXCEPT ![here] = Status]
    <3>1. Status # "RUNNING" /\ Status # "none"
      BY DEF Status
    <3>2. \A k \in Steps : runs'[k] # "RUNNING"
      BY <2>1, <2>2, <3>1 DEF DirectionOK
    <3>3. here \in selected \ todo
      BY <2>1
    <3>4. \A k \in Steps : runs'[k] # "none" => k \in selected \ todo
      BY <2>2, <3>1, <3>3 DEF DirectionOK
    <3> QED
      BY <2>1, <2>2, <3>2, <3>3, <3>4 DEF Finish
  <2>3. CASE UNCHANGED runs /\ StepRaises
    BY <2>1, <2>3 DEF StepRaises, Leave
  <2> QED
    BY <2>1, <2>2, <2>3
<1>9. CASE Refusal
  BY <1>9 DEF Refusal, Leave
<1>10. CASE Complete
  BY <1>10 DEF Complete, Leave
<1>11. ASSUME NEW s \in {"SUCCEEDED", "ABORTED"}, Terminate(s) PROVE RunsInv'
  BY <1>11 DEF Terminate
<1>12. CASE End
  BY <1>12 DEF End, workflow
<1>13. CASE FinishRun
  BY <1>13 DEF FinishRun, workflow
<1>14. CASE Collect
  BY <1>14 DEF Collect, workflow
<1>15. CASE UNCHANGED vars
  BY <1>15 DEF vars, workflow, thread
<1> QED
  BY <1>1, <1>2, <1>3, <1>4, <1>5, <1>6, <1>7, <1>8, <1>9, <1>10, <1>11, <1>12,
     <1>13, <1>14, <1>15 DEF Next

LEMMA TurnStep == TypeInv /\ FlowInv /\ RunsInv /\ TurnInv /\ [Next]_vars => TurnInv'
<1> SUFFICES ASSUME DirectionOK, FlowInv, RunsInv, TurnInv, [Next]_vars PROVE TurnInv'
  BY TypeParts
<1> USE DEF TurnInv, Stepping
<1>o. pc \in Directing => outcome = "none"
  BY DEF FlowInv
<1>t. todo \subseteq selected /\ (pc \in Stepping => here \in selected \ todo)
  BY DEF RunsInv
<1>n. todo \subseteq Nat /\ selected \subseteq Nat
  BY StepAssumption DEF DirectionOK
<1> USE DEF Directing
(* The next step taken up is the first of those to do. *)
<1>a. ASSUME NEW i \in todo, pc = "next", \A j \in todo : i <= j,
             todo' = todo \ {i}, here' = i, UNCHANGED selected,
             \/ /\ runs' = [runs EXCEPT ![i] = "RUNNING"] /\ pc' = "open"
                /\ UNCHANGED outcome
             \/ UNCHANGED runs /\ pc' = "refusal" /\ UNCHANGED outcome
             \/ UNCHANGED runs /\ Leave("raised")
      PROVE  TurnInv'
  <2>1. i \in Steps /\ i \in selected
    BY <1>a, <1>t DEF DirectionOK
  <2>2. CASE runs' = [runs EXCEPT ![i] = "RUNNING"] /\ pc' = "open" /\ UNCHANGED outcome
    <3>1. runs'[i] = "RUNNING" /\ \A k \in Steps \ {i} : runs'[k] = runs[k]
      BY <2>1, <2>2 DEF DirectionOK
    <3>2. \A k \in selected \ todo : Settled(k)'
      BY <1>a, <3>1 DEF Settled, DirectionOK
    <3>3. \A j \in todo' : i < j
      BY <1>a, <1>n
    <3> QED
      BY <1>a, <1>o, <2>2, <3>1, <3>2, <3>3
  <2>3. CASE UNCHANGED runs /\ pc' = "refusal" /\ UNCHANGED outcome
    BY <1>o, <1>a, <2>3
  <2>4. CASE UNCHANGED runs /\ Leave("raised")
    BY <1>a, <2>4 DEF Leave
  <2> QED
    BY <1>a, <2>2, <2>3, <2>4
<1>1. ASSUME NEW q \in Requests, Direct(q) PROVE TurnInv'
  BY <1>1 DEF Direct, Leave
<1>2. CASE Start
  <2>1. CASE pc' = "next" /\ UNCHANGED <<outcome, runs, selected, todo>>
    BY <1>2, <1>o, <2>1 DEF Start
  <2>2. CASE Leave("raised")
    BY <2>2 DEF Leave
  <2> QED
    BY <1>2, <2>1, <2>2 DEF Start
<1>3. CASE HoldBack
  BY <1>3, <1>a DEF HoldBack
<1>4. CASE Release
  BY <1>4, <1>a DEF Release
<1>5. CASE Open
  BY <1>5, <1>o DEF Open, StepRaises, Leave, Settled
<1>6. CASE Operate
  BY <1>6, <1>o DEF Operate, workflow, Settled
<1>7. CASE Close
  BY <1>7, <1>o DEF Close, StepRaises, Leave, Settled
<1>8. CASE Finish
  <2>1. CASE runs' = [runs EXCEPT ![here] = Status] /\ pc' = "next" /\ UNCHANGED outcome
    <3>1. here \in Steps /\ pc = "finish" /\ UNCHANGED <<selected, todo>>
      BY <1>8 DEF Finish, DirectionOK
    <3>2. runs'[here] = Status /\ \A k \in Steps \ {here} : runs'[k] = runs[k]
      BY <2>1, <3>1 DEF DirectionOK
    <3>3. \A k \in selected \ todo : Settled(k)'
      BY <3>1, <3>2, StatusType DEF Settled, DirectionOK
    <3>4. \A i \in selected \ todo, j \in todo : i < j
      BY <3>1
    <3> QED
      BY <1>o, <2>1, <3>1, <3>3, <3>4
  <2>2. CASE StepRaises
    BY <1>8, <1>o, <2>2 DEF Finish, StepRaises, Leave
  <2> QED
    BY <1>8, <2>1, <2>2 DEF Finish
<1>9. CASE Refusal
  BY <1>9 DEF Refusal, Leave
<1>10. CASE Complete
  <2>1. \A i \in selected : Settled(i)
    BY <1>10 DEF Complete
  <2> QED
    BY <1>10, <2>1 DEF Complete, Leave, Settled
<1>11. ASSUME NEW s \in {"SUCCEEDED", "ABORTED"}, Terminate(s) PROVE TurnInv'
  BY <1>11 DEF Terminate, Settled
<1>12. CASE End
  BY <1>12 DEF End, workflow, Settled
<1>13. CASE FinishRun
  BY <1>13 DEF FinishRun, workflow, Settled
<1>14. CASE Collect
  BY <1>14 DEF Collect, workflow, Settled
<1>15. CASE UNCHANGED vars
  BY <1>15 DEF vars, workflow, thread, Settled
<1> QED
  BY <1>1, <1>2, <1>3, <1>4, <1>5, <1>6, <1>7, <1>8, <1>9, <1>10, <1>11, <1>12,
     <1>13, <1>14, <1>15 DEF Next

(* The first failure is known as long as a step of the direction failed;   *)
(* a disabled Workflow reaches nothing; and a step runs as it was held     *)
(* back or released.                                                       *)
NoneFailed == \A i \in Steps : runs[i] # "FAILED"

FailureInv == firstFailure = 0 <=> NoneFailed

RequestInv ==
    /\ ~request.enabled => selected = {}
    /\ selected # {} => ~Unselectable(request) /\ selected = Select(request)

HeldInv ==
    /\ pc \in Stepping => (result = "not run" <=> Held(here))
    /\ pc = "operate" => result # "not run"

LEMMA FailureStep ==
    TypeInv /\ RunsInv /\ TurnInv /\ FailureInv /\ [Next]_vars => FailureInv'
<1> SUFFICES ASSUME DirectionOK, RunsInv, TurnInv, FailureInv, [Next]_vars
             PROVE  FailureInv'
  BY TypeParts
<1> USE DEF FailureInv, NoneFailed
<1>1. CASE UNCHANGED <<runs, firstFailure>>
  BY <1>1
<1>2. ASSUME NEW q \in Requests, Direct(q) PROVE FailureInv'
  BY <1>2 DEF Direct
<1>3. ASSUME NEW i \in todo, runs' = [runs EXCEPT ![i] = "RUNNING"], UNCHANGED firstFailure
      PROVE  FailureInv'
  <2>1. i \in Steps /\ runs[i] = "none"
    BY DEF RunsInv, DirectionOK
  <2> QED
    BY <1>3, <2>1 DEF DirectionOK
<1>4. CASE HoldBack \/ Release
  <2>1. \/ UNCHANGED <<runs, firstFailure>>
        \/ \E i \in todo : runs' = [runs EXCEPT ![i] = "RUNNING"] /\ UNCHANGED firstFailure
    BY <1>4 DEF HoldBack, Release
  <2> QED
    BY <1>1, <1>3, <2>1
<1>5. CASE Finish
  <2>1. here \in Steps /\ here # 0 /\ runs[here] = "RUNNING"
    BY <1>5, StepAssumption DEF Finish, TurnInv, DirectionOK, Stepping
  <2>2. CASE runs' = [runs EXCEPT ![here] = Status] /\ firstFailure' = NoteFailure
    <3>1. runs'[here] = Status /\ \A k \in Steps \ {here} : runs'[k] = runs[k]
      BY <2>1, <2>2 DEF DirectionOK
    <3>2. CASE Status = "FAILED"
      BY <2>1, <2>2, <3>1, <3>2 DEF NoteFailure
    <3>3. CASE Status # "FAILED"
      BY <2>1, <2>2, <3>1, <3>3 DEF NoteFailure
    <3> QED
      BY <3>2, <3>3
  <2> QED
    BY <1>1, <1>5, <2>2 DEF Finish
<1>6. ASSUME \/ Start \/ Open \/ Operate \/ Close \/ Refusal \/ Complete \/ End
             \/ FinishRun \/ Collect \/ UNCHANGED vars
             \/ \E s \in {"SUCCEEDED", "ABORTED"} : Terminate(s)
      PROVE  UNCHANGED <<runs, firstFailure>>
  BY <1>6 DEF Start, Open, Operate, Close, Refusal, Complete, End, FinishRun, Collect,
     Terminate, vars, workflow
<1> QED
  BY <1>1, <1>2, <1>4, <1>5, <1>6 DEF Next

(* What a step of a direction never changes. *)
LEMMA DirectionStands ==
    ASSUME [Next]_vars
    PROVE  \/ \E q \in Requests : Direct(q)
           \/ UNCHANGED <<rules, request, selected>>
<1>1. ASSUME HoldBack \/ Release PROVE UNCHANGED <<rules, request, selected>>
  BY <1>1 DEF HoldBack, Release
<1>2. ASSUME \/ Start \/ Open \/ Operate \/ Close \/ Finish \/ Refusal \/ Complete \/ End
             \/ FinishRun \/ Collect \/ UNCHANGED vars
             \/ \E s \in {"SUCCEEDED", "ABORTED"} : Terminate(s)
      PROVE  UNCHANGED <<rules, request, selected>>
  BY <1>2 DEF Start, Open, Operate, Close, Finish, Refusal, Complete, End, FinishRun,
     Collect, Terminate, vars, workflow
<1> QED
  BY <1>1, <1>2 DEF Next

LEMMA RequestStep == RequestInv /\ [Next]_vars => RequestInv'
<1> SUFFICES ASSUME RequestInv, [Next]_vars PROVE RequestInv'
  OBVIOUS
<1>1. ASSUME NEW q \in Requests, Direct(q) PROVE RequestInv'
  BY <1>1 DEF Direct, RequestInv
<1>2. CASE UNCHANGED <<rules, request, selected>>
  BY <1>2 DEF RequestInv, Unselectable, Select
<1> QED
  BY <1>1, <1>2, DirectionStands

LEMMA HeldStep == StandingOK /\ HeldInv /\ [Next]_vars => HeldInv'
<1> SUFFICES ASSUME StandingOK, HeldInv, [Next]_vars PROVE HeldInv'
  OBVIOUS
<1> USE DEF HeldInv, Stepping
<1>1. ASSUME NEW q \in Requests, Direct(q) PROVE HeldInv'
  BY <1>1 DEF Direct, Leave
<1>2. CASE Start
  BY <1>2 DEF Start, Leave
<1>3. CASE HoldBack
  <2>1. PICK i \in todo :
           /\ Held(i) /\ here' = i
           /\ \/ pc' = "open" /\ result' = "not run"
              \/ Leave("raised")
           /\ UNCHANGED <<rules, request, firstFailure>>
    BY <1>3 DEF HoldBack
  <2>2. Held(i)' = Held(i)
    BY <2>1 DEF Held
  <2> QED
    BY <2>1, <2>2 DEF Leave, Held
<1>4. CASE Release
  <2>1. PICK i \in todo :
           /\ ~Held(i) /\ here' = i
           /\ \/ pc' = "open" /\ result' = "ok"
              \/ pc' = "refusal"
           /\ UNCHANGED <<rules, request, firstFailure>>
    BY <1>4 DEF Release
  <2>2. Held(i)' = Held(i)
    BY <2>1 DEF Held
  <2> QED
    BY <2>1, <2>2 DEF Held
<1>5. CASE Open
  BY <1>5 DEF Open, StepRaises, Leave, Held
<1>6. CASE Operate
  BY <1>6 DEF Operate, workflow, Held
<1>7. CASE Close
  BY <1>7 DEF Close, StepRaises, Leave, Held
<1>8. CASE Finish
  BY <1>8 DEF Finish, StepRaises, Leave
<1>9. CASE Refusal
  BY <1>9 DEF Refusal, Leave
<1>10. CASE Complete
  BY <1>10 DEF Complete, Leave
<1>11. ASSUME NEW s \in {"SUCCEEDED", "ABORTED"}, Terminate(s) PROVE HeldInv'
  BY <1>11 DEF Terminate
<1>12. CASE End
  BY <1>12 DEF End
<1>13. CASE FinishRun
  BY <1>13 DEF FinishRun
<1>14. CASE Collect
  BY <1>14 DEF Collect
<1>15. CASE UNCHANGED vars
  BY <1>15 DEF vars, workflow, thread, Held
<1> QED
  BY <1>1, <1>2, <1>3, <1>4, <1>5, <1>6, <1>7, <1>8, <1>9, <1>10, <1>11, <1>12,
     <1>13, <1>14, <1>15 DEF Next

-----------------------------------------------------------------------------
(* What is reported and shown of a direction.                              *)

OutcomeInv ==
    pc \notin Directing =>
        /\ outcome \in {"none", "refused"} => state = "IDLE" /\ firstFailure = 0
        /\ outcome = "raised" => state = "FAILED"
        /\ outcome = "SUCCEEDED" => /\ state = "SUCCEEDED" /\ firstFailure = 0
                                    /\ completion \in {"success", "none"}
        /\ outcome = "FAILED" => state = "FAILED" /\ firstFailure # 0
        /\ completion = "success" => outcome = "SUCCEEDED"

LEMMA OutcomeStep ==
    /\ TypeInv /\ FlowInv /\ RunsInv /\ FailureInv /\ RequestInv /\ OutcomeInv
    /\ [Next]_vars
    => OutcomeInv'
<1> SUFFICES ASSUME DirectionOK, StandingOK, FlowInv, RunsInv, FailureInv, RequestInv,
                    OutcomeInv, [Next]_vars
             PROVE  OutcomeInv'
  BY TypeParts
<1> USE DEF OutcomeInv, Directing
<1>f. pc \in Directing => outcome = "none" /\ completion = "none"
  BY DEF FlowInv
<1> HIDE DEF FlowInv
<1>1. ASSUME NEW q \in Requests, Direct(q) PROVE OutcomeInv'
  BY <1>1 DEF Direct, Leave
<1>2. CASE Start
  BY <1>2, <1>f DEF Start, Leave
<1>3. CASE HoldBack
  <2>1. \/ pc' = "open"
        \/ pc = "next" /\ Leave("raised") /\ UNCHANGED completion
    BY <1>3 DEF HoldBack
  <2> QED
    BY <1>f, <2>1 DEF Leave
<1>4. CASE Release
  BY <1>4 DEF Release
<1>5. CASE Open
  BY <1>5, <1>f DEF Open, StepRaises, Leave
<1>6. CASE Operate
  BY <1>6 DEF Operate
<1>7. CASE Close
  BY <1>7, <1>f DEF Close, StepRaises, Leave
<1>8. CASE Finish
  BY <1>8, <1>f DEF Finish, StepRaises, Leave
<1>9. CASE Refusal
  BY <1>9, <1>f DEF Refusal, Leave
<1>10. CASE Complete
  <2>1. ~request.enabled => firstFailure = 0
    BY DEF RequestInv, RunsInv, FailureInv, NoneFailed
  <2>2. /\ pc = "next" /\ UNCHANGED firstFailure
        /\ \/ /\ completion' = IF Outcome = "SUCCEEDED" THEN "success"
                               ELSE IF Outcome = "FAILED" THEN "failed" ELSE "refused"
              /\ Leave(Outcome)
           \/ UNCHANGED completion /\ Leave(Outcome)
           \/ UNCHANGED completion /\ Leave("raised")
    BY <1>10 DEF Complete
  <2>3. CASE ~request.enabled
    <3>1. Outcome = "refused"
      BY <2>3 DEF Outcome
    <3> QED
      BY <1>f, <2>1, <2>2, <2>3, <3>1 DEF Leave
  <2>4. CASE request.enabled /\ firstFailure = 0
    <3>1. Outcome = "SUCCEEDED"
      BY <2>4 DEF Outcome
    <3> QED
      BY <1>f, <2>2, <2>4, <3>1 DEF Leave
  <2>5. CASE request.enabled /\ firstFailure # 0
    <3>1. Outcome = "FAILED"
      BY <2>5 DEF Outcome
    <3> QED
      BY <1>f, <2>2, <2>5, <3>1 DEF Leave
  <2> QED
    BY <2>3, <2>4, <2>5
<1>11. ASSUME NEW s \in {"SUCCEEDED", "ABORTED"}, Terminate(s) PROVE OutcomeInv'
  BY <1>11, <1>f DEF Terminate
<1>12. CASE End
  BY <1>12 DEF End, workflow
<1>13. CASE FinishRun
  BY <1>13 DEF FinishRun, workflow
<1>14. CASE Collect
  BY <1>14 DEF Collect, workflow
<1>15. CASE UNCHANGED vars
  BY <1>15 DEF vars, workflow, thread
<1> QED
  BY <1>1, <1>2, <1>3, <1>4, <1>5, <1>6, <1>7, <1>8, <1>9, <1>10, <1>11, <1>12,
     <1>13, <1>14, <1>15 DEF Next

(* What was observed of a step is that its Run goes on, or how it ended.   *)
ObservedInv ==
    \A i \in observed : /\ runs[i] # "none"
                        /\ stepState[i] = "RUNNING" \/ stepState[i] = runs[i]

LEMMA ObservedStep == TypeInv /\ RunsInv /\ ObservedInv /\ [Next]_vars => ObservedInv'
<1> SUFFICES ASSUME DirectionOK, RunsInv, ObservedInv, [Next]_vars PROVE ObservedInv'
  BY TypeParts
<1> USE DEF ObservedInv
<1>1. CASE UNCHANGED <<runs, observed, stepState>>
  BY <1>1
<1>2. ASSUME NEW q \in Requests, Direct(q) PROVE ObservedInv'
  BY <1>2 DEF Direct, ClearedObserved
<1>3. ASSUME NEW i \in todo, runs' = [runs EXCEPT ![i] = "RUNNING"],
             UNCHANGED <<observed, stepState>> \/ Becomes(i, "RUNNING")
      PROVE  ObservedInv'
  <2>1. i \in Steps /\ i \notin observed
    BY DEF DirectionOK, RunsInv
  <2> QED
    <3>1. runs'[i] = "RUNNING" /\ \A k \in Steps \ {i} : runs'[k] = runs[k]
      BY <1>3, <2>1 DEF DirectionOK
    <3>2. CASE UNCHANGED <<observed, stepState>>
      BY <2>1, <3>1, <3>2 DEF DirectionOK
    <3>3. CASE Becomes(i, "RUNNING")
      <4>1. stepState'[i] = "RUNNING" /\ \A k \in Steps \ {i} : stepState'[k] = stepState[k]
        BY <2>1, <3>3 DEF DirectionOK, Becomes
      <4>2. observed' = observed \cup {i}
        BY <3>3 DEF Becomes
      <4> QED
        BY <3>1, <4>1, <4>2 DEF DirectionOK
    <3> QED
      BY <1>3, <3>2, <3>3
<1>4. CASE HoldBack \/ Release
  <2>1. \/ UNCHANGED <<runs, observed, stepState>>
        \/ \E i \in todo : /\ runs' = [runs EXCEPT ![i] = "RUNNING"]
                           /\ UNCHANGED <<observed, stepState>> \/ Becomes(i, "RUNNING")
    BY <1>4 DEF HoldBack, Release
  <2> QED
    BY <1>1, <1>3, <2>1
<1>5. CASE Finish
  <2>1. here \in Steps
    BY <1>5 DEF Finish, DirectionOK, Stepping
  <2>2. CASE runs' = [runs EXCEPT ![here] = Status] /\ Becomes(here, Status)
    <3>1. Status # "none"
      BY DEF Status
    <3> QED
      BY <2>1, <2>2, <3>1 DEF DirectionOK, Becomes
  <2> QED
    BY <1>1, <1>5, <2>2 DEF Finish
<1>6. ASSUME \/ Start \/ Open \/ Operate \/ Close \/ Refusal \/ Complete \/ End
             \/ FinishRun \/ Collect \/ UNCHANGED vars
             \/ \E s \in {"SUCCEEDED", "ABORTED"} : Terminate(s)
      PROVE  UNCHANGED <<runs, observed, stepState>>
  BY <1>6 DEF Start, Open, Operate, Close, Refusal, Complete, End, FinishRun, Collect,
     Terminate, vars, workflow
<1> QED
  BY <1>1, <1>2, <1>4, <1>5, <1>6 DEF Next

-----------------------------------------------------------------------------
(* The direction's invariant.                                              *)

DirectionInv ==
    /\ TypeInv /\ FlowInv /\ BindingInv /\ RunsInv /\ TurnInv /\ FailureInv
    /\ RequestInv /\ HeldInv /\ OutcomeInv /\ ObservedInv

LEMMA DirectionInit == Init => DirectionInv
<1> SUFFICES ASSUME Init PROVE DirectionInv
  OBVIOUS
<1>1. pc = "ready" /\ outcome = "none" /\ selected = {} /\ todo = {}
      /\ runs = [i \in Steps |-> "none"] /\ firstFailure = 0
  BY DEF Init
<1>2. FlowInv
  BY DEF Init, FlowInv, Directing
<1>3. BindingInv
  <2>1. Outside(Bind(Unbound({Main}), Main, AppLog))
    <3> DEFINE b == Bind(Unbound({Main}), Main, AppLog)
    <3> DEFINE e == [t \in {Main} |-> <<>>]
    <3>0. e[Main] = <<>> /\ DOMAIN e = {Main}
      OBVIOUS
    <3>1. b.run = AppLog /\ b.frames = [e EXCEPT ![Main] = Append(@, NoRun)]
      BY StepAssumption DEF Bind, Unbound
    <3>2. /\ <<>> \in Seq({NoRun, AppLog}) /\ Append(<<>>, NoRun) \in Seq({NoRun, AppLog})
          /\ Len(Append(<<>>, NoRun)) = 1 /\ Append(<<>>, NoRun)[1] = NoRun
      OBVIOUS
    <3> HIDE DEF e
    <3>3. DOMAIN b.frames = {Main} /\ b.frames[Main] = Append(<<>>, NoRun)
      BY <3>0, <3>1
    <3> HIDE DEF b
    <3>4. Outside(b)
      BY <3>1, <3>2, <3>3 DEF Outside, Frames
    <3> QED
      BY <3>4 DEF b
  <2> QED
    BY <1>1, <2>1, Unbinds DEF Init, BindingInv, Bound, Directing
<1>4. RunsInv /\ TurnInv
  BY <1>1 DEF RunsInv, TurnInv, Stepping, Directing
<1>5. FailureInv /\ RequestInv /\ HeldInv
  BY <1>1 DEF FailureInv, NoneFailed, RequestInv, HeldInv, Stepping
<1>6. OutcomeInv /\ ObservedInv
  BY <1>1 DEF Init, OutcomeInv, ObservedInv
<1> QED
  BY <1>2, <1>3, <1>4, <1>5, <1>6, TypeInit DEF DirectionInv

LEMMA DirectionAlways == Spec => []DirectionInv
<1>1. DirectionInv /\ [Next]_vars => DirectionInv'
  <2> SUFFICES ASSUME DirectionInv, [Next]_vars PROVE DirectionInv'
    OBVIOUS
  <2>1. StandingOK
    BY TypeParts DEF DirectionInv
  <2> QED
    BY <2>1, TypeStep, FlowStep, BindingStep, RunsStep, TurnStep, FailureStep,
       RequestStep, HeldStep, OutcomeStep, ObservedStep DEF DirectionInv
<1> QED
  BY <1>1, DirectionInit, PTL DEF Spec

(* Whatever raises in a direction or terminates it, what it opened is      *)
(* undone when it is left, its state is an outcome, and one that returns   *)
(* has settled all it selected.                                            *)
THEOREM ScopesAreUndone == Spec => []ScopesUndone
<1>1. DirectionInv => ScopesUndone
  <2> SUFFICES ASSUME DirectionInv PROVE ScopesUndone
    OBVIOUS
  <2>1. ASSUME AtRest
        PROVE  /\ ~running /\ state # "RUNNING" /\ step = 0
               /\ \A i \in Steps : runs[i] = "RUNNING" => outcome = "raised" /\ i = here
               /\ outcome \in {"SUCCEEDED", "FAILED"} => \A i \in selected : runs[i] \in Statuses
    BY <2>1 DEF DirectionInv, FlowInv, RunsInv, TurnInv, AtRest, Settled, Stepping, Directing
  <2>2. ASSUME AtRest
        PROVE  /\ Len(binding.frames[Main]) <= 1
               /\ binding.run = AppLog <=> Len(binding.frames[Main]) = 1
    <3>1. Outside(binding)
      BY <2>2 DEF DirectionInv, BindingInv, AtRest, Bound
    <3>2. AppLog # NoRun
      BY StepAssumption
    <3>3. CASE binding.run = NoRun /\ Len(binding.frames[Main]) = 0
      BY <3>2, <3>3
    <3>4. CASE binding.run = AppLog /\ Len(binding.frames[Main]) = 1
      BY <3>4
    <3> QED
      BY <3>1, <3>3, <3>4 DEF Outside
  <2>3. pc \in Bound => binding.run = AppLog
    BY DEF DirectionInv, BindingInv, Inside
  <2> QED
    BY <2>1, <2>2, <2>3 DEF ScopesUndone
<1> QED
  BY <1>1, DirectionAlways, PTL

(* What is reported of a direction is what its steps came to.              *)
THEOREM OutcomesAreTrue == Spec => []OutcomeIsTrue
<1>1. DirectionInv => OutcomeIsTrue
  <2> SUFFICES ASSUME DirectionInv, AtRest PROVE OutcomeIsTrue
    BY DEF OutcomeIsTrue
  <2>1. firstFailure # 0 <=> \E i \in selected : runs[i] = "FAILED"
    BY TypeParts DEF DirectionInv, FailureInv, NoneFailed, RunsInv, DirectionOK
  <2>2. StandingOK
    BY TypeParts DEF DirectionInv
  <2> QED
    BY <2>1, <2>2 DEF DirectionInv, OutcomeInv, OutcomeIsTrue, AtRest, StandingOK
<1> QED
  BY <1>1, DirectionAlways, PTL

(* The display shows of a step only what it did in this direction.         *)
THEOREM ShownIsOfThisDirection == Spec => []ShownIsThisDirections
<1>1. DirectionInv => ShownIsThisDirections
  BY DEF DirectionInv, ObservedInv, ShownIsThisDirections, Shown, Statuses
<1> QED
  BY <1>1, DirectionAlways, PTL

-----------------------------------------------------------------------------
(* The batch.                                                              *)

(* Until the boundary collects the runtime the batch and its root are      *)
(* open, and what is bound beneath is the step at work; without a fault a  *)
(* step that was opened is closed or bound.                                *)
LiveBatch ==
    /\ pc \in Directing => directions >= 1
    /\ pc \notin {"collect", "gone"} =>
          /\ batch = "RUNNING" /\ bound.batch /\ bound.root = Root
          /\ Root \notin closed /\ appRun = "RUNNING"
    /\ pc \in {"operate", "close"} => bound.step = <<directions, here>>

EndedBatch ==
    /\ pc = "collect" => /\ batch = "RUNNING" /\ bound.batch /\ bound.root = Root
                         /\ Root \in closed => bound.step = Root
    /\ pc = "gone" => bound.step = NoStep /\ (batch = "ended" => Root \in closed)
    /\ terminated # "none" => appRun \in {"RUNNING", terminated}

SoundBatch ==
    faults = 0 =>
        /\ pc # "gone" => opened = closed \cup {Root, bound.step}
        /\ pc \in {"ready", "start", "next", "open", "finish", "refusal"} => bound.step = Root
        /\ pc = "gone" => opened = closed /\ batch = "ended"
        /\ pc \in {"collect", "gone"} => appRun # "RUNNING"

BatchShape == bound \in [batch : BOOLEAN, root : {Root, NoStep},
                         step : {Root, NoStep} \cup (1 .. MaxDirections) \X Steps]

BatchInv == BatchShape /\ LiveBatch /\ EndedBatch /\ SoundBatch

LEMMA BatchStep == TypeInv /\ HeldInv /\ BatchInv /\ [Next]_vars => BatchInv'
<1> SUFFICES ASSUME DirectionOK, EndingOK, HeldInv, BatchInv, [Next]_vars,
                    pc \in Directing \cup {"ready", "ending", "collect", "gone"},
                    faults \in 0 .. MaxFaults, result \in Results
             PROVE  BatchInv'
  BY TypeParts DEF EvidenceOK, StandingOK
<1> USE DEF BatchInv, LiveBatch, EndedBatch, SoundBatch, Directing
<1>0. MaxDirections \in Nat /\ MaxFaults \in Nat /\ directions \in 0 .. MaxDirections
      /\ (Fault => faults' # 0)
  BY StepAssumption DEF EndingOK, Fault
(* A step of a direction that leaves the batch alone.                      *)
<1>a. ASSUME UNCHANGED <<batchVars, appRun, terminated, directions>>,
             pc \in Directing, pc' \in Directing \cup {"ready"},
             pc' \in {"operate", "close"} =>
                pc \in {"operate", "close"} /\ UNCHANGED here,
             \/ Fault
             \/ /\ UNCHANGED faults
                /\ pc \in {"operate", "close"} => pc' \in {"operate", "close"}
      PROVE  BatchInv'
  BY <1>a, <1>0 DEF batchVars, BatchShape
<1>1. ASSUME NEW q \in Requests, Direct(q) PROVE BatchInv'
  BY <1>1, <1>0 DEF Direct, Leave, batchVars, BatchShape
<1>2. CASE Start
  BY <1>2, <1>a DEF Start, Leave, Kept, Missing, Lost, Log
<1>3. CASE HoldBack
  BY <1>3, <1>a DEF HoldBack, Leave
<1>4. CASE Release
  BY <1>4, <1>a DEF Release, Leave
<1>5. CASE Open
  <2>1. CASE StartStep(<<directions, here>>) /\ pc' \in {"operate", "close"} /\ UNCHANGED here
    <3>1. pc = "open" /\ UNCHANGED <<appRun, terminated, directions>>
          /\ (Fault \/ UNCHANGED faults)
      BY <1>5 DEF Open, Kept, Missing, Lost, Log
    <3>2. here \in Steps
      BY <3>1 DEF DirectionOK, Stepping
    <3>3. <<directions, here>> \in (1 .. MaxDirections) \X Steps
      BY <1>0, <3>1, <3>2
    <3>4. /\ bound'.step = <<directions, here>>
          /\ bound'.batch = bound.batch /\ bound'.root = bound.root
          /\ BatchShape'
      BY <2>1, <3>3 DEF StartStep, BatchShape
    <3>5. opened' = opened \cup {<<directions, here>>} /\ UNCHANGED <<closed, batch>>
      BY <2>1 DEF StartStep
    <3>6. faults' = 0 => opened' = closed' \cup {Root, bound'.step}
      BY <1>0, <3>1, <3>4, <3>5
    <3> HIDE DEF BatchShape
    <3> QED
      BY <1>0, <2>1, <3>1, <3>4, <3>5, <3>6
  <2>2. CASE StepRaises /\ UNCHANGED batchVars /\ Fault
    BY <1>5, <2>2, <1>a DEF Open, StepRaises, Leave
  <2> QED
    BY <1>5, <2>1, <2>2 DEF Open, Missing, Lost
<1>6. CASE Operate
  BY <1>6, <1>a DEF Operate, bounds
<1>7. CASE Close
  <2>1. CASE CloseStep /\ pc' = "finish"
    <3>1. pc = "close" /\ UNCHANGED <<appRun, terminated, directions>>
          /\ (Fault \/ UNCHANGED faults)
      BY <1>7 DEF Close, Kept, Missing, Lost, Log
    <3>2. here \in Steps
      BY <3>1 DEF DirectionOK, Stepping
    <3>3. bound.step \in (1 .. MaxDirections) \X Steps /\ bound.step # Root
      BY <1>0, <3>1, <3>2, StepAssumption
    <3>4. /\ bound'.step = Root /\ bound'.batch = bound.batch /\ bound'.root = bound.root
          /\ BatchShape'
      BY <2>1, <3>1 DEF CloseStep, BatchShape
    <3>5. closed' = closed \cup {bound.step} /\ UNCHANGED <<opened, batch>>
      BY <2>1 DEF CloseStep
    <3>6. faults' = 0 => opened' = closed' \cup {Root, bound'.step}
      BY <1>0, <3>1, <3>4, <3>5
    <3> QED
      BY <1>0, <2>1, <3>1, <3>3, <3>4, <3>5, <3>6
  <2>2. CASE StepRaises /\ UNCHANGED batchVars /\ Fault
    BY <1>7, <2>2, <1>a DEF Close, StepRaises, Leave
  <2> QED
    BY <1>7, <2>1, <2>2 DEF Close, Missing, Lost
<1>8. CASE Finish
  BY <1>8, <1>a DEF Finish, StepRaises, Leave
<1>9. CASE Refusal
  BY <1>9, <1>a DEF Refusal, Leave, Lost
<1>10. CASE Complete
  BY <1>10, <1>a DEF Complete, Leave, Missing, Lost
<1>11. ASSUME NEW s \in {"SUCCEEDED", "ABORTED"}, Terminate(s) PROVE BatchInv'
  BY <1>11 DEF Terminate, batchVars, bounds, BatchShape
<1>12. CASE End
  BY <1>12 DEF End, batchVars, bounds, BatchShape
<1>13. CASE FinishRun
  <2>1. PICK failed \in BOOLEAN :
           /\ pc = "ending" /\ pc' = "collect"
           /\ \/ appRun' = Declared(failed) /\ UNCHANGED faults
              \/ Fault /\ UNCHANGED appRun
           /\ UNCHANGED <<terminated, directions, batchVars>>
    BY <1>13 DEF FinishRun
  <2>2. /\ Declared(failed) # "RUNNING"
        /\ terminated # "none" => Declared(failed) = terminated
    BY DEF Declared, EndingOK
  <2> QED
    BY <1>0, <2>1, <2>2 DEF batchVars, BatchShape
<1>14. CASE Collect
  <2>1. /\ pc = "collect" /\ UNCHANGED <<appRun, terminated, directions>>
        /\ pc' = IF bound'.batch THEN "collect" ELSE "gone"
    BY <1>14 DEF Collect
  <2>2. CASE FinishBatch /\ UNCHANGED faults
    <3>1. CASE /\ bound.step # bound.root /\ closed' = closed \cup {bound.step}
               /\ bound' = [bound EXCEPT !.step = bound.root]
               /\ UNCHANGED <<opened, batch>>
      BY <2>1, <2>2, <3>1 DEF BatchShape
    <3>2. CASE /\ bound.step = bound.root /\ bound.root \notin closed
               /\ closed' = closed \cup {bound.root}
               /\ UNCHANGED <<bound, opened, batch>>
      BY <2>1, <2>2, <3>2 DEF BatchShape
    <3>3. CASE /\ bound.step = bound.root /\ bound.root \in closed
               /\ batch' = "ended" /\ bound' = Released
               /\ UNCHANGED <<opened, closed>>
      BY <2>1, <2>2, <3>3 DEF BatchShape, Released
    <3> QED
      BY <2>2, <3>1, <3>2, <3>3 DEF FinishBatch
  <2>3. CASE Fault /\ FinishBatchFails
    BY <1>0, <2>1, <2>3 DEF FinishBatchFails, Released, BatchShape
  <2> QED
    BY <1>14, <2>2, <2>3 DEF Collect
<1>15. CASE UNCHANGED vars
  BY <1>15 DEF vars, thread, bounds, batchVars, BatchShape
<1> QED
  BY <1>1, <1>2, <1>3, <1>4, <1>5, <1>6, <1>7, <1>8, <1>9, <1>10, <1>11, <1>12,
     <1>13, <1>14, <1>15 DEF Next

(* The process gone, the batch is ended with its root and every step, and  *)
(* the Application Run has its status, if no required call failed; always  *)
(* the root ends before its batch, and a termination's status is kept.     *)
THEOREM NothingIsLeftOpen == Spec => []NothingLeftOpen
<1>1. Init => BatchInv
  BY StepAssumption DEF Init, BatchInit, BatchInv, BatchShape, LiveBatch, EndedBatch,
     SoundBatch, Directing
<1>2. BatchInv /\ DirectionInv => NothingLeftOpen
  <2> SUFFICES ASSUME BatchInv, StandingOK PROVE NothingLeftOpen
    BY TypeParts DEF DirectionInv
  <2> QED
    BY DEF BatchInv, LiveBatch, EndedBatch, SoundBatch, NothingLeftOpen, StandingOK
<1>3. DirectionInv /\ BatchInv /\ [Next]_vars => BatchInv'
  BY BatchStep DEF DirectionInv
<1> QED
  BY <1>1, <1>2, <1>3, DirectionAlways, PTL DEF Spec

-----------------------------------------------------------------------------
(* Where records hang.                                                     *)

(* APP_START anchors the level of the application, and nothing stands      *)
(* above it.                                                               *)
Rooted(n) ==
    /\ n \in Nests
    /\ 3 \in DOMAIN n.anchors /\ n.anchors[3] = Rec("APP_START", 0)
    /\ \A k \in DOMAIN n.anchors : 3 <= k

(* In a direction its RUN_START anchors the level below, if it is there.   *)
AnchorsRun(r, f) == r = Rec("RUN_START", 0) \/ (f > 0 /\ r = Rec("NOTICE", 0))

UnderRun(n, f) ==
    /\ 4 \in DOMAIN n.anchors => AnchorsRun(n.anchors[4], f)
    /\ 4 \notin DOMAIN n.anchors => f > 0

BelowStep(n) == n.level >= 5 /\ n.minimum = 6

RunHangs(p, f) == p = Rec("RUN_START", 0) \/ (f > 0 /\ p \in Above)

StepHangs(p, i, f) == \/ p.type \in {"STEP_START", "EVIDENCE", "NOTICE"} /\ p.step = i
                      \/ f > 0 /\ p \in Above

(* A step begins: nothing is left below the workflow of the one before,    *)
Clean(n, f) == /\ n.level = 5 /\ \A k \in DOMAIN n.anchors : k <= 4
               /\ RunHangs(n.parent, f)

(* or what was recorded of the step itself.                                *)
Opening(n, i, f) == /\ n.level = 5 /\ \A k \in DOMAIN n.anchors : k <= 5
                    /\ 5 \in DOMAIN n.anchors => n.anchors[5] = Rec("NOTICE", i)
                    /\ RunHangs(n.parent, f)

(* STEP_START or that anchors its level, if either is there. *)
AtStep(n, i, f) ==
    /\ n.level = 5 /\ \A k \in DOMAIN n.anchors : k <= 5
    /\ 5 \in DOMAIN n.anchors => n.anchors[5] \in {Rec("STEP_START", i), Rec("NOTICE", i)}
    /\ 5 \notin DOMAIN n.anchors => f > 0

NestInv ==
    /\ Rooted(nest)
    /\ pc \in Stepping \cup {"next"} => UnderRun(nest, faults)
    /\ pc \in Stepping => BelowStep(nest)
    /\ pc = "next" => /\ nest.level >= 4
                      /\ selected = {} => nest.parent.type = "APP_START"
    /\ pc = "open" => Opening(nest, here, faults)
    /\ pc = "operate" \/ (pc = "close" /\ result = "not run") => AtStep(nest, here, faults)
    /\ pc = "close" /\ result # "not run" => StepHangs(nest.parent, here, faults)

(* What a cursor under the application hangs from, above a level.          *)
LEMMA HangsFromRun ==
    ASSUME NEW f, NEW n, Rooted(n)
    PROVE  /\ AnchorBelow(n.anchors, 4).type = "APP_START"
           /\ UnderRun(n, f) => RunHangs(AnchorBelow(n.anchors, 5), f)
<1>1. n.anchors \in AnchorMaps /\ DOMAIN n.anchors \subseteq Nat
  BY DEF Rooted, Nests, AnchorMaps
<1> DEFINE a == n.anchors
<1>2. 3 \in DOMAIN a /\ a[3] = Rec("APP_START", 0) /\ \A k \in DOMAIN a : 3 <= k
  BY DEF Rooted
<1>a. a \in AnchorMaps /\ DOMAIN a \subseteq Nat
  BY <1>1
<1>b. UnderRun(n, f) => /\ 4 \in DOMAIN a => AnchorsRun(a[4], f)
                        /\ 4 \notin DOMAIN a => f > 0
  BY DEF UnderRun
<1> HIDE DEF a
<1>3. AnchorBelow(a, 4) = a[3]
  <2>1. PICK k \in DOMAIN a : k < 4 /\ AnchorBelow(a, 4) = a[k]
    BY <1>a, <1>2, AnchorIs
  <2>2. k = 3
    BY <1>a, <1>2, <2>1
  <2> QED
    BY <2>1, <2>2
<1>4. ASSUME UnderRun(n, f) PROVE RunHangs(AnchorBelow(a, 5), f)
  <2>1. PICK k \in DOMAIN a : /\ k < 5 /\ AnchorBelow(a, 5) = a[k]
                              /\ \A j \in DOMAIN a : j < 5 => j <= k
    BY <1>a, <1>2, AnchorIs
  <2>2. k = 3 \/ k = 4
    BY <1>a, <1>2, <2>1
  <2>3. k = 3 => 4 \notin DOMAIN a
    BY <2>1
  <2> QED
    <3>1. CASE k = 4
      <4>1. 4 \in DOMAIN a /\ AnchorBelow(a, 5) = a[4]
        BY <2>1, <3>1
      <4>2. AnchorsRun(a[4], f)
        BY <1>4, <1>b, <4>1
      <4> QED
        BY <4>1, <4>2 DEF RunHangs, AnchorsRun, Above
    <3>2. CASE k = 3
      <4>1. AnchorBelow(a, 5) = a[3] /\ 4 \notin DOMAIN a
        BY <2>1, <2>3, <3>2
      <4> QED
        BY <1>2, <1>4, <1>b, <4>1 DEF RunHangs, Above
    <3> QED
      BY <2>2, <3>1, <3>2
<1> QED
  BY <1>2, <1>3, <1>4 DEF a, Rec

LEMMA HangsFromStep ==
    ASSUME NEW f, NEW i, NEW n, Rooted(n), UnderRun(n, f), AtStep(n, i, f)
    PROVE  StepHangs(AnchorBelow(n.anchors, 6), i, f)
<1> DEFINE a == n.anchors
<1>1. /\ a \in AnchorMaps /\ DOMAIN a \subseteq Nat
      /\ 3 \in DOMAIN a /\ a[3] \in Above /\ \A k \in DOMAIN a : 3 <= k
  BY DEF Rooted, Nests, AnchorMaps, Above
<1>2. /\ 4 \in DOMAIN a => a[4] \in Above
      /\ \A k \in DOMAIN a : k <= 5
      /\ 5 \in DOMAIN a => a[5].type \in {"STEP_START", "NOTICE"} /\ a[5].step = i
      /\ 5 \notin DOMAIN a => f > 0
  BY DEF UnderRun, AnchorsRun, Above, AtStep, Rec
<1> HIDE DEF a
<1>3. PICK k \in DOMAIN a : /\ k < 6 /\ AnchorBelow(a, 6) = a[k]
                            /\ \A j \in DOMAIN a : j < 6 => j <= k
  BY <1>1, AnchorIs
<1>4. k = 5 \/ (k \in {3, 4} /\ 5 \notin DOMAIN a)
  BY <1>1, <1>2, <1>3
<1>5. StepHangs(AnchorBelow(a, 6), i, f)
  BY <1>1, <1>2, <1>3, <1>4 DEF StepHangs
<1> QED
  BY <1>5 DEF a

(* Moves above the level of the application keep its anchor, those below   *)
(* the workflow also that of the direction.                                *)
LEMMA MovesAreRooted ==
    ASSUME NEW f, NEW n, Rooted(n), NEW m, NEW l \in Nat, NEW keep \in Nat,
           Moved(n, m, l, keep)
    PROVE  /\ keep >= 4 => Rooted(m)
           /\ keep >= 5 /\ UnderRun(n, f) => UnderRun(m, f)
<1>1. /\ m \in Nests
      /\ DOMAIN m.anchors = {j \in DOMAIN n.anchors : j < keep}
      /\ \A k \in DOMAIN m.anchors : m.anchors[k] = n.anchors[k]
  BY DEF Moved
<1> QED
  BY <1>1 DEF Rooted, UnderRun

LEMMA RecordedIsRooted ==
    ASSUME NEW f, NEW n, Rooted(n), n.level >= 4, NEW r \in Records
    PROVE  /\ Rooted(Recorded(n, r))
           /\ n.level >= 5 /\ UnderRun(n, f) => UnderRun(Recorded(n, r), f)
           /\ n.level = 4 /\ 4 \notin DOMAIN n.anchors /\ AnchorsRun(r, f)
                 => UnderRun(Recorded(n, r), f)
<1> DEFINE m == Recorded(n, r)
<1>1. n \in Nests /\ n.level \in Nat
  BY DEF Rooted, Nests
<1>2. /\ m \in Nests
      /\ DOMAIN m.anchors = DOMAIN n.anchors \cup {n.level}
      /\ \A k \in DOMAIN n.anchors : m.anchors[k] = n.anchors[k]
      /\ n.level \notin DOMAIN n.anchors => m.anchors[n.level] = r
  BY <1>1, RecordedAnchors
<1>3. 3 \in DOMAIN n.anchors /\ n.anchors[3] = Rec("APP_START", 0)
      /\ \A k \in DOMAIN n.anchors : 3 <= k
  BY DEF Rooted
<1>4. UnderRun(n, f) => /\ 4 \in DOMAIN n.anchors => AnchorsRun(n.anchors[4], f)
                        /\ 4 \notin DOMAIN n.anchors => f > 0
  BY DEF UnderRun
<1> HIDE DEF m
<1>5. Rooted(m)
  BY <1>1, <1>2, <1>3 DEF Rooted
<1>6. n.level >= 5 /\ UnderRun(n, f) => UnderRun(m, f)
  BY <1>1, <1>2, <1>4 DEF UnderRun
<1>7. n.level = 4 /\ 4 \notin DOMAIN n.anchors /\ AnchorsRun(r, f) => UnderRun(m, f)
  BY <1>2 DEF UnderRun
<1> QED
  BY <1>5, <1>6, <1>7 DEF m

(* What may be noted besides moves nothing, and is of its step or run.     *)
LEMMA NotedHangs ==
    ASSUME NEW f, NEW n, Rooted(n), n.level >= 4, NEW i \in Steps \cup {0},
           NEW m \in Noted(n, i)
    PROVE  /\ Rooted(m) /\ m.level = n.level /\ m.minimum = n.minimum
           /\ m.parent = n.parent
           /\ n.level >= 5 /\ UnderRun(n, f) => UnderRun(m, f)
           /\ n.level = 4 /\ 4 \notin DOMAIN n.anchors /\ i = 0 /\ f > 0
                 => UnderRun(m, f)
           /\ DOMAIN m.anchors \subseteq DOMAIN n.anchors \cup {n.level}
           /\ \A k \in DOMAIN n.anchors : k \in DOMAIN m.anchors /\ m.anchors[k] = n.anchors[k]
           /\ n.level \in DOMAIN m.anchors /\ n.level \notin DOMAIN n.anchors
                 => m.anchors[n.level] = Rec("NOTICE", i)
<1>1. n \in Nests /\ Rec("NOTICE", i) \in Records
  BY RecordsOf DEF Rooted
<1>2. CASE m = n
  BY <1>2 DEF UnderRun
<1>3. CASE m = Recorded(n, Rec("NOTICE", i))
  <2>1. /\ m.level = n.level /\ m.minimum = n.minimum /\ m.parent = n.parent
        /\ DOMAIN m.anchors = DOMAIN n.anchors \cup {n.level}
        /\ \A k \in DOMAIN n.anchors : m.anchors[k] = n.anchors[k]
        /\ n.level \notin DOMAIN n.anchors => m.anchors[n.level] = Rec("NOTICE", i)
    BY <1>1, <1>3, RecordedAnchors
  <2>2. /\ Rooted(m)
        /\ n.level >= 5 /\ UnderRun(n, f) => UnderRun(m, f)
        /\ n.level = 4 /\ 4 \notin DOMAIN n.anchors /\ i = 0 /\ f > 0 => UnderRun(m, f)
    BY <1>1, <1>3, RecordedIsRooted DEF AnchorsRun
  <2> QED
    BY <2>1, <2>2
<1> QED
  BY <1>2, <1>3 DEF Noted

(* A scope of the workflow, and one of a step. *)
LEMMA Scopes ==
    ASSUME NEW f, NEW n, Rooted(n)
    PROVE  /\ LET m == SetLevel(n, Base.workflow) IN
              /\ Rooted(m) /\ m.level = 4 /\ 4 \notin DOMAIN m.anchors
              /\ m.parent.type = "APP_START"
           /\ UnderRun(n, f) => LET m == SetLevel(n, Base.workflow_step) IN
              Rooted(m) /\ UnderRun(m, f) /\ BelowStep(m) /\ Clean(m, f)
<1>1. Base.workflow = 4 /\ Base.workflow_step = 5 /\ n \in Nests
  BY DEF Base, Rooted
<1>2. Moved(n, SetLevel(n, 4), 4, 4) /\ Moved(n, SetLevel(n, 5), 5, 5)
      /\ SetLevel(n, 5).minimum = 6
  BY <1>1, SetLevelMoves
<1>3. Rooted(SetLevel(n, 4)) /\ Rooted(SetLevel(n, 5))
      /\ (UnderRun(n, f) => UnderRun(SetLevel(n, 5), f))
  BY <1>2, MovesAreRooted
<1>4. /\ SetLevel(n, 4).level = 4 /\ 4 \notin DOMAIN SetLevel(n, 4).anchors
      /\ SetLevel(n, 4).parent.type = "APP_START"
  BY <1>2, <1>3, HangsFromRun DEF Moved
<1>5. ASSUME UnderRun(n, f) PROVE BelowStep(SetLevel(n, 5)) /\ Clean(SetLevel(n, 5), f)
  <2>1. RunHangs(AnchorBelow(SetLevel(n, 5).anchors, 5), f)
    BY <1>3, <1>5, HangsFromRun
  <2>2. \A k \in DOMAIN SetLevel(n, 5).anchors : k <= 4
    <3>1. \A k \in DOMAIN n.anchors : k \in Nat
      BY <1>1 DEF Nests, AnchorMaps
    <3> QED
      BY <1>2, <3>1 DEF Moved
  <2> QED
    BY <1>2, <2>1, <2>2 DEF Moved, BelowStep, Clean
<1> QED
  BY <1>1, <1>3, <1>4, <1>5

(* Going up again stays below the workflow. *)
LEMMA ExitsStayBelow ==
    ASSUME NEW f, NEW n, Rooted(n), UnderRun(n, f), BelowStep(n)
    PROVE  Rooted(Exit(n)) /\ UnderRun(Exit(n), f) /\ BelowStep(Exit(n))
<1>1. n \in Nests /\ n.level >= 5 /\ n.minimum = 6
  BY DEF Rooted, BelowStep
<1>2. PICK l \in Nat : /\ Moved(n, Exit(n), l, l + 1)
                       /\ Exit(n).minimum = 6 /\ l >= 5
  BY <1>1, ExitMoves
<1>3. Rooted(Exit(n)) /\ UnderRun(Exit(n), f)
  BY <1>2, MovesAreRooted
<1> QED
  BY <1>2, <1>3 DEF Moved, BelowStep

(* An operation enters beneath its step, and what it records there, and    *)
(* deeper, hangs from the step.                                            *)
Beneath(n, i, f) == Rooted(n) /\ UnderRun(n, f) /\ BelowStep(n) /\ StepHangs(n.parent, i, f)

LEMMA EntersBeneath ==
    ASSUME NEW f, NEW i, NEW n, Rooted(n), UnderRun(n, f), BelowStep(n), AtStep(n, i, f)
    PROVE  Beneath(Enter(n), i, f) /\ Moved(n, Enter(n), 6, 6)
<1>1. n \in Nests /\ n.level = 5 /\ n.minimum = 6
  BY DEF Rooted, BelowStep, AtStep
<1>2. Moved(n, Enter(n), 6, 6) /\ Enter(n).minimum = 6
  BY <1>1, EnterMoves
<1>3. Rooted(Enter(n)) /\ UnderRun(Enter(n), f)
  BY <1>2, MovesAreRooted
<1>4. StepHangs(Enter(n).parent, i, f)
  <2>1. AnchorBelow(Enter(n).anchors, 6) = AnchorBelow(KeepAbove(n.anchors, 6), 6)
    BY <1>1 DEF Enter, Nests
  <2>2. KeepAbove(n.anchors, 6) = n.anchors
    <3>1. n.anchors \in AnchorMaps /\ \A k \in DOMAIN n.anchors : k <= 5 /\ k \in Nat
      BY <1>1 DEF Nests, AtStep, AnchorMaps
    <3>2. {j \in DOMAIN n.anchors : j < 6} = DOMAIN n.anchors
      BY <3>1
    <3>3. n.anchors = [k \in DOMAIN n.anchors |-> n.anchors[k]]
      BY <3>1 DEF AnchorMaps
    <3> QED
      BY <3>2, <3>3 DEF KeepAbove
  <2> QED
    BY <1>2, <2>1, <2>2, HangsFromStep DEF Moved
<1> QED
  BY <1>2, <1>3, <1>4 DEF Beneath, BelowStep, Moved

LEMMA StaysBeneath ==
    ASSUME NEW f, NEW i, NEW n, Rooted(n), UnderRun(n, f), BelowStep(n), AtStep(n, i, f),
           i \in Steps \cup {0},
           NEW m \in {Enter(n), Enter(Recorded(Enter(n), Rec("EVIDENCE", i))),
                      Sibling(Enter(n))}
    PROVE  Beneath(m, i, f)
<1> DEFINE e == Enter(n)
           r == Rec("EVIDENCE", i)
           d == Recorded(e, r)
<1>1. /\ Beneath(e, i, f) /\ e \in Nests /\ e.level = 6 /\ e.minimum = 6
      /\ e.parent = AnchorBelow(e.anchors, 6)
      /\ \A k \in DOMAIN e.anchors : k < 6
  BY EntersBeneath DEF Moved, Beneath, BelowStep
<1>n. DOMAIN e.anchors \subseteq Nat /\ e.anchors \in AnchorMaps
  <2>1. e.anchors \in AnchorMaps
    BY <1>1 DEF Nests
  <2> QED
    BY <2>1 DEF AnchorMaps
<1>2. r \in Records /\ r.type = "EVIDENCE" /\ r.step = i
  BY RecordsOf DEF Rec
<1> HIDE DEF e, r
<1>3. Beneath(Sibling(e), i, f)
  <2>1. Moved(e, Sibling(e), 6, 6) /\ Sibling(e).minimum = 6
    BY <1>1, SiblingMoves
  <2>2. Rooted(Sibling(e)) /\ UnderRun(Sibling(e), f)
    BY <1>1, <2>1, MovesAreRooted DEF Beneath
  <2>3. Sibling(e).parent = e.parent
    <3>1. KeepAbove(e.anchors, 6) = e.anchors
      <4>1. {j \in DOMAIN e.anchors : j < 6} = DOMAIN e.anchors
        BY <1>1, <1>n
      <4>2. e.anchors = [k \in DOMAIN e.anchors |-> e.anchors[k]]
        BY <1>n DEF AnchorMaps
      <4> QED
        BY <4>1, <4>2 DEF KeepAbove
    <3>2. Sibling(e).parent = AnchorBelow(KeepAbove(e.anchors, 6), 6)
      BY <1>1 DEF Sibling, Nests
    <3> QED
      BY <1>1, <3>1, <3>2
  <2> QED
    BY <1>1, <2>1, <2>2, <2>3 DEF Beneath, BelowStep, Moved
<1>4. Beneath(Enter(d), i, f)
  <2>1. /\ d \in Nests /\ d.level = 6 /\ d.minimum = 6
        /\ DOMAIN d.anchors = DOMAIN e.anchors \cup {6}
        /\ d.anchors[6] = r
    BY <1>1, <1>2, RecordedAnchors
  <2>2. Rooted(d) /\ UnderRun(d, f)
    BY <1>1, <1>2, RecordedIsRooted DEF Beneath
  <2> HIDE DEF d
  <2>3. Moved(d, Enter(d), 7, 7) /\ Enter(d).minimum = 6
    BY <2>1, EnterMoves
  <2>4. Rooted(Enter(d)) /\ UnderRun(Enter(d), f)
    BY <2>2, <2>3, MovesAreRooted
  <2>5. Enter(d).parent = r
    <3> DEFINE a == Enter(d).anchors
    <3>1. /\ a \in AnchorMaps /\ DOMAIN a \subseteq Nat
          /\ 6 \in DOMAIN a /\ a[6] = r
          /\ Enter(d).parent = AnchorBelow(a, 7)
      <4>1. a \in AnchorMaps /\ Enter(d).parent = AnchorBelow(a, 7)
        BY <2>3 DEF Moved, Nests
      <4>2. DOMAIN a \subseteq Nat
        BY <4>1 DEF AnchorMaps
      <4>3. 6 \in DOMAIN a /\ a[6] = r
        BY <2>1, <2>3 DEF Moved
      <4> QED
        BY <4>1, <4>2, <4>3
    <3> HIDE DEF a
    <3>2. PICK k \in DOMAIN a : /\ k < 7 /\ AnchorBelow(a, 7) = a[k]
                                /\ \A j \in DOMAIN a : j < 7 => j <= k
      BY <3>1, AnchorIs
    <3>3. k = 6
      BY <3>1, <3>2
    <3> QED
      BY <3>1, <3>2, <3>3
  <2> QED
    BY <1>2, <2>3, <2>4, <2>5 DEF Beneath, BelowStep, Moved, StepHangs
<1> QED
  BY <1>1, <1>3, <1>4 DEF d, e, r

(* What a fault has cost stays lost.                                       *)
LEMMA FaultsLast ==
    ASSUME faults \in Nat, Fault \/ UNCHANGED faults
    PROVE  /\ faults' \in Nat /\ (faults > 0 => faults' > 0)
           /\ \A n : UnderRun(n, faults) => UnderRun(n, faults')
           /\ \A p : RunHangs(p, faults) => RunHangs(p, faults')
           /\ \A p, i : StepHangs(p, i, faults) => StepHangs(p, i, faults')
<1>1. faults' \in Nat /\ (faults > 0 => faults' > 0)
  BY DEF Fault
<1> QED
  BY <1>1 DEF UnderRun, AnchorsRun, RunHangs, StepHangs

(* The last record hangs from where its work belongs.                      *)
RecordHangs(r, f) ==
    /\ r.id.type \in {"RUN_START", "RUN_COMPLETE"} => r.parent.type = "APP_START"
    /\ r.id.type = "STEP_START" => RunHangs(r.parent, f)
    /\ r.id.type \in {"EVIDENCE", "STEP_END"} => StepHangs(r.parent, r.id.step, f)

RecordInv == RecordHangs(record, faults)

LEMMA RecordStands ==
    ASSUME RecordInv, UNCHANGED record, faults \in Nat, Fault \/ UNCHANGED faults
    PROVE  RecordInv'
  BY FaultsLast DEF RecordInv, RecordHangs

LEMMA RecordHung ==
    ASSUME NEW t, NEW i, NEW p, NEW f, NEW r, r = [id |-> Rec(t, i), parent |-> p],
           \/ t \in {"RUN_START", "RUN_COMPLETE"} /\ p.type = "APP_START"
           \/ t = "STEP_START" /\ RunHangs(p, f)
           \/ t \in {"EVIDENCE", "STEP_END"} /\ StepHangs(p, i, f)
    PROVE  RecordHangs(r, f)
<1>1. r.id.type = t /\ r.id.step = i /\ r.parent = p
  BY DEF Rec
<1> QED
  BY <1>1 DEF RecordHangs

LEMMA NestStep ==
    /\ TypeInv /\ RunsInv /\ RequestInv /\ NestInv /\ RecordInv /\ [Next]_vars
    => NestInv' /\ RecordInv'
<1> SUFFICES ASSUME DirectionOK, RunsInv, RequestInv, NestInv, RecordInv, [Next]_vars,
                    faults \in Nat
             PROVE  NestInv' /\ RecordInv'
  BY TypeParts, StepAssumption DEF EvidenceOK
<1> USE DEF Stepping
<1>r. Rooted(nest) /\ nest \in Nests
  BY DEF NestInv, Rooted
<1>h. here \in Steps \cup {0} /\ (pc \in Stepping => here \in selected)
  BY DEF DirectionOK, RunsInv
(* A step that leaves the cursor alone, and comes to no place of a step.   *)
<1>a. ASSUME UNCHANGED evidence, Fault \/ UNCHANGED faults,
             pc' \notin Stepping \cup {"next"}
      PROVE  NestInv' /\ RecordInv'
  BY <1>a, <1>r, RecordStands DEF NestInv, evidence
(* A step that keeps the cursor rooted, and leaves the direction.          *)
<1>b. ASSUME Rooted(nest'), pc' \notin Stepping \cup {"next"}
      PROVE  NestInv'
  BY <1>b DEF NestInv
<1>1. ASSUME NEW q \in Requests, Direct(q) PROVE NestInv' /\ RecordInv'
  BY <1>1, <1>a DEF Direct, Leave
<1>2. CASE Start
  <2> DEFINE n == SetLevel(nest, Base.workflow)
  <2>1. /\ Rooted(n) /\ n.level = 4 /\ 4 \notin DOMAIN n.anchors
        /\ n.parent.type = "APP_START" /\ n \in Nests
    BY <1>r, Scopes DEF Rooted
  <2>2. \/ Kept(n, "RUN_START", 0) /\ pc' = "next"
        \/ Missing(n, 0) /\ pc' = "ready"
    BY <1>2 DEF Start, Leave
  <2> HIDE DEF n
  <2>3. CASE Log(n, "RUN_START", 0) /\ UNCHANGED faults /\ pc' = "next"
    <3> DEFINE r == Rec("RUN_START", 0)
               m == Recorded(n, r)
    <3>1. r \in Records /\ r.type = "RUN_START"
      BY RecordsOf DEF Rec
    <3>2. Rooted(m) /\ UnderRun(m, faults) /\ m.level = 4 /\ m.parent.type = "APP_START"
      <4>1. Rooted(m) /\ UnderRun(m, faults)
        BY <2>1, <3>1, RecordedIsRooted DEF AnchorsRun
      <4>2. m.level = n.level /\ m.parent = n.parent
        BY <2>1, <3>1, RecordedAnchors
      <4> QED
        BY <2>1, <4>1, <4>2
    <3>3. nest' = m /\ record' = [id |-> r, parent |-> n.parent]
      BY <2>3 DEF Log
    <3> HIDE DEF m
    <3>4. NestInv'
      <4>1. Rooted(nest') /\ UnderRun(nest', faults') /\ nest'.parent.type = "APP_START"
        BY <2>3, <3>2, <3>3
      <4>2. nest'.level >= 4
        BY <3>2, <3>3
      <4> QED
        BY <2>3, <4>1, <4>2 DEF NestInv
    <3> QED
      BY <2>1, <3>3, <3>4, RecordHung DEF RecordInv
  <2>4. CASE Lost(n, 0)
    <3>1. nest' \in Noted(n, 0) /\ UNCHANGED record /\ Fault /\ faults' > 0
      BY <2>4 DEF Lost, Fault
    <3>2. RecordInv'
      BY <3>1, RecordStands
    <3>3. NestInv'
      <4>1. Rooted(nest') /\ UnderRun(nest', faults') /\ nest'.parent.type = "APP_START"
        BY <2>1, <3>1, NotedHangs
      <4>2. nest'.level >= 4
        BY <2>1, <3>1, NotedHangs
      <4> QED
        BY <2>2, <4>1, <4>2 DEF NestInv
    <3> QED
      BY <3>2, <3>3
  <2> QED
    BY <2>2, <2>3, <2>4 DEF Kept, Missing
<1>3. CASE HoldBack \/ Release
  <2> DEFINE n == SetLevel(nest, Base.workflow_step)
  <2>1. /\ pc = "next" /\ UNCHANGED record /\ (Fault \/ UNCHANGED faults)
        /\ pc' \in {"open", "refusal", "ready"}
        /\ nest' \in Noted(n, here') /\ here' \in Steps \cup {0}
    BY <1>3 DEF HoldBack, Release, Leave, DirectionOK
  <2>2. UnderRun(nest, faults')
    BY <2>1, FaultsLast DEF NestInv
  <2>3. /\ Rooted(n) /\ UnderRun(n, faults') /\ BelowStep(n)
        /\ Clean(n, faults') /\ n \in Nests
    BY <1>r, <2>2, Scopes DEF Rooted
  <2> HIDE DEF n
  <2>a. \A k \in DOMAIN n.anchors : k \in Nat /\ k <= 4
    BY <2>3 DEF Clean, Nests, AnchorMaps
  <2>b. /\ Rooted(nest') /\ UnderRun(nest', faults') /\ BelowStep(nest')
        /\ Opening(nest', here', faults')
    BY <2>1, <2>3, <2>a, NotedHangs DEF Clean, Opening, BelowStep
  <2>4. NestInv'
    BY <2>1, <2>b DEF NestInv
  <2> QED
    BY <2>1, <2>4, RecordStands
<1>4. CASE Open
  <2>1. pc = "open" /\ UNCHANGED <<here, result>> /\ (Fault \/ UNCHANGED faults)
        /\ pc' \in {"operate", "close", "ready", "refusal"}
        /\ (pc' = "close" => result = "not run")
    BY <1>4 DEF Open, Kept, Missing, Lost, StepRaises, Leave
  <2>2. UnderRun(nest, faults') /\ BelowStep(nest) /\ Opening(nest, here, faults')
    BY <2>1, FaultsLast DEF NestInv, Opening
  <2>3. CASE Log(nest, "STEP_START", here)
    <3> DEFINE r == Rec("STEP_START", here)
               m == Recorded(nest, r)
    <3>1. r \in Records
      BY <1>h, RecordsOf
    <3>2. /\ nest.level = 5 /\ \A k \in DOMAIN nest.anchors : k <= 5
          /\ 5 \in DOMAIN nest.anchors => nest.anchors[5] = Rec("NOTICE", here)
      BY <2>2 DEF Opening
    <3>4. /\ m.level = 5 /\ m.minimum = nest.minimum
          /\ m.anchors[5] \in {r, Rec("NOTICE", here)}
          /\ DOMAIN m.anchors = DOMAIN nest.anchors \cup {5}
      BY <1>r, <3>1, <3>2, RecordedAnchors
    <3>5. Rooted(m) /\ UnderRun(m, faults')
      BY <1>r, <2>2, <3>1, <3>2, RecordedIsRooted
    <3>6. nest' = m /\ record' = [id |-> r, parent |-> nest.parent]
      BY <2>3 DEF Log
    <3> HIDE DEF m
    <3>7. AtStep(m, here, faults') /\ BelowStep(m)
      BY <2>2, <3>2, <3>4 DEF AtStep, BelowStep
    <3>8. NestInv'
      BY <2>1, <3>5, <3>6, <3>7 DEF NestInv
    <3>9. RunHangs(nest.parent, faults')
      BY <2>2 DEF Opening
    <3> QED
      BY <3>6, <3>8, <3>9, RecordHung DEF RecordInv
  <2>4. CASE Lost(nest, here)
    <3>1. nest' \in Noted(nest, here) /\ UNCHANGED record /\ faults' > 0
      BY <2>4 DEF Lost, Fault
    <3>2. Rooted(nest') /\ UnderRun(nest', faults') /\ BelowStep(nest')
      BY <1>r, <1>h, <2>2, <3>1, NotedHangs DEF Opening, BelowStep
    <3>3. AtStep(nest', here, faults')
      BY <1>r, <1>h, <2>2, <3>1, NotedHangs DEF Opening, AtStep
    <3>5. NestInv'
      BY <2>1, <3>2, <3>3 DEF NestInv
    <3> QED
      BY <2>1, <3>1, <3>5, RecordStands
  <2> QED
    BY <1>4, <2>3, <2>4 DEF Open, Kept, Missing
<1>5. CASE Operate
  <2>1. /\ pc = "operate" /\ pc' = "close" /\ UNCHANGED <<here, faults>>
        /\ result' # "not run"
    BY <1>5 DEF Operate, bounds
  <2>2. PICK m \in {Enter(nest), Enter(Recorded(Enter(nest), Rec("EVIDENCE", here))),
                    Sibling(Enter(nest))} : Log(m, "EVIDENCE", here)
    BY <1>5 DEF Operate
  <2>3. Beneath(m, here, faults)
    BY <1>r, <1>h, <2>1, StaysBeneath DEF NestInv
  <2> DEFINE r == Rec("EVIDENCE", here)
  <2>4. nest' = Recorded(m, r) /\ record' = [id |-> r, parent |-> m.parent]
    BY <2>2 DEF Log
  <2>5. r \in Records
    BY <1>h, RecordsOf
  <2> HIDE DEF r
  <2>6. Beneath(nest', here, faults)
    <3>1. m \in Nests
      BY <2>3 DEF Beneath, Rooted
    <3>2. nest'.level = m.level /\ nest'.minimum = m.minimum /\ nest'.parent = m.parent
      BY <2>4, <2>5, <3>1, RecordedAnchors
    <3>3. Rooted(nest') /\ UnderRun(nest', faults)
      BY <2>3, <2>4, <2>5, RecordedIsRooted DEF Beneath, BelowStep, Rooted, Nests
    <3> QED
      BY <2>3, <3>2, <3>3 DEF Beneath, BelowStep
  <2>7. NestInv'
    BY <2>1, <2>6 DEF NestInv, Beneath
  <2> QED
    BY <2>1, <2>3, <2>4, <2>7, RecordHung DEF RecordInv, Beneath, r
<1>6. CASE Close
  <2> DEFINE n == IF result = "not run" THEN Enter(nest) ELSE nest
             r == Rec("STEP_END", here)
  <2>1. /\ pc = "close" /\ UNCHANGED here /\ (Fault \/ UNCHANGED faults)
        /\ pc' \in {"finish", "ready", "refusal"}
    BY <1>6 DEF Close, Kept, Missing, Lost, StepRaises, Leave
  <2>2. Beneath(n, here, faults)
    <3>1. CASE result = "not run"
      BY <1>r, <2>1, <3>1, EntersBeneath DEF NestInv
    <3>2. CASE result # "not run"
      BY <1>r, <2>1, <3>2 DEF NestInv, Beneath
    <3> QED
      BY <3>1, <3>2
  <2>3. Beneath(n, here, faults')
    BY <2>1, <2>2, FaultsLast DEF Beneath
  <2>4. r \in Records
    BY <1>h, RecordsOf
  <2>5. \/ Log(n, "STEP_END", here)
        \/ Lost(n, here)
        \/ UNCHANGED record /\ nest' \in {Exit(m) : m \in Noted(n, here)}
        \/ /\ nest' = Exit(Recorded(n, r))
           /\ record' = [id |-> r, parent |-> n.parent]
    BY <1>6 DEF Close, Kept, Missing
  <2> HIDE DEF n
  <2>6. Rooted(Recorded(n, r)) /\ UnderRun(Recorded(n, r), faults') /\ BelowStep(Recorded(n, r))
    <3>1. n \in Nests /\ n.level \in Nat /\ n.level >= 5
      BY <2>3 DEF Beneath, Rooted, Nests, BelowStep
    <3>2. Rooted(Recorded(n, r)) /\ UnderRun(Recorded(n, r), faults')
      BY <2>3, <2>4, <3>1, RecordedIsRooted DEF Beneath
    <3>3. Recorded(n, r).level = n.level /\ Recorded(n, r).minimum = n.minimum
      BY <2>4, <3>1, RecordedAnchors
    <3> QED
      BY <2>3, <3>2, <3>3 DEF Beneath, BelowStep
  <2>a. \A m \in Noted(n, here) : Rooted(m) /\ UnderRun(m, faults') /\ BelowStep(m)
    BY <1>h, <2>3, NotedHangs DEF Beneath, BelowStep, Rooted, Nests
  <2>b. PICK m \in Noted(n, here) \cup {Recorded(n, r)} : nest' = m \/ nest' = Exit(m)
    BY <2>5 DEF Log, Lost, r
  <2>7. Rooted(nest') /\ UnderRun(nest', faults') /\ BelowStep(nest')
    BY <2>6, <2>a, <2>b, ExitsStayBelow
  <2>8. NestInv'
    BY <2>1, <2>7 DEF NestInv
  <2>9. RecordInv'
    <3>1. CASE record' = [id |-> r, parent |-> n.parent]
      BY <2>3, <3>1, RecordHung DEF Beneath, RecordInv
    <3>2. CASE UNCHANGED record
      BY <2>1, <3>2, RecordStands
    <3> QED
      BY <2>5, <3>1, <3>2 DEF Log, Lost
  <2> QED
    BY <2>8, <2>9
<1>7. CASE Finish
  <2>1. /\ pc = "finish" /\ nest' = Exit(nest) /\ UNCHANGED <<record, selected>>
        /\ Fault \/ UNCHANGED faults
        /\ pc' \in {"next", "ready", "refusal"}
    BY <1>7 DEF Finish, StepRaises, Leave
  <2>2. UnderRun(nest, faults') /\ BelowStep(nest) /\ selected # {}
    BY <1>h, <2>1, FaultsLast DEF NestInv
  <2>3. Rooted(nest') /\ UnderRun(nest', faults') /\ BelowStep(nest')
    BY <1>r, <2>1, <2>2, ExitsStayBelow
  <2>4. nest'.level >= 4
    BY <2>3 DEF BelowStep, Rooted, Nests
  <2>5. NestInv'
    BY <2>1, <2>2, <2>3, <2>4 DEF NestInv
  <2> QED
    BY <2>1, <2>5, RecordStands
<1>8. CASE Refusal \/ Complete
  <2>1. PICK n \in {nest, SetLevel(nest, Base.workflow)} :
           /\ \/ n = SetLevel(nest, Base.workflow)
              \/ n = nest /\ pc = "next" /\ ~request.enabled
           /\ Log(n, "RUN_COMPLETE", 0) \/ Lost(n, 0)
    <3>1. CASE Refusal
      BY <3>1 DEF Refusal
    <3>2. CASE Complete
      <4> DEFINE n == IF request.enabled THEN SetLevel(nest, Base.workflow) ELSE nest
      <4>1. pc = "next" /\ (Log(n, "RUN_COMPLETE", 0) \/ Lost(n, 0))
        BY <3>2 DEF Complete, Missing
      <4> QED
        BY <4>1
    <3> QED
      BY <1>8, <3>1, <3>2
  <2>2. pc' = "ready" /\ (Fault \/ UNCHANGED faults)
    BY <1>8 DEF Refusal, Complete, Missing, Leave, Lost
  <2>3. Rooted(n) /\ n.level >= 4 /\ n.parent.type = "APP_START"
    <3>1. CASE n = nest /\ pc = "next" /\ ~request.enabled
      <4>1. selected = {}
        BY <3>1 DEF RequestInv
      <4>2. nest.level >= 4 /\ nest.parent.type = "APP_START"
        BY <3>1, <4>1 DEF NestInv
      <4> QED
        BY <1>r, <3>1, <4>2
    <3>2. CASE n = SetLevel(nest, Base.workflow)
      BY <1>r, <3>2, Scopes
    <3> QED
      BY <2>1, <3>1, <3>2
  <2>4. CASE Lost(n, 0)
    BY <1>b, <2>2, <2>3, <2>4, NotedHangs, RecordStands DEF Lost
  <2>5. CASE Log(n, "RUN_COMPLETE", 0)
    <3> DEFINE r == Rec("RUN_COMPLETE", 0)
    <3>1. r \in Records
      BY RecordsOf
    <3>2. nest' = Recorded(n, r) /\ record' = [id |-> r, parent |-> n.parent]
      BY <2>5 DEF Log
    <3>3. Rooted(nest')
      BY <2>3, <3>1, <3>2, RecordedIsRooted
    <3> QED
      BY <1>b, <2>2, <2>3, <3>2, <3>3, RecordHung DEF RecordInv
  <2> QED
    BY <2>1, <2>4, <2>5
<1>9. ASSUME NEW s \in {"SUCCEEDED", "ABORTED"}, Terminate(s) PROVE NestInv' /\ RecordInv'
  <2>1. /\ pc' = "ending" /\ UNCHANGED <<record, faults>>
        /\ nest' = IF pc \in {"operate", "close"} THEN Exit(nest) ELSE nest
    BY <1>9 DEF Terminate, bounds
  <2>2. Rooted(nest')
    <3>1. CASE pc \in {"operate", "close"}
      BY <1>r, <2>1, <3>1, ExitsStayBelow DEF NestInv
    <3>2. CASE pc \notin {"operate", "close"}
      BY <1>r, <2>1, <3>2
    <3> QED
      BY <3>1, <3>2
  <2> QED
    BY <1>b, <2>1, <2>2, RecordStands
<1>10. CASE End \/ FinishRun \/ Collect
  BY <1>10, <1>a DEF End, FinishRun, Collect, bounds
<1>11. CASE UNCHANGED vars
  BY <1>11 DEF vars, workflow, thread, evidence, bounds, NestInv, RecordInv
<1> QED
  BY <1>1, <1>2, <1>3, <1>4, <1>5, <1>6, <1>7, <1>8, <1>9, <1>10, <1>11 DEF Next

(* RUN_START and RUN_COMPLETE hang from the application, STEP_START from   *)
(* its direction, what a step records from the step, however deep the step *)
(* before went and however it ended.                                       *)
THEOREM RecordsHang == Spec => []RecordsUnderTheirStep
<1>1. Init => NestInv /\ RecordInv
  <2> SUFFICES ASSUME Init PROVE NestInv /\ RecordInv
    OBVIOUS
  <2>1. Rooted(nest)
    BY CursorAtFirst DEF Init, Rooted, Rec
  <2>2. RecordInv
    BY DEF Init, RecordInv, RecordHangs, Rec
  <2> QED
    BY <2>1, <2>2 DEF Init, NestInv, Stepping
<1>2. RecordInv => RecordsUnderTheirStep
  BY DEF RecordInv, RecordHangs, RecordsUnderTheirStep, RunHangs, StepHangs, Rec
<1>3. DirectionInv /\ NestInv /\ RecordInv /\ [Next]_vars => NestInv' /\ RecordInv'
  BY NestStep DEF DirectionInv
<1> QED
  BY <1>1, <1>2, <1>3, DirectionAlways, PTL DEF Spec

-----------------------------------------------------------------------------
(* Selection.                                                              *)

LEMMA GreatestOf ==
    ASSUME NEW S \in SUBSET Nat, IsFiniteSet(S), S # {}
    PROVE  \E k \in S : \A j \in S : j <= k
<1> DEFINE Beyond(m) == {j \in S : m < j}
           Counts == {Cardinality(Beyond(m)) : m \in S}
<1>1. ASSUME NEW m \in S
      PROVE  /\ IsFiniteSet(Beyond(m)) /\ Cardinality(Beyond(m)) \in Nat
  <2>1. Beyond(m) \in SUBSET S
    OBVIOUS
  <2> HIDE DEF Beyond
  <2> QED
    BY <2>1, FS_Subset, FS_CardinalityType
<1>2. PICK k \in S : \A m \in S : Cardinality(Beyond(k)) <= Cardinality(Beyond(m))
  <2>1. Counts \in SUBSET Nat /\ Counts # {}
    BY <1>1
  <2>2. PICK c \in Counts : \A d \in Counts : c <= d
    <3> HIDE DEF Counts
    <3> QED
      BY <2>1, LeastOf
  <2> QED
    BY <2>2
<1>3. ASSUME NEW j \in S, k < j PROVE FALSE
  <2>1. Beyond(j) \in SUBSET Beyond(k) /\ j \in Beyond(k) /\ j \notin Beyond(j)
    <3>1. k \in Nat /\ j \in Nat /\ \A h \in S : h \in Nat
      BY <1>3
    <3>2. \A h \in S : j < h => k < h
      BY <1>3, <3>1
    <3>3. Beyond(j) \in SUBSET Beyond(k)
      BY <3>2
    <3>4. j \in Beyond(k) /\ ~(j < j)
      BY <1>3, <3>1
    <3> QED
      BY <3>3, <3>4
  <2>2. Cardinality(Beyond(j)) <= Cardinality(Beyond(k)) /\ Cardinality(Beyond(j)) # Cardinality(Beyond(k))
    <3> HIDE DEF Beyond
    <3> QED
      BY <1>1, <2>1, FS_Subset
  <2> HIDE DEF Beyond
  <2> QED
    BY <1>1, <1>2, <2>2
<1> QED
  BY <1>3

LEMMA Ends ==
    ASSUME NEW S \in SUBSET Steps, S # {}
    PROVE  MinOf(S) \in S /\ MaxOf(S) \in S
<1>1. S \in SUBSET Nat /\ IsFiniteSet(S)
  BY StepAssumption, FS_Subset
<1>2. \E k \in S : \A j \in S : k <= j
  BY <1>1, LeastOf
<1>3. \E k \in S : \A j \in S : j <= k
  BY <1>1, GreatestOf
<1> QED
  BY <1>2, <1>3 DEF MinOf, MaxOf

(* What a selector spans that spans anything. *)
LEMMA Spanned ==
    ASSUME NEW x \in Selectors, Spans(x)
    PROVE  /\ x # Anything
           /\ Span(x) \in SUBSET Steps /\ Span(x) # {}
           /\ x \in Processes => Span(x) = Holds(x)
           /\ x \in Identifiers => Span(x) = Means[x]
<1>0. /\ Identifiers \cap Processes = {} /\ Anything \notin Identifiers \cup Processes
      /\ Means \in [Identifiers -> SUBSET Steps] /\ IsFiniteSet(Steps)
  BY StepAssumption
<1>1. CASE x \in Processes /\ Holds(x) # {}
  BY <1>0, <1>1 DEF Span, Holds
<1>2. CASE Resolves(x)
  <2>1. x \in Identifiers /\ x \notin Processes /\ Cardinality(Means[x]) = 1
        /\ Means[x] \in SUBSET Steps
    BY <1>0, <1>2 DEF Resolves
  <2>2. \E y : Means[x] = {y}
    <3>1. IsFiniteSet(Means[x])
      BY <1>0, <2>1, FS_Subset
    <3> QED
      BY <2>1, <3>1, FS_Singleton
  <2> QED
    BY <1>0, <2>1, <2>2 DEF Span
<1> QED
  BY <1>1, <1>2 DEF Spans

LEMMA SelectsAsAsked ==
    ASSUME NEW q \in Request, ~Unselectable(q), NEW i \in Select(q)
    PROVE  /\ q.step \in Processes => ProcessOf[i] = q.step
           /\ q.step \in Identifiers => i \in Means[q.step]
           /\ q.from \in Processes => \E j \in Steps : j <= i /\ ProcessOf[j] = q.from
           /\ q.to \in Processes => \E j \in Steps : i <= j /\ ProcessOf[j] = q.to
           /\ q.from \in Identifiers => \E j \in Means[q.from] : j <= i
           /\ q.to \in Identifiers => \E j \in Means[q.to] : i <= j
<1>0. /\ q.step \in Selectors /\ q.from \in Selectors /\ q.to \in Selectors
      /\ Anything \notin Identifiers \cup Processes
  BY StepAssumption DEF Request
<1>1. /\ q.step # Anything => q.from = Anything /\ q.to = Anything /\ Spans(q.step)
      /\ q.from # Anything => Spans(q.from)
      /\ q.to # Anything => Spans(q.to)
  BY DEF Unselectable
<1>2. CASE q.step # Anything
  <2>1. i \in Span(q.step)
    BY <1>2 DEF Select
  <2>2. q.step \in Processes => ProcessOf[i] = q.step
    BY <1>0, <1>1, <1>2, <2>1, Spanned DEF Holds
  <2>3. q.step \in Identifiers => i \in Means[q.step]
    BY <1>0, <1>1, <1>2, <2>1, Spanned
  <2> QED
    BY <1>0, <1>1, <1>2, <2>2, <2>3
<1>3. CASE q.step = Anything
  <2>1. /\ q.from # Anything => MinOf(Span(q.from)) <= i
        /\ q.to # Anything => i <= MaxOf(Span(q.to))
    BY <1>3 DEF Select
  <2>2. ASSUME q.from # Anything
        PROVE  \E j \in Span(q.from) : j <= i
    BY <1>0, <1>1, <2>1, <2>2, Spanned, Ends
  <2>3. ASSUME q.to # Anything
        PROVE  \E j \in Span(q.to) : i <= j
    BY <1>0, <1>1, <2>1, <2>3, Spanned, Ends
  <2>4. q.from \in Processes => \E j \in Steps : j <= i /\ ProcessOf[j] = q.from
    BY <1>0, <1>1, <2>2, Spanned DEF Holds
  <2>5. q.to \in Processes => \E j \in Steps : i <= j /\ ProcessOf[j] = q.to
    BY <1>0, <1>1, <2>3, Spanned DEF Holds
  <2>6. q.from \in Identifiers => \E j \in Means[q.from] : j <= i
    BY <1>0, <1>1, <2>2, Spanned
  <2>7. q.to \in Identifiers => \E j \in Means[q.to] : i <= j
    BY <1>0, <1>1, <2>3, Spanned
  <2> QED
    BY <1>0, <1>3, <2>4, <2>5, <2>6, <2>7
<1> QED
  BY <1>2, <1>3

(* No step gets a Run that the selectors of the direction do not mean.     *)
THEOREM NothingIsOutsideTheRequest == Spec => []NothingOutsideTheRequest
<1>1. DirectionInv => NothingOutsideTheRequest
  <2> SUFFICES ASSUME DirectionInv PROVE NothingOutsideTheRequest
    OBVIOUS
  <2>1. request \in Request
    BY TypeParts, StepAssumption DEF DirectionInv, DirectionOK
  <2>2. ASSUME NEW i \in Steps, runs[i] # "none"
        PROVE  ~Unselectable(request) /\ i \in Select(request)
    BY <2>2 DEF DirectionInv, RunsInv, RequestInv
  <2> QED
    BY <2>1, <2>2, SelectsAsAsked DEF NothingOutsideTheRequest
<1> QED
  BY <1>1, DirectionAlways, PTL

-----------------------------------------------------------------------------
(* Steps are released as OrderedRelease promises.                          *)

SettledAs == [i \in Steps |-> IF runs[i] \in Statuses THEN runs[i] ELSE "none"]
Barred == IF request.apply THEN {} ELSE rules.applyOnly

LEMMA BarredType ==
    ASSUME rules \in Rules, request \in Requests
    PROVE  Barred \subseteq Steps /\ rules.always \subseteq Steps
  BY StepAssumption DEF Barred, Rule

(* What of it a step that changes no Run leaves as it was. *)
LEMMA ReleaseStands ==
    ASSUME UNCHANGED <<rules, request, selected, state>>,
           \A i \in Steps : runs'[i] = runs[i]
                               \/ (runs[i] = "none" /\ runs'[i] = "RUNNING")
    PROVE  UNCHANGED Ordered!vars
<1>1. SettledAs' = SettledAs
  BY DEF SettledAs, Statuses
<1> QED
  BY <1>1 DEF Ordered!vars, SettledAs

LEMMA ReleaseBreaks ==
    ASSUME UNCHANGED <<rules, request, selected, runs>>, state = "RUNNING",
           \/ state' = "FAILED"
           \/ state' = "IDLE" /\ \A i \in Steps : runs[i] = "none"
    PROVE  Ordered!Next
<1>1. SettledAs' = SettledAs
  BY DEF SettledAs
<1>2. (\A i \in Steps : runs[i] = "none") => SettledAs = Ordered!Unsettled
  BY DEF SettledAs, Ordered!Unsettled, Statuses
<1>3. Ordered!BreakOff
  BY <1>1, <1>2 DEF Ordered!BreakOff, SettledAs
<1> QED
  BY <1>3 DEF Ordered!Next

LEMMA ReleaseBegins ==
    ASSUME DirectionOK, DirectionOK', state # "RUNNING", UNCHANGED rules,
           \A i \in Steps : runs'[i] = "none",
           state' = "RUNNING" \/ (state' = "FAILED" /\ selected' = {})
    PROVE  Ordered!Next
<1>1. SettledAs' = Ordered!Unsettled
  BY DEF SettledAs, Ordered!Unsettled, Statuses
<1>2. Barred' \subseteq Steps
  BY StepAssumption DEF Barred, DirectionOK, Rule
<1>3. CASE state' = "RUNNING"
  <2>1. Ordered!Direct
    BY <1>1, <1>2, <1>3 DEF Ordered!Direct, SettledAs, Barred, DirectionOK
  <2> QED
    BY <2>1 DEF Ordered!Next
<1>4. CASE state' = "FAILED" /\ selected' = {}
  <2>1. Ordered!Refuse
    BY <1>1, <1>2, <1>4 DEF Ordered!Refuse, SettledAs, Barred
  <2> QED
    BY <2>1 DEF Ordered!Next
<1> QED
  BY <1>3, <1>4

(* There is a failure exactly if the direction noted one. *)
LEMMA FailureNoted ==
    ASSUME DirectionOK, RunsInv, FailureInv
    PROVE  Ordered!Failure <=> firstFailure # 0
<1>1. Ordered!Failure <=> \E i \in selected : SettledAs[i] = "FAILED"
  BY DEF Ordered!Failure, SettledAs
<1>2. \A i \in selected : SettledAs[i] = "FAILED" <=> runs[i] = "FAILED"
  BY DEF SettledAs, Statuses, DirectionOK
<1>3. (\E i \in Steps : runs[i] = "FAILED") <=> \E i \in selected : runs[i] = "FAILED"
  BY DEF RunsInv, DirectionOK
<1> QED
  BY <1>1, <1>2, <1>3 DEF FailureInv, NoneFailed

(* A step that ends is settled in its turn, and by the rules.              *)
LEMMA ReleaseSettles ==
    ASSUME DirectionOK, StandingOK, FlowInv, RunsInv, TurnInv, FailureInv, HeldInv,
           pc = "finish", runs' = [runs EXCEPT ![here] = Status],
           UNCHANGED <<rules, request, selected, state>>
    PROVE  Ordered!Next
<1>1. here \in Steps /\ here \in selected \ todo /\ state = "RUNNING" /\ runs[here] = "RUNNING"
  BY DEF RunsInv, TurnInv, FlowInv, DirectionOK, Stepping, Directing
<1>2. SettledAs[here] = "none"
  BY <1>1 DEF SettledAs, Statuses
<1>3. \A j \in selected : j < here => SettledAs[j] # "none"
  <2> TAKE j \in selected
  <2>1. HAVE j < here
  <2>2. j \notin todo
    <3>1. j \in Nat /\ here \in Nat
      BY <1>1, StepAssumption DEF DirectionOK
    <3>2. j \in todo => here < j
      BY <1>1 DEF TurnInv, Stepping
    <3> QED
      BY <2>1, <3>1, <3>2
  <2>3. j \in Steps /\ j # here
    BY <1>1, <2>1, StepAssumption DEF DirectionOK
  <2>4. runs[j] \in Statuses
    BY <2>2, <2>3 DEF TurnInv, Settled, Stepping
  <2> QED
    BY <2>3, <2>4 DEF SettledAs, Statuses
<1>4. SettledAs' = [SettledAs EXCEPT ![here] = Status]
  <2>1. \A i \in Steps : runs'[i] = IF i = here THEN Status ELSE runs[i]
    BY <1>1 DEF DirectionOK
  <2> QED
    BY <1>1, <2>1, StatusType DEF SettledAs
<1>5. Held(here) <=> here \in Barred \/ (Ordered!Failure /\ here \notin rules.always)
  BY FailureNoted DEF Held, Barred
<1>6. /\ Held(here) => Status = "NOT RUN"
      /\ ~Held(here) => Status \in {"SUCCEEDED", "FAILED", "SKIPPED"}
  BY DEF HeldInv, Stepping, Status, StandingOK, Results
<1>7. Ordered!Settle
  <2>1. \E s \in IF here \in Barred \/ (Ordered!Failure /\ here \notin rules.always)
                 THEN {"NOT RUN"} ELSE {"SUCCEEDED", "FAILED", "SKIPPED"} :
           SettledAs' = [SettledAs EXCEPT ![here] = s]
    BY <1>4, <1>5, <1>6
  <2> QED
    BY <1>1, <1>2, <1>3, <2>1 DEF Ordered!Settle, SettledAs, Barred
<1> QED
  BY <1>7 DEF Ordered!Next

LEMMA ReleaseCompletes ==
    ASSUME DirectionOK, RunsInv, TurnInv, FailureInv, FlowInv, pc = "next", todo = {},
           UNCHANGED <<rules, request, selected, runs>>,
           state' = IF firstFailure = 0 THEN "SUCCEEDED" ELSE "FAILED"
    PROVE  Ordered!Next
<1>1. \A i \in selected : SettledAs[i] # "none"
  <2>1. \A i \in selected : runs[i] \in Statuses /\ i \in Steps
    BY DEF TurnInv, Settled, DirectionOK
  <2> QED
    BY <2>1 DEF SettledAs, Statuses
<1>2. SettledAs' = SettledAs
  BY DEF SettledAs
<1>3. Ordered!Complete
  BY <1>1, <1>2, FailureNoted DEF Ordered!Complete, SettledAs, FlowInv, Directing
<1> QED
  BY <1>3 DEF Ordered!Next

LEMMA ReleaseStep == DirectionInv /\ [Next]_vars => [Ordered!Next]_(Ordered!vars)
<1> SUFFICES ASSUME DirectionInv, [Next]_vars
             PROVE  Ordered!Next \/ UNCHANGED Ordered!vars
  OBVIOUS
<1>0. /\ DirectionOK /\ StandingOK /\ DirectionOK'
      /\ FlowInv /\ RunsInv /\ TurnInv /\ FailureInv /\ RequestInv /\ HeldInv
  BY TypeParts, DirectionStep DEF DirectionInv
<1>s. pc \in Directing <=> state = "RUNNING"
  BY <1>0 DEF FlowInv
<1> USE DEF Directing
<1>a. ASSUME UNCHANGED <<rules, request, selected, runs>>, state = "RUNNING",
             UNCHANGED state \/ state' = "FAILED"
      PROVE  Ordered!Next \/ UNCHANGED Ordered!vars
  BY <1>a, ReleaseStands, ReleaseBreaks
<1>1. ASSUME NEW q \in Requests, Direct(q) PROVE Ordered!Next
  <2>1. /\ state # "RUNNING" /\ UNCHANGED rules /\ runs' = [i \in Steps |-> "none"]
        /\ state' = "RUNNING" \/ (state' = "FAILED" /\ selected' = {})
    BY <1>1, <1>s DEF Direct, Leave
  <2> QED
    BY <1>0, <2>1, ReleaseBegins
<1>2. CASE Start
  BY <1>2, <1>a, <1>s DEF Start, Leave
<1>3. CASE HoldBack \/ Release
  <2>1. /\ pc = "next" /\ UNCHANGED <<rules, request, selected>>
        /\ \/ \E i \in todo : runs' = [runs EXCEPT ![i] = "RUNNING"] /\ UNCHANGED state
           \/ UNCHANGED runs /\ (UNCHANGED state \/ state' = "FAILED")
    BY <1>3 DEF HoldBack, Release, Leave
  <2>2. CASE \E i \in todo : runs' = [runs EXCEPT ![i] = "RUNNING"] /\ UNCHANGED state
    <3>1. \A i \in Steps : runs'[i] = runs[i] \/ (runs[i] = "none" /\ runs'[i] = "RUNNING")
      BY <1>0, <2>2 DEF DirectionOK, RunsInv
    <3> QED
      BY <2>1, <2>2, <3>1, ReleaseStands
  <2> QED
    BY <1>a, <1>s, <2>1, <2>2
<1>4. CASE Open
  BY <1>4, <1>a, <1>s DEF Open, StepRaises, Leave
<1>5. CASE Operate
  BY <1>5, <1>a, <1>s DEF Operate, workflow
<1>6. CASE Close
  BY <1>6, <1>a, <1>s DEF Close, StepRaises, Leave
<1>7. CASE Finish
  <2>1. CASE runs' = [runs EXCEPT ![here] = Status] /\ UNCHANGED state
    BY <1>0, <1>7, <2>1, ReleaseSettles DEF Finish
  <2>2. CASE UNCHANGED runs /\ StepRaises
    BY <1>7, <1>a, <1>s, <2>2 DEF Finish, StepRaises, Leave
  <2> QED
    BY <1>7, <2>1, <2>2 DEF Finish
<1>8. CASE Refusal
  BY <1>8, <1>a, <1>s DEF Refusal, Leave
<1>9. CASE Complete
  <2>1. /\ pc = "next" /\ todo = {} /\ UNCHANGED <<rules, request, selected, runs>>
        /\ Leave(Outcome) \/ Leave("raised")
    BY <1>9 DEF Complete
  <2>2. CASE Leave("raised")
    BY <1>a, <1>s, <2>1, <2>2 DEF Leave
  <2>3. CASE Leave(Outcome) /\ request.enabled
    <3>1. state' = IF firstFailure = 0 THEN "SUCCEEDED" ELSE "FAILED"
      BY <2>3 DEF Leave, Outcome
    <3> QED
      BY <1>0, <2>1, <3>1, ReleaseCompletes
  <2>4. CASE Leave(Outcome) /\ ~request.enabled
    <3>1. state' = "IDLE"
      BY <2>4 DEF Leave, Outcome
    <3>2. \A i \in Steps : runs[i] = "none"
      BY <1>0, <2>4 DEF RequestInv, RunsInv
    <3> QED
      BY <1>s, <2>1, <3>1, <3>2, ReleaseBreaks
  <2> QED
    BY <2>1, <2>2, <2>3, <2>4
<1>10. ASSUME NEW s \in {"SUCCEEDED", "ABORTED"}, Terminate(s)
       PROVE  Ordered!Next \/ UNCHANGED Ordered!vars
  BY <1>10, <1>a, <1>s, ReleaseStands DEF Terminate
<1>11. CASE End \/ FinishRun \/ Collect \/ UNCHANGED vars
  BY <1>11, ReleaseStands DEF End, FinishRun, Collect, vars, workflow
<1> QED
  BY <1>1, <1>2, <1>3, <1>4, <1>5, <1>6, <1>7, <1>8, <1>9, <1>10, <1>11 DEF Next

(* No ordinary step runs after a failed one, and no apply_only step in a   *)
(* dry run; no always_run step is held back for a failure, and none        *)
(* without a reason; and all of it in order.                               *)
THEOREM DirectionReleasesInOrder == Spec => ImplementsOrderedRelease
<1>1. Init => Ordered!Init
  <2> SUFFICES ASSUME Init PROVE Ordered!Init
    OBVIOUS
  <2>1. SettledAs = Ordered!Unsettled
    BY DEF Init, SettledAs, Ordered!Unsettled, Statuses
  <2>2. Barred \subseteq Steps /\ rules.always \subseteq Steps
    BY BarredType DEF Init
  <2> QED
    BY <2>1, <2>2 DEF Init, Ordered!Init, SettledAs, Barred
<1> QED
  BY <1>1, ReleaseStep, DirectionAlways, PTL DEF Spec, ImplementsOrderedRelease, Ordered!Spec
================================================================================
