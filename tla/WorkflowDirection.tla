--------------------------- MODULE WorkflowDirection ---------------------------
(***************************************************************************)
(* One application process that directs a Workflow: Workflow.direct        *)
(* (workflow/workflow.py), the WorkflowSteps it releases or holds back     *)
(* (workflow_step.py), the Run of each (run/run.py), the records and       *)
(* batch steps of both, and the process boundary that ends the             *)
(* Application Run and the batch (config/bootstrap.py).                    *)
(*                                                                         *)
(* The thread is one; what comes in between its steps is a record or a     *)
(* required call of the control database that fails, and SIGTERM.          *)
(***************************************************************************)
EXTENDS RunNesting, AmbientBinding, BatchControl, FiniteSets

CONSTANTS Steps,         \* the steps, by their ordinal
          Processes,     \* the WorkflowProcesses
          ProcessOf,     \* of each step
          Identifiers,   \* what a selector may say besides a process
          Means,         \* by identifier: the steps it matches
          Rules,         \* how the steps may be configured
          Requests,      \* what direct may be asked
          Main, AppLog,  \* the thread, and the RunLog of the process
          MaxDirections, MaxFaults

Anything == "anything"
Selectors == Processes \cup Identifiers \cup {Anything}

(* The arguments of direct, and whether the Workflow is enabled then.      *)
Request == [step : Selectors, from : Selectors, to : Selectors,
            apply : BOOLEAN, enabled : BOOLEAN]

(* always_run, apply_only: steps; both: run_store is "both". *)
Rule == [always : SUBSET Steps, applyOnly : SUBSET Steps, both : BOOLEAN]

(* A workflow is a list of steps; what is not given is not a name; a step  *)
(* of the batch is no step of a direction's by chance.                     *)
ASSUME StepAssumption ==
          /\ Steps \subseteq Nat \ {0} /\ IsFiniteSet(Steps)
          /\ ProcessOf \in [Steps -> Processes]
          /\ Means \in [Identifiers -> SUBSET Steps]
          /\ Identifiers \cap Processes = {}
          /\ Anything \notin Identifiers \cup Processes
          /\ Rules \subseteq Rule /\ Requests \subseteq Request
          /\ AppLog # NoRun
          /\ MaxDirections \in Nat /\ MaxFaults \in Nat
          /\ Root \notin (1 .. MaxDirections) \X Steps

VARIABLES
  \* the Workflow and how it is configured
  rules,       \* one of Rules
  state,       \* Workflow.state
  running,     \* Workflow._running is taken
  request,     \* the selectors and the dry run of this direction
  selected,    \* _direction_steps
  observed,    \* _observed_steps
  stepState,   \* WorkflowStep.state
  firstFailure, \* 0 or the step
  \* where the thread stands
  pc, todo, here, result,
  \* the Runs of this direction's steps, and the Application Run
  runs, appRun,
  \* the log and the ambient state
  nest, binding, step, record, completion,
  \* the environment
  outcome,     \* of the last direction: returned, or "raised"
  terminated,  \* the status SIGTERM declared
  directions, faults

workflow == <<state, running, request, selected, observed, stepState, firstFailure>>
thread   == <<pc, todo, here, result>>
evidence == <<nest, record>>
ambient  == <<binding, step>>
bounds   == <<directions, faults>>
vars == <<rules, workflow, thread, runs, appRun, evidence, ambient, completion,
          outcome, terminated, bounds, batchVars>>

Statuses == {"SUCCEEDED", "FAILED", "SKIPPED", "NOT RUN"}
Results == {"ok", "failed", "skipped", "raises", "not run"}
Directing == {"start", "next", "open", "operate", "close", "finish",
              "refusal"}


-----------------------------------------------------------------------------
(* Records.                                                                *)

Rec(t, i) == [type |-> t, step |-> i]
Records == {Rec(t, i) : t \in {"APP_START", "RUN_START", "STEP_START", "EVIDENCE",
                               "STEP_END", "RUN_COMPLETE", "NOTICE"},
                        i \in Steps \cup {0}}

(* append: the record is written where the log stands, or it is lost and   *)
(* the caller told so with None; require_structural_record raises then     *)
(* when both outputs are configured.                                       *)
Log(n, t, i) ==
    /\ nest' = Recorded(n, Rec(t, i))
    /\ record' = [id |-> Rec(t, i), parent |-> n.parent]

Fault == faults < MaxFaults /\ faults' = faults + 1

(* A log event, a statement's evidence or a configuration reference may be *)
(* recorded besides, and is the first of its level or anchors nothing.     *)
Noted(n, i) == {n, Recorded(n, Rec("NOTICE", i))}

(* A lost record is warned of.                                             *)
Lost(n, i) == Fault /\ nest' \in Noted(n, i) /\ UNCHANGED record

(* A record whose loss the caller goes on after, and one it raises for.    *)
Kept(n, t, i) == \/ Log(n, t, i) /\ UNCHANGED faults
                 \/ ~rules.both /\ Lost(n, i)
Missing(n, i) == rules.both /\ Lost(n, i)

-----------------------------------------------------------------------------
(* Selection.                                                              *)

MinOf(S) == CHOOSE i \in S : \A j \in S : i <= j
MaxOf(S) == CHOOSE i \in S : \A j \in S : j <= i

Holds(p) == {i \in Steps : ProcessOf[i] = p}

(* _resolve_index fails closed: exactly one step matches. *)
Resolves(x) == x \in Identifiers /\ Cardinality(Means[x]) = 1

(* _resolve_span: a process with steps, or the one step meant. *)
Span(x) == IF x \in Processes /\ Holds(x) # {} THEN Holds(x) ELSE Means[x]
Spans(x) == (x \in Processes /\ Holds(x) # {}) \/ Resolves(x)

(* _select refuses. *)
Unselectable(q) ==
    \/ q.step # Anything /\ (q.from # Anything \/ q.to # Anything)
    \/ q.step # Anything /\ ~Spans(q.step)
    \/ q.from # Anything /\ ~Spans(q.from)
    \/ q.to # Anything /\ ~Spans(q.to)
    \/ /\ q.from # Anything /\ q.to # Anything
       /\ Spans(q.from) /\ Spans(q.to)
       /\ MinOf(Span(q.from)) > MaxOf(Span(q.to))

(* Slip: a process is taken for the range between its first and last step. *)
SelectPositional(q) ==
    LET x == IF q.step # Anything THEN q.step ELSE q.from
        y == IF q.step # Anything THEN q.step ELSE q.to
    IN {i \in Steps : /\ x # Anything => MinOf(Span(x)) <= i
                      /\ y # Anything => i <= MaxOf(Span(y))}

(* _select: by membership with step, by position with from_step, to_step.  *)
Select(q) ==
    IF q.step # Anything THEN Span(q.step)
    ELSE {i \in Steps : /\ q.from # Anything => MinOf(Span(q.from)) <= i
                        /\ q.to # Anything => i <= MaxOf(Span(q.to))}

-----------------------------------------------------------------------------
Init ==
    /\ rules \in Rules
    /\ state = "IDLE" /\ running = FALSE /\ request \in Requests
    /\ selected = {} /\ observed = {} /\ firstFailure = 0
    /\ stepState = [i \in Steps |-> "PENDING"]
    /\ pc = "ready" /\ todo = {} /\ here = 0 /\ result = "ok"
    /\ runs = [i \in Steps |-> "none"] /\ appRun = "RUNNING"
    /\ nest = Recorded(SetLevel(Fresh, Base.app), Rec("APP_START", 0))
    /\ binding \in {Unbound({Main}), Bind(Unbound({Main}), Main, AppLog)}
    /\ step = 0
    /\ record = [id |-> Rec("APP_START", 0), parent |-> NoRecord]
    /\ completion = "none" /\ outcome = "none" /\ terminated = "none"
    /\ directions = 0 /\ faults = 0
    /\ BatchInit

(* direct ends: what it bound is undone, its state is its outcome, the     *)
(* lock is free.                                                           *)
Leave(o) ==
    /\ state' = IF o = "refused" THEN "IDLE" ELSE IF o = "raised" THEN "FAILED" ELSE o
    /\ outcome' = o
    /\ running' = FALSE
    /\ pc' = "ready"

(* Slip: what the direction before observed is kept. *)
KeepObserved == observed

(* direct: _observed_steps.clear() *)
ClearedObserved == {}

(* direct, up to the selection.  A disabled Workflow selects nothing. *)
Direct(q) ==
    /\ pc = "ready" /\ directions < MaxDirections
    /\ directions' = directions + 1
    /\ request' = q
    /\ observed' = ClearedObserved /\ firstFailure' = 0 /\ here' = 0
    /\ runs' = [i \in Steps |-> "none"]
    /\ completion' = "none" /\ result' = "ok"
    /\ IF q.enabled /\ Unselectable(q)
       THEN /\ selected' = {} /\ todo' = {}
            /\ Leave("raised")
       ELSE /\ state' = "RUNNING" /\ running' = TRUE /\ outcome' = "none"
            /\ selected' = IF q.enabled THEN Select(q) ELSE {}
            /\ todo' = selected'
            /\ pc' = "start"
    /\ UNCHANGED <<rules, stepState, appRun, evidence, ambient, terminated,
                   faults, batchVars>>

(* _direct, _refused: RUN_START, and the log is bound; a RUN_START that is *)
(* missing raises before that.                                             *)
Start ==
    LET n == SetLevel(nest, Base.workflow) IN
    /\ pc = "start"
    /\ \/ /\ Kept(n, "RUN_START", 0)
          /\ binding' = Bind(binding, Main, AppLog)
          /\ pc' = "next"
          /\ UNCHANGED <<state, running, outcome>>
       \/ /\ Missing(n, 0)
          /\ Leave("raised")
          /\ UNCHANGED binding
    /\ UNCHANGED <<rules, request, selected, observed, stepState, firstFailure,
                   todo, here, result, runs, appRun, step, completion,
                   terminated, directions, batchVars>>

(* Slip: always_run is thought to run in a dry run too. *)
HeldUnlessAlways(i) ==
    /\ i \notin rules.always
    /\ firstFailure # 0 \/ (~request.apply /\ i \in rules.applyOnly)

(* The rules that hold a step back. *)
Held(i) ==
    \/ firstFailure # 0 /\ i \notin rules.always
    \/ ~request.apply /\ i \in rules.applyOnly

(* Slip: what leaves a direction by an error stays bound. *)
StaysBound == binding' = IF pc = "next" THEN Clear(binding, Main) ELSE binding

(* What leaves a direction that was bound. *)
Unbind == binding' = Clear(binding, Main)

(* WorkflowStep._become, step_changed *)
Becomes(i, s) == /\ stepState' = [stepState EXCEPT ![i] = s]
                 /\ observed' = observed \cup {i}

(* The next selected step is held back: that is logged, and its Run is     *)
(* recorded, but not begun.                                                *)
HoldBack == \E i \in todo :
    /\ pc = "next" /\ \A j \in todo : i <= j
    /\ Held(i)
    /\ todo' = todo \ {i} /\ here' = i
    /\ nest' \in Noted(SetLevel(nest, Base.workflow_step), i)
    /\ \/ /\ runs' = [runs EXCEPT ![i] = "RUNNING"]
          /\ pc' = "open" /\ result' = "not run"
          /\ UNCHANGED <<state, running, outcome, binding, faults>>
       \/ /\ Fault /\ Leave("raised") /\ Unbind
          /\ UNCHANGED <<runs, result>>
    /\ UNCHANGED <<rules, request, selected, observed, stepState, firstFailure,
                   appRun, record, step, completion, terminated, directions,
                   batchVars>>

(* It is released: its contract is looked at, which may warn, its Run      *)
(* recorded, and it becomes RUNNING.                                       *)
Release == \E i \in todo :
    /\ pc = "next" /\ \A j \in todo : i <= j
    /\ ~Held(i)
    /\ todo' = todo \ {i} /\ here' = i
    /\ nest' \in Noted(SetLevel(nest, Base.workflow_step), i)
    /\ \/ /\ runs' = [runs EXCEPT ![i] = "RUNNING"]
          /\ Becomes(i, "RUNNING")
          /\ pc' = "open" /\ result' = "ok"
          /\ UNCHANGED faults
       \/ /\ Fault
          /\ pc' = "refusal"
          /\ UNCHANGED <<observed, stepState, runs, result>>
    /\ UNCHANGED <<rules, state, running, request, selected, firstFailure, appRun,
                   record, ambient, completion, outcome, terminated, directions,
                   batchVars>>

(* An error leaves the step: that of one released is an AppError, which    *)
(* _direct records as a refusal; that of one held back is not caught.      *)
StepRaises ==
    /\ step' = 0
    /\ IF result = "not run"
       THEN Leave("raised") /\ Unbind
       ELSE pc' = "refusal" /\ UNCHANGED <<state, running, outcome, binding>>

(* STEP_START, and the batch step is opened. *)
Open ==
    /\ pc = "open"
    /\ \/ /\ Kept(nest, "STEP_START", here)
          /\ StartStep(<<directions, here>>)
          /\ step' = here
          /\ pc' = IF result = "not run" THEN "close" ELSE "operate"
          /\ UNCHANGED <<state, running, outcome, binding>>
       \/ /\ Missing(nest, here)
          /\ StepRaises
          /\ UNCHANGED batchVars
       \/ /\ Fault /\ Log(nest, "STEP_START", here)
          /\ StepRaises
          /\ UNCHANGED batchVars
    /\ UNCHANGED <<rules, request, selected, observed, stepState, firstFailure,
                   todo, here, result, runs, appRun, completion, terminated,
                   directions>>

(* The operation records evidence beneath STEP_START, and may go deeper    *)
(* and not come back.                                                      *)
Operate ==
    LET n == Enter(nest) IN
    /\ pc = "operate"
    /\ \E m \in {n, Enter(Recorded(n, Rec("EVIDENCE", here))), Sibling(n)} :
          Log(m, "EVIDENCE", here)
    /\ result' \in {"ok", "failed", "skipped", "raises"}
    /\ pc' = "close"
    /\ UNCHANGED <<rules, workflow, todo, here, runs, appRun, ambient, completion,
                   outcome, terminated, bounds, batchVars>>

(* STEP_END, and the batch step is closed.  Around them STEP_FAILURE may   *)
(* be recorded, which is evidence and not required.                        *)
Close ==
    LET n == IF result = "not run" THEN Enter(nest) ELSE nest IN
    /\ pc = "close"
    /\ \/ /\ Kept(n, "STEP_END", here)
          /\ CloseStep
          /\ pc' = "finish"
          /\ UNCHANGED <<state, running, outcome, ambient>>
       \/ /\ rules.both /\ Fault /\ UNCHANGED record
          /\ nest' \in {Exit(m) : m \in Noted(n, here)}
          /\ StepRaises
          /\ UNCHANGED batchVars
       \/ /\ Fault
          /\ nest' = Exit(Recorded(n, Rec("STEP_END", here)))
          /\ record' = [id |-> Rec("STEP_END", here), parent |-> n.parent]
          /\ StepRaises
          /\ UNCHANGED batchVars
    /\ UNCHANGED <<rules, request, selected, observed, stepState, firstFailure,
                   todo, here, result, runs, appRun, completion, terminated,
                   directions>>

(* The status a Run is finished with. *)
Status == CASE result = "ok" -> "SUCCEEDED"
            [] result = "skipped" -> "SKIPPED"
            [] result = "not run" -> "NOT RUN"
            [] OTHER -> "FAILED"

(* Slip: what is kept is how the last step went. *)
NoteLast == IF Status = "FAILED" THEN here ELSE 0

(* _direct: the first failure is captured once. *)
NoteFailure == IF Status = "FAILED" /\ firstFailure = 0 THEN here ELSE firstFailure

(* The level is left, the Run finished, and the step takes its status; a   *)
(* first failure is noted.                                                 *)
Finish ==
    /\ pc = "finish"
    /\ \/ /\ runs' = [runs EXCEPT ![here] = Status]
          /\ Becomes(here, Status)
          /\ firstFailure' = NoteFailure
          /\ pc' = "next" /\ step' = 0
          /\ UNCHANGED <<state, running, outcome, binding, faults>>
       \/ /\ Fault
          /\ StepRaises
          /\ UNCHANGED <<runs, observed, stepState, firstFailure>>
    /\ nest' = Exit(nest)
    /\ UNCHANGED <<rules, request, selected, todo, here, result, appRun, record,
                   completion, terminated, directions, batchVars>>

(* _pre_execution_failure, and the error goes on; the completion may be    *)
(* missing, and then that is the error.                                    *)
Refusal ==
    LET n == SetLevel(nest, Base.workflow) IN
    /\ pc = "refusal"
    /\ \/ Log(n, "RUN_COMPLETE", 0) /\ completion' = "failed" /\ UNCHANGED faults
       \/ Lost(n, 0) /\ UNCHANGED completion
    /\ Leave("raised") /\ Unbind
    /\ UNCHANGED <<rules, request, selected, observed, stepState, firstFailure,
                   todo, here, result, runs, appRun, step, terminated, directions,
                   batchVars>>

(* Every selected step was visited: one completion. *)
Outcome == IF ~request.enabled THEN "refused"
           ELSE IF firstFailure = 0 THEN "SUCCEEDED" ELSE "FAILED"

Complete ==
    LET n == IF request.enabled THEN SetLevel(nest, Base.workflow) ELSE nest IN
    /\ pc = "next" /\ todo = {}
    /\ \/ /\ Log(n, "RUN_COMPLETE", 0) /\ UNCHANGED faults
          /\ completion' = IF Outcome = "SUCCEEDED" THEN "success"
                           ELSE IF Outcome = "FAILED" THEN "failed" ELSE "refused"
          /\ Leave(Outcome)
       \/ /\ ~rules.both /\ Lost(n, 0)
          /\ UNCHANGED completion
          /\ Leave(Outcome)
       \/ /\ Missing(n, 0)
          /\ UNCHANGED completion
          /\ Leave("raised")
    /\ Unbind
    /\ UNCHANGED <<rules, request, selected, observed, stepState, firstFailure,
                   todo, here, result, runs, appRun, step, terminated, directions,
                   batchVars>>

-----------------------------------------------------------------------------
(* The process boundary.                                                   *)

Bound == Directing \ {"start"}

(* SIGTERM where the entry point declared what it means: Terminated passes *)
(* every handler of AppError and of Exception, and every finally.          *)
Terminate(s) ==
    /\ terminated = "none" /\ pc \in Directing \cup {"ready"}
    /\ terminated' = s
    /\ pc' = "ending"
    /\ running' = FALSE
    /\ state' = IF pc = "ready" THEN state ELSE "FAILED"
    /\ outcome' = IF pc = "ready" THEN outcome ELSE "raised"
    /\ binding' = IF pc \in Bound THEN Clear(binding, Main) ELSE binding
    /\ nest' = IF pc \in {"operate", "close"} THEN Exit(nest) ELSE nest
    /\ step' = 0
    /\ UNCHANGED <<rules, request, selected, observed, stepState, firstFailure,
                   todo, here, result, runs, appRun, record, completion, bounds,
                   batchVars>>

(* The application's block ends. *)
End ==
    /\ pc = "ready"
    /\ pc' = "ending"
    /\ UNCHANGED <<rules, workflow, todo, here, result, runs, appRun, evidence,
                   ambient, completion, outcome, terminated, bounds, batchVars>>

(* _app_runtime: the Application Run's status. *)
Declared(failed) == IF terminated # "none" THEN terminated
                    ELSE IF failed THEN "FAILED" ELSE "SUCCEEDED"

(* _app_runtime: the Application Run is finished, or that fails and is     *)
(* reported, and the ambient binding is dropped.  The block has failed if  *)
(* it raised, was ended by a failure's termination, or set run_failed.     *)
FinishRun == \E failed \in BOOLEAN :
    /\ pc = "ending"
    /\ \/ appRun' = Declared(failed) /\ UNCHANGED faults
       \/ Fault /\ UNCHANGED appRun
    /\ binding' = Reset(binding)
    /\ pc' = "collect"
    /\ UNCHANGED <<rules, workflow, todo, here, result, runs, evidence, step,
                   completion, outcome, terminated, directions, batchVars>>

(* collect_runtime, Control.close: the batch is finished, or what is left  *)
(* of it is let go.                                                        *)
Collect ==
    /\ pc = "collect"
    /\ \/ FinishBatch /\ UNCHANGED faults
       \/ Fault /\ FinishBatchFails
    /\ pc' = IF bound'.batch THEN "collect" ELSE "gone"
    /\ UNCHANGED <<rules, workflow, todo, here, result, runs, appRun, evidence,
                   ambient, completion, outcome, terminated, directions>>

Next ==
    \/ \E q \in Requests : Direct(q)
    \/ Start \/ HoldBack \/ Release \/ Open \/ Operate \/ Close \/ Finish
    \/ Refusal \/ Complete
    \/ \E s \in {"SUCCEEDED", "ABORTED"} : Terminate(s)
    \/ End \/ FinishRun \/ Collect

Spec == Init /\ [][Next]_vars

-----------------------------------------------------------------------------
TypeOK ==
    /\ rules \in Rules
    /\ state \in {"IDLE", "RUNNING", "SUCCEEDED", "FAILED"}
    /\ running \in BOOLEAN /\ request \in Requests
    /\ selected \subseteq Steps /\ observed \subseteq Steps
    /\ stepState \in [Steps -> Statuses \cup {"PENDING", "RUNNING"}]
    /\ firstFailure \in Steps \cup {0}
    /\ pc \in Directing \cup {"ready", "ending", "collect", "gone"}
    /\ todo \subseteq Steps /\ here \in Steps \cup {0} /\ result \in Results
    /\ runs \in [Steps -> Statuses \cup {"none", "RUNNING"}]
    /\ appRun \in {"RUNNING", "SUCCEEDED", "FAILED", "ABORTED"}
    /\ nest.level \in Nat /\ step \in Steps \cup {0}
    /\ record.id \in Records /\ record.parent \in Records \cup {NoRecord}
    /\ completion \in {"none", "success", "failed", "refused"}
    /\ outcome \in {"none", "SUCCEEDED", "FAILED", "refused", "raised"}
    /\ terminated \in {"none", "SUCCEEDED", "ABORTED"}
    /\ directions \in 0 .. MaxDirections /\ faults \in 0 .. MaxFaults

AtRest == pc \notin Directing

(* What a direction opened it undoes on every path, whatever raised inside *)
(* it or terminated it: the lock is free, no step is bound, the ambient    *)
(* binding is the one there was before, and the state is an outcome.  At   *)
(* most the Run of the step it raised in is without an end; and a          *)
(* direction that returns has settled every step it selected.              *)
ScopesUndone ==
    /\ AtRest => /\ ~running /\ state # "RUNNING" /\ step = 0
                 /\ Len(binding.frames[Main]) <= 1
                 /\ binding.run = AppLog <=> Len(binding.frames[Main]) = 1
                 /\ \A i \in Steps : runs[i] = "RUNNING" => outcome = "raised" /\ i = here
                 /\ outcome \in {"SUCCEEDED", "FAILED"} =>
                       \A i \in selected : runs[i] \in Statuses
    /\ pc \in Bound => binding.run = AppLog

(* What is reported of a direction is what its steps came to: the state,   *)
(* the value returned and RUN_COMPLETE say success only when no Run of it  *)
(* failed, and a failure of a step or of what surrounds it is never lost.  *)
OutcomeIsTrue ==
    AtRest =>
        LET failed == \E i \in selected : runs[i] = "FAILED"
        IN /\ state = "SUCCEEDED" => ~failed /\ completion \in {"success", "none"}
           /\ completion = "success" => ~failed
           /\ failed => state = "FAILED" /\ outcome \in {"FAILED", "raised"}
           /\ outcome = "FAILED" => failed

(* A selector means what it says (backlog 1044): `step` with a process is  *)
(* exactly the steps the process holds, from and to are positional; no     *)
(* step outside that gets a Run.                                           *)
NothingOutsideTheRequest ==
    \A i \in Steps : runs[i] # "none" =>
        /\ request.step \in Processes => ProcessOf[i] = request.step
        /\ request.step \in Identifiers => i \in Means[request.step]
        /\ request.from \in Processes =>
              \E j \in Steps : j <= i /\ ProcessOf[j] = request.from
        /\ request.to \in Processes =>
              \E j \in Steps : i <= j /\ ProcessOf[j] = request.to
        /\ request.from \in Identifiers => \E j \in Means[request.from] : j <= i
        /\ request.to \in Identifiers => \E j \in Means[request.to] : i <= j

Above == {Rec("RUN_START", 0), Rec("APP_START", 0), Rec("NOTICE", 0)}

(* A record hangs from where its work belongs: RUN_START from the          *)
(* application's, STEP_START from the RUN_START of its direction, all that *)
(* a step records from the first record of that step -- its STEP_START, or *)
(* what was logged of its release before -- however deep the step before   *)
(* went and however it ended.  A lost record's place is taken by the one   *)
(* above it, or by what the direction recorded instead.                    *)
RecordsUnderTheirStep ==
    LET r == record.id  p == record.parent IN
    /\ r.type \in {"RUN_START", "RUN_COMPLETE"} => p.type = "APP_START"
    /\ r.type = "STEP_START" => p.type = "RUN_START" \/ (faults > 0 /\ p \in Above)
    /\ r.type \in {"EVIDENCE", "STEP_END"} =>
          \/ p.type \in {"STEP_START", "EVIDENCE", "NOTICE"} /\ p.step = r.step
          \/ faults > 0 /\ p \in Above

(* What the display shows of a step of this direction.                     *)
Shown(i) == IF i \in observed THEN stepState[i] ELSE "PENDING"

(* ... belongs to this direction: a step it did not reach is PENDING,      *)
(* though an earlier direction ended it, and an outcome is its Run's.      *)
ShownIsThisDirections ==
    \A i \in selected :
        /\ Shown(i) \in Statuses => Shown(i) = runs[i]
        /\ runs[i] = "none" => Shown(i) = "PENDING"

(* The process gone, the batch is ended with its root and every step, and  *)
(* the Application Run has its status, if no required call failed -- also  *)
(* when SIGTERM came in the middle of a step; always the root ends before  *)
(* the batch, and the status a termination declared is the one kept.       *)
NothingLeftOpen ==
    /\ pc = "gone" /\ faults = 0 =>
          closed = opened /\ batch = "ended" /\ appRun # "RUNNING"
    /\ batch = "ended" => Root \in closed
    /\ Root \in closed => bound.step \in {Root, NoStep}
    /\ terminated # "none" => appRun \in {"RUNNING", terminated}

-----------------------------------------------------------------------------
(* The promise of a direction: no ordinary step runs after a failed one    *)
(* and no apply_only step in a dry run, no always_run step is held back    *)
(* for a failure, nothing without a reason, and all of it in order.        *)
Ordered == INSTANCE OrderedRelease WITH
    barred <- IF request.apply THEN {} ELSE rules.applyOnly,
    eager  <- rules.always,
    result <- [i \in Steps |-> IF runs[i] \in Statuses THEN runs[i] ELSE "none"]

ImplementsOrderedRelease == Ordered!Spec
================================================================================
