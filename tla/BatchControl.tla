----------------------------- MODULE BatchControl ------------------------------
(***************************************************************************)
(* The batch of one Control (rey_lib/control/control.py): what the object  *)
(* holds bound, and what the control database holds of it.  A routine is   *)
(* required, so it takes effect or raises.                                 *)
(***************************************************************************)
EXTENDS Naturals

CONSTANTS Root,     \* the step a batch is started with
          NoStep    \* nothing bound

VARIABLES bound,    \* Control: its batch, batch_root_step_id, batch_step_id
          opened,   \* the database: the steps started
          closed,   \* the database: the steps ended
          batch     \* the database: the batch, "RUNNING" or "ended"

batchVars == <<bound, opened, closed, batch>>

Released == [batch |-> FALSE, root |-> NoStep, step |-> NoStep]

(* __init__, start_batch: a Control that exists has a batch and its root.  *)
BatchInit ==
    /\ bound = [batch |-> TRUE, root |-> Root, step |-> Root]
    /\ opened = {Root}
    /\ closed = {}
    /\ batch = "RUNNING"

(* start_step, forwarded by RunLog.open_step: the id is bound. *)
StartStep(s) ==
    /\ opened' = opened \cup {s}
    /\ bound' = [bound EXCEPT !.step = s]
    /\ UNCHANGED <<closed, batch>>

(* end_step, forwarded by RunLog.close_step, which realigns to the root. *)
CloseStep ==
    /\ closed' = closed \cup {bound.step}
    /\ bound' = [bound EXCEPT !.step = bound.root]
    /\ UNCHANGED <<opened, batch>>

(* Slip: the root is thought to be closed by the end of its batch. *)
FinishBatchWithoutRoot ==
    /\ bound.batch
    /\ \/ /\ bound.step # bound.root
          /\ closed' = closed \cup {bound.step}
          /\ bound' = [bound EXCEPT !.step = bound.root]
          /\ UNCHANGED <<opened, batch>>
       \/ /\ bound.step = bound.root
          /\ batch' = "ended"
          /\ bound' = Released
          /\ UNCHANGED <<opened, closed>>

(* finish_batch, one required call at a time: the step bound beneath the   *)
(* root, the root, the batch.                                              *)
FinishBatch ==
    /\ bound.batch
    /\ \/ /\ bound.step # bound.root
          /\ closed' = closed \cup {bound.step}
          /\ bound' = [bound EXCEPT !.step = bound.root]
          /\ UNCHANGED <<opened, batch>>
       \/ /\ bound.step = bound.root /\ bound.root \notin closed
          /\ closed' = closed \cup {bound.root}
          /\ UNCHANGED <<bound, opened, batch>>
       \/ /\ bound.step = bound.root /\ bound.root \in closed
          /\ batch' = "ended"
          /\ bound' = Released
          /\ UNCHANGED <<opened, closed>>

(* One of those calls raises: close() reports it and lets go. *)
FinishBatchFails ==
    /\ bound.batch
    /\ bound' = Released
    /\ UNCHANGED <<opened, closed, batch>>
================================================================================
