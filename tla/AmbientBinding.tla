---------------------------- MODULE AmbientBinding -----------------------------
(***************************************************************************)
(* The ambient run binding of a process (rey_lib/logs/record_enrichment):  *)
(* one bound RunLog for all threads, and by thread the frames its own      *)
(* clear_run calls restore.                                                *)
(***************************************************************************)
EXTENDS Integers, Sequences

CONSTANTS NoRun,     \* nothing is bound
          NoThread   \* nobody owns the binding

(* _CURRENT_RUN of a process with these threads; a thread without frames   *)
(* is one the dictionary does not hold.                                    *)
Unbound(threads) ==
    [run |-> NoRun, owner |-> NoThread, frames |-> [t \in threads |-> <<>>]]

(* bind_run by thread t; binding nothing opens a scope all the same. *)
Bind(b, t, run) ==
    [run    |-> IF run = NoRun THEN b.run ELSE run,
     owner  |-> IF run = NoRun THEN b.owner ELSE t,
     frames |-> [b.frames EXCEPT ![t] = Append(@, b.run)]]

(* The overlap bind_run looks for and reports. *)
Overlap(b, t, run) ==
    /\ run # NoRun /\ b.run # NoRun /\ b.run # run
    /\ b.owner # NoThread /\ b.owner # t

(* clear_run by thread t: what its innermost frame holds is restored. *)
Clear(b, t) ==
    LET held == b.frames[t]
        restored == IF held = <<>> THEN NoRun ELSE held[Len(held)]
    IN [run    |-> restored,
        owner  |-> IF restored = NoRun THEN NoThread ELSE t,
        frames |-> [b.frames EXCEPT ![t] = IF held = <<>> THEN @
                                           ELSE SubSeq(@, 1, Len(@) - 1)]]

(* reset_run_binding *)
Reset(b) == Unbound(DOMAIN b.frames)
================================================================================
