---------------------------- MODULE MCBaselines -----------------------------
(* One sender and one receiver of the lock-based transport.                *)
EXTENDS Baselines

CONSTANTS s1, r1

MCSenderOf == [r \in Receivers |-> s1]
MCVm == [p \in Procs |-> 2]
=============================================================================
