----------------------------- MODULE Baselines ------------------------------
(***************************************************************************)
(* The transports kept for comparison: the lock-based one of LockChannel   *)
(* and the test programs of Handshakes.  They are benchmarks, most of them *)
(* on the device from its first byte on, so one of them runs at a time.    *)
(***************************************************************************)
EXTENDS LockChannel, Handshakes

baseline_vars == <<lock_vars, handshake_vars>>

LockRuns == program = "lock_base"

BaselinesInit == LockInit /\ HandshakesInit

Run(A) == A /\ UNCHANGED lock_vars
RunLock(A) == LockRuns /\ A /\ UNCHANGED handshake_vars

BaselinesNext == RunLock(LockNext) \/ Run(HandshakesNext)

(* Each process of each program is in a loop of its own; one that was      *)
(* killed is started again.                                                *)
BaselinesSpec ==
  /\ BaselinesInit
  /\ [][BaselinesNext]_baseline_vars
  /\ \A s \in Senders : WF_baseline_vars(RunLock(SenderStep(s)))
  /\ \A r \in Receivers : WF_baseline_vars(RunLock(ReceiverStep(r)))
  /\ WF_baseline_vars(Run(Filling))
  /\ WF_baseline_vars(Run(Checking))

(* LockFlow, of the behaviours in which the lock-based programs run.       *)
LockProgramsFlow == LockRuns => LockFlow
=============================================================================
