-------------------------- MODULE MmapHook_proofs ---------------------------
(***************************************************************************)
(* The mmap hook for any number of threads, requests, loads and failures.  *)
(* is_locked outlives the calls that are to reset it only if one of them   *)
(* died in the hook; memory outlives its mappings; and a call that has the *)
(* hook for itself is checked and passes the hook once.                    *)
(***************************************************************************)
EXTENDS MmapHook, TLAPS

(* A thread in user mode has left every __ivshmem_origin_mmap it entered,  *)
(* and one that returns through it has entered it.                         *)
FramesInv ==
  \A t \in Threads : /\ pc[t] = "user" => frames[t] = 0
                     /\ pc[t] = "relock" => frames[t] > 0

(* What a call that has the hook for itself knows at each point: nobody    *)
(* else is past the test of is_locked, so is_locked is its own, and past   *)
(* the guards its request is one they accept.                              *)
Alone(t) ==
  /\ device = "ready" /\ module = "in" /\ attached
  /\ \A u \in Threads \ {t} : ~Inside(u) /\ ~Lost(u)
  /\ pc[t] \notin {"lost", "oops"}
  /\ pc[t] \in {"lock", "guard", "origin", "dummy"} => frames[t] = 0
  /\ pc[t] \in {"guard", "origin"} => is_locked
  /\ pc[t] = "entry" /\ frames[t] > 0 => is_locked
  /\ pc[t] = "device" => frames[t] > 0
  /\ pc[t] \in {"origin", "relock"} \/ frames[t] > 0 => ~Refused(req[t])

Lone(t) ==
  ~shared[t] => /\ pc[t] # "user" => Alone(t)
                /\ mapped[t] \notin {"wild", "gone"}
                /\ mapped[t] # "no" => ~Refused(req[t])

LoneInv == \A t \in Threads : Lone(t)

HookInv ==
  /\ HookTypeOK
  /\ FramesInv
  /\ LockedByACall
  /\ MemoryOutlivesMappings
  /\ LoneInv

-----------------------------------------------------------------------------
(* A cleared request is a request.                                         *)
LEMMA NoRequestType == NoRequest \in Request
BY DEF NoRequest, Request

(* Both modules out and all threads in user mode: the invariant holds.     *)
LEMMA HookInvInit == HookInit => HookInv
<1> SUFFICES ASSUME HookInit PROVE HookInv
  OBVIOUS
<1>1. HookTypeOK
  BY NoRequestType DEF HookInit, HookTypeOK
<1>2. FramesInv /\ LockedByACall /\ MemoryOutlivesMappings /\ LoneInv
  BY DEF HookInit, FramesInv, LockedByACall, MemoryOutlivesMappings, LoneInv,
         Lone
<1> QED BY <1>1, <1>2 DEF HookInv

(* Every step of the kernel and of a thread keeps the types and the frames *)
(* in order.                                                               *)
LEMMA HookTypeStep ==
  ASSUME HookTypeOK, FramesInv, [HookNext]_hook_vars
  PROVE  HookTypeOK' /\ FramesInv'
<1> USE HookAssumption DEF HookTypeOK, FramesInv
<1>1. CASE UNCHANGED hook_vars
  BY <1>1 DEF hook_vars, lock, kernel, caller
<1>2. CASE CreateNode
  BY <1>2 DEF CreateNode, lock, kernel, caller
<1>3. CASE AllocateBuffer
  BY <1>3 DEF AllocateBuffer, lock, kernel, caller
<1>4. CASE NoBuffer
  <2>1. pc' \in [Threads -> {"user", "entry", "lock", "guard", "origin",
                             "device", "relock", "dummy", "lost", "oops"}]
    BY <1>4 DEF NoBuffer
  <2>2. \A t \in Threads : pc'[t] \in {pc[t], "lost", "oops"}
    BY <1>4 DEF NoBuffer
  <2>3. fails' \in Nat /\ mapped' \in [Threads -> {"no", "yes", "wild", "gone"}]
    BY <1>4 DEF NoBuffer
  <2> QED BY <1>4, <2>1, <2>2, <2>3 DEF NoBuffer, lock, caller
<1>5. CASE myshm_exit
  BY <1>5 DEF myshm_exit, lock, kernel, caller
<1>6. CASE LoadHook
  <2>1. shared' \in [Threads -> BOOLEAN] /\ loads' \in Nat
    BY <1>6 DEF LoadHook
  <2> QED BY <1>6, <2>1 DEF LoadHook
<1>7. CASE LoadFails
  BY <1>7 DEF LoadFails, lock, kernel, caller
<1>8. CASE SetContext
  BY <1>8 DEF SetContext, lock, kernel, caller
<1>9. CASE Unhook
  BY <1>9 DEF Unhook, lock, kernel, caller
<1>10. CASE FreeContext
  <2>1. pc' \in [Threads -> {"user", "entry", "lock", "guard", "origin",
                             "device", "relock", "dummy", "lost", "oops"}]
    BY <1>10 DEF FreeContext
  <2>2. \A t \in Threads : pc'[t] # "relock"
    BY <1>10 DEF FreeContext, Inside
  <2>3. \A t \in Threads : pc'[t] \in {pc[t], "oops"} /\ frames'[t] = 0
    BY <1>10 DEF FreeContext
  <2>4. frames' \in [Threads -> Nat]
    BY <1>10 DEF FreeContext
  <2> QED BY <1>10, <2>1, <2>2, <2>3, <2>4 DEF FreeContext
<1>11. ASSUME NEW t \in Threads, Call(t) PROVE HookTypeOK' /\ FramesInv'
  BY <1>11 DEF Call, Goto, lock, kernel, caller
<1>12. ASSUME NEW t \in Threads, Unmap(t) PROVE HookTypeOK' /\ FramesInv'
  BY <1>12 DEF Unmap, Goto, lock, kernel, caller
<1>13. ASSUME NEW t \in Threads, EnterDevice(t) PROVE HookTypeOK' /\ FramesInv'
  BY <1>13 DEF EnterDevice, Goto, lock, kernel, caller
<1>14. ASSUME NEW t \in Threads, EnterHook(t) PROVE HookTypeOK' /\ FramesInv'
  BY <1>14 DEF EnterHook, Goto, lock, kernel, caller
<1>15. ASSUME NEW t \in Threads, Refuse(t) PROVE HookTypeOK' /\ FramesInv'
  BY <1>15 DEF Refuse, Goto, lock, kernel, caller
<1>16. ASSUME NEW t \in Threads, Accept(t) PROVE HookTypeOK' /\ FramesInv'
  BY <1>16 DEF Accept, Goto, lock, kernel, caller
<1>17. ASSUME NEW t \in Threads, CallOrigin(t) PROVE HookTypeOK' /\ FramesInv'
  BY <1>17 DEF CallOrigin, Goto, lock, kernel, caller
<1>18. ASSUME NEW t \in Threads, NoContext(t) PROVE HookTypeOK' /\ FramesInv'
  BY <1>18 DEF NoContext, Goto, lock, kernel, caller
<1>19. ASSUME NEW t \in Threads, DeviceMaps(t) PROVE HookTypeOK' /\ FramesInv'
  BY <1>19 DEF DeviceMaps, Goto, Back, lock, kernel, caller
<1>20. ASSUME NEW t \in Threads, DeviceFails(t) PROVE HookTypeOK' /\ FramesInv'
  BY <1>20 DEF DeviceFails, Goto, Back, lock, kernel, caller
<1>21. ASSUME NEW t \in Threads, TakeSpin(t) PROVE HookTypeOK' /\ FramesInv'
  BY <1>21 DEF TakeSpin, Goto, lock, kernel, caller
<1>22. ASSUME NEW t \in Threads, OriginReturns(t) PROVE HookTypeOK' /\ FramesInv'
  <2>1. frames[t] \in Nat /\ frames[t] > 0
    BY <1>22 DEF OriginReturns
  <2>2. frames' \in [Threads -> Nat]
    BY <1>22, <2>1 DEF OriginReturns
  <2>3. FramesInv'
    BY <1>22, <2>1 DEF OriginReturns, Goto
  <2> QED BY <1>22, <2>2, <2>3 DEF OriginReturns, Goto, kernel
<1>23. ASSUME NEW t \in Threads, DummyReturns(t) PROVE HookTypeOK' /\ FramesInv'
  <2>1. pc' = [pc EXCEPT ![t] = IF frames[t] > 0 THEN "relock" ELSE "user"]
    BY <1>23 DEF DummyReturns, Goto, Back
  <2>2. frames[t] \in Nat
    OBVIOUS
  <2>3. FramesInv'
    BY <1>23, <2>1, <2>2 DEF DummyReturns
  <2> QED BY <1>23, <2>1, <2>3 DEF DummyReturns, kernel
<1> QED BY <1>1, <1>2, <1>3, <1>4, <1>5, <1>6, <1>7, <1>8, <1>9, <1>10,
           <1>11, <1>12, <1>13, <1>14, <1>15, <1>16, <1>17, <1>18, <1>19,
           <1>20, <1>21, <1>22, <1>23
        DEF HookNext, Run, Spin

(* is_locked is down again before the last thread past its test is out.    *)
LEMMA LockedStep ==
  ASSUME HookTypeOK, LockedByACall, [HookNext]_hook_vars
  PROVE  LockedByACall'
<1> USE DEF HookTypeOK, LockedByACall, Inside, Lost
<1>1. CASE UNCHANGED hook_vars
  BY <1>1 DEF hook_vars, lock, kernel, caller
<1>2. CASE CreateNode
  BY <1>2 DEF CreateNode, lock, kernel, caller
<1>3. CASE AllocateBuffer
  BY <1>3 DEF AllocateBuffer, lock, kernel, caller
<1>4. CASE NoBuffer
  BY <1>4 DEF NoBuffer, lock, kernel, caller
<1>5. CASE myshm_exit
  BY <1>5 DEF myshm_exit, lock, kernel, caller
<1>6. CASE LoadHook
  BY <1>6 DEF LoadHook, lock, kernel, caller
<1>7. CASE LoadFails
  BY <1>7 DEF LoadFails, lock, kernel, caller
<1>8. CASE SetContext
  BY <1>8 DEF SetContext, lock, kernel, caller
<1>9. CASE Unhook
  BY <1>9 DEF Unhook, lock, kernel, caller
<1>10. CASE FreeContext
  BY <1>10 DEF FreeContext, lock, kernel, caller
<1>11. ASSUME NEW t \in Threads, Call(t) PROVE LockedByACall'
  BY <1>11 DEF Call, Goto, lock, kernel, caller
<1>12. ASSUME NEW t \in Threads, Unmap(t) PROVE LockedByACall'
  BY <1>12 DEF Unmap, Goto, lock, kernel, caller
<1>13. ASSUME NEW t \in Threads, EnterDevice(t) PROVE LockedByACall'
  BY <1>13 DEF EnterDevice, Goto, lock, kernel, caller
<1>14. ASSUME NEW t \in Threads, EnterHook(t) PROVE LockedByACall'
  BY <1>14 DEF EnterHook, Goto, lock, kernel, caller
<1>15. ASSUME NEW t \in Threads, Refuse(t) PROVE LockedByACall'
  BY <1>15 DEF Refuse, Goto, lock, kernel, caller
<1>16. ASSUME NEW t \in Threads, Accept(t) PROVE LockedByACall'
  BY <1>16 DEF Accept, Goto, lock, kernel, caller
<1>17. ASSUME NEW t \in Threads, CallOrigin(t) PROVE LockedByACall'
  BY <1>17 DEF CallOrigin, Goto, lock, kernel, caller
<1>18. ASSUME NEW t \in Threads, NoContext(t) PROVE LockedByACall'
  BY <1>18 DEF NoContext, Goto, lock, kernel, caller
<1>19. ASSUME NEW t \in Threads, DeviceMaps(t) PROVE LockedByACall'
  BY <1>19 DEF DeviceMaps, Goto, Back, lock, kernel, caller
<1>20. ASSUME NEW t \in Threads, DeviceFails(t) PROVE LockedByACall'
  BY <1>20 DEF DeviceFails, Goto, Back, lock, kernel, caller
<1>21. ASSUME NEW t \in Threads, TakeSpin(t) PROVE LockedByACall'
  BY <1>21 DEF TakeSpin, Goto, lock, kernel, caller
<1>22. ASSUME NEW t \in Threads, OriginReturns(t) PROVE LockedByACall'
  BY <1>22 DEF OriginReturns, Goto, lock, kernel, caller
<1>23. ASSUME NEW t \in Threads, DummyReturns(t) PROVE LockedByACall'
  BY <1>23 DEF DummyReturns, Goto, Back, lock, kernel, caller
<1> QED BY <1>1, <1>2, <1>3, <1>4, <1>5, <1>6, <1>7, <1>8, <1>9, <1>10,
           <1>11, <1>12, <1>13, <1>14, <1>15, <1>16, <1>17, <1>18, <1>19,
           <1>20, <1>21, <1>22, <1>23
        DEF HookNext, Run, Spin

(* The device's memory is there as long as it is mapped.                   *)
LEMMA MemoryStep ==
  ASSUME HookTypeOK, MemoryOutlivesMappings, [HookNext]_hook_vars
  PROVE  MemoryOutlivesMappings'
<1> USE DEF HookTypeOK, MemoryOutlivesMappings
<1>1. CASE UNCHANGED hook_vars
  BY <1>1 DEF hook_vars, lock, kernel, caller
<1>2. CASE CreateNode
  BY <1>2 DEF CreateNode, lock, kernel, caller
<1>3. CASE AllocateBuffer
  BY <1>3 DEF AllocateBuffer, lock, kernel, caller
<1>4. CASE NoBuffer
  BY <1>4 DEF NoBuffer, lock, kernel, caller
<1>5. CASE myshm_exit
  BY <1>5 DEF myshm_exit, lock, kernel, caller
<1>6. CASE LoadHook
  BY <1>6 DEF LoadHook, lock, kernel, caller
<1>7. CASE LoadFails
  BY <1>7 DEF LoadFails, lock, kernel, caller
<1>8. CASE SetContext
  BY <1>8 DEF SetContext, lock, kernel, caller
<1>9. CASE Unhook
  BY <1>9 DEF Unhook, lock, kernel, caller
<1>10. CASE FreeContext
  BY <1>10 DEF FreeContext, lock, kernel, caller
<1>11. ASSUME NEW t \in Threads, Call(t) PROVE MemoryOutlivesMappings'
  BY <1>11 DEF Call, Goto, lock, kernel, caller
<1>12. ASSUME NEW t \in Threads, Unmap(t) PROVE MemoryOutlivesMappings'
  BY <1>12 DEF Unmap, Goto, lock, kernel, caller
<1>13. ASSUME NEW t \in Threads, EnterDevice(t) PROVE MemoryOutlivesMappings'
  BY <1>13 DEF EnterDevice, Goto, lock, kernel, caller
<1>14. ASSUME NEW t \in Threads, EnterHook(t) PROVE MemoryOutlivesMappings'
  BY <1>14 DEF EnterHook, Goto, lock, kernel, caller
<1>15. ASSUME NEW t \in Threads, Refuse(t) PROVE MemoryOutlivesMappings'
  BY <1>15 DEF Refuse, Goto, lock, kernel, caller
<1>16. ASSUME NEW t \in Threads, Accept(t) PROVE MemoryOutlivesMappings'
  BY <1>16 DEF Accept, Goto, lock, kernel, caller
<1>17. ASSUME NEW t \in Threads, CallOrigin(t) PROVE MemoryOutlivesMappings'
  BY <1>17 DEF CallOrigin, Goto, lock, kernel, caller
<1>18. ASSUME NEW t \in Threads, NoContext(t) PROVE MemoryOutlivesMappings'
  BY <1>18 DEF NoContext, Goto, lock, kernel, caller
<1>19. ASSUME NEW t \in Threads, DeviceMaps(t) PROVE MemoryOutlivesMappings'
  BY <1>19 DEF DeviceMaps, Goto, Back, lock, kernel, caller
<1>20. ASSUME NEW t \in Threads, DeviceFails(t) PROVE MemoryOutlivesMappings'
  BY <1>20 DEF DeviceFails, Goto, Back, lock, kernel, caller
<1>21. ASSUME NEW t \in Threads, TakeSpin(t) PROVE MemoryOutlivesMappings'
  BY <1>21 DEF TakeSpin, Goto, lock, kernel, caller
<1>22. ASSUME NEW t \in Threads, OriginReturns(t) PROVE MemoryOutlivesMappings'
  BY <1>22 DEF OriginReturns, Goto, lock, kernel, caller
<1>23. ASSUME NEW t \in Threads, DummyReturns(t) PROVE MemoryOutlivesMappings'
  BY <1>23 DEF DummyReturns, Goto, Back, lock, kernel, caller
<1> QED BY <1>1, <1>2, <1>3, <1>4, <1>5, <1>6, <1>7, <1>8, <1>9, <1>10,
           <1>11, <1>12, <1>13, <1>14, <1>15, <1>16, <1>17, <1>18, <1>19,
           <1>20, <1>21, <1>22, <1>23
        DEF HookNext, Run, Spin

(* A step of another thread leaves a lone call alone or ends its being so. *)
LEMMA LoneStep ==
  ASSUME HookInv, HookTypeOK', [HookNext]_hook_vars, NEW v \in Threads
  PROVE  Lone(v)'
<1> USE DEF HookInv, HookTypeOK, FramesInv, LockedByACall,
            MemoryOutlivesMappings, LoneInv, Lone, Alone,
            Inside, Lost
<1>1. CASE UNCHANGED hook_vars
  BY <1>1 DEF hook_vars, lock, kernel, caller
<1>2. CASE CreateNode
  BY <1>2 DEF CreateNode, lock, kernel, caller
<1>3. CASE AllocateBuffer
  BY <1>3 DEF AllocateBuffer, lock, kernel, caller
<1>4. CASE NoBuffer
  BY <1>4 DEF NoBuffer, lock, kernel, caller
<1>5. CASE myshm_exit
  BY <1>5 DEF myshm_exit, lock, kernel, caller
<1>6. CASE LoadHook
  BY <1>6 DEF LoadHook, lock, kernel, caller
<1>7. CASE LoadFails
  BY <1>7 DEF LoadFails, lock, kernel, caller
<1>8. CASE SetContext
  BY <1>8 DEF SetContext, lock, kernel, caller
<1>9. CASE Unhook
  BY <1>9 DEF Unhook, lock, kernel, caller
<1>10. CASE FreeContext
  BY <1>10 DEF FreeContext, lock, kernel, caller
<1>11. ASSUME NEW t \in Threads, Call(t) PROVE Lone(v)'
  BY <1>11 DEF Call, Goto, lock, kernel, caller
<1>12. ASSUME NEW t \in Threads, Unmap(t) PROVE Lone(v)'
  BY <1>12 DEF Unmap, Goto, lock, kernel, caller
<1>13. ASSUME NEW t \in Threads, EnterDevice(t) PROVE Lone(v)'
  BY <1>13 DEF EnterDevice, Passes, Hooked, Goto, lock, kernel, caller
<1>14. ASSUME NEW t \in Threads, EnterHook(t) PROVE Lone(v)'
  BY <1>14 DEF EnterHook, Passes, Goto, lock, kernel
<1>15. ASSUME NEW t \in Threads, Refuse(t) PROVE Lone(v)'
  BY <1>15 DEF Refuse, Goto, lock, kernel, caller
<1>16. ASSUME NEW t \in Threads, Accept(t) PROVE Lone(v)'
  BY <1>16 DEF Accept, Goto, lock, kernel, caller
<1>17. ASSUME NEW t \in Threads, CallOrigin(t) PROVE Lone(v)'
  BY <1>17 DEF CallOrigin, Goto, lock, kernel, caller
<1>18. ASSUME NEW t \in Threads, NoContext(t) PROVE Lone(v)'
  BY <1>18 DEF NoContext, HasContext, Goto, lock, kernel, caller
<1>19. ASSUME NEW t \in Threads, DeviceMaps(t) PROVE Lone(v)'
  BY <1>19 DEF DeviceMaps, Goto, Back, lock, kernel, caller
<1>20. ASSUME NEW t \in Threads, DeviceFails(t) PROVE Lone(v)'
  BY <1>20 DEF DeviceFails, Goto, Back, lock, kernel, caller
<1>21. ASSUME NEW t \in Threads, TakeSpin(t) PROVE Lone(v)'
  BY <1>21 DEF TakeSpin, Goto, lock, kernel, caller
<1>22. ASSUME NEW t \in Threads, OriginReturns(t) PROVE Lone(v)'
  BY <1>22 DEF OriginReturns, Goto, lock, kernel, caller
<1>23. ASSUME NEW t \in Threads, DummyReturns(t) PROVE Lone(v)'
  BY <1>23 DEF DummyReturns, Goto, Back, lock, kernel, caller
<1> QED BY <1>1, <1>2, <1>3, <1>4, <1>5, <1>6, <1>7, <1>8, <1>9, <1>10,
           <1>11, <1>12, <1>13, <1>14, <1>15, <1>16, <1>17, <1>18, <1>19,
           <1>20, <1>21, <1>22, <1>23
        DEF HookNext, Run, Spin

(* Loads, failures, unloads and calls in any order keep the invariant.     *)
THEOREM HookInvariant == HookSpec => []HookInv
<1>1. HookInv /\ [HookNext]_hook_vars => HookInv'
  <2> SUFFICES ASSUME HookInv, [HookNext]_hook_vars PROVE HookInv'
    OBVIOUS
  <2>1. HookTypeOK' /\ FramesInv'
    BY HookTypeStep DEF HookInv
  <2>2. LockedByACall' /\ MemoryOutlivesMappings'
    BY LockedStep, MemoryStep DEF HookInv
  <2>3. LoneInv'
    BY <2>1, LoneStep DEF LoneInv
  <2> QED BY <2>1, <2>2, <2>3 DEF HookInv
<1> QED BY <1>1, HookInvInit, PTL DEF HookSpec

(* is_locked stays up only while a live call is still to take it down, or  *)
(* when a call died in the hook: it is never forgotten by a call that      *)
(* returns, is refused or fails.                                           *)
THEOREM HookLockedByACall == HookSpec => []LockedByACall
<1>1. HookInv => LockedByACall
  BY DEF HookInv
<1> QED BY <1>1, HookInvariant, PTL

(* A request the guards refuse is mapped only by a call that met another   *)
(* one in the hook, or a module being loaded or unloaded.                  *)
THEOREM HookGuardsLoneCalls == HookSpec => []GuardsLoneCalls
<1>1. HookInv => GuardsLoneCalls
  BY DEF HookInv, HookTypeOK, LoneInv, Lone, GuardsLoneCalls
<1> QED BY <1>1, HookInvariant, PTL

(* The second entry into the device's mmap passes the hook: a call that    *)
(* has the hook for itself does not enter it twice.                        *)
THEOREM HookNoRehook == HookSpec => []NoRehook
<1>1. HookInv => NoRehook
  BY DEF HookInv, HookTypeOK, LoneInv, Lone, Alone, NoRehook
<1> QED BY <1>1, HookInvariant, PTL

(* device_buffer is not freed under a mapping of it.                       *)
THEOREM HookMemoryOutlivesMappings == HookSpec => []MemoryOutlivesMappings
<1>1. HookInv => MemoryOutlivesMappings
  BY DEF HookInv
<1> QED BY <1>1, HookInvariant, PTL
=============================================================================
