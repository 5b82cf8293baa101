------------------------------ MODULE MmapHook ------------------------------
(***************************************************************************)
(* The two kernel modules behind mmap: the myshm device and the module     *)
(* that guards its mmap (ivshmem_uio_hook).  ftrace calls                  *)
(* __ivshmem_ftrace_hook_func at the first instruction of the device's     *)
(* mmap; the hook checks the request and sends the caller to               *)
(* __ivshmem_origin_mmap or __ivshmem_dummy_mmap.  __ivshmem_origin_mmap   *)
(* calls the hooked function again: is_locked is what lets that second     *)
(* call through.  Threads call mmap at the same time and both modules may  *)
(* be loaded and unloaded under them.                                      *)
(***************************************************************************)
EXTENDS Integers, FiniteSetsExt

CONSTANTS
  Threads,                \* callers of mmap
  Requests,               \* the mappings they ask for
  MIN_VALID_OFFSET,       \* end of the control section
  MAX_ALLOWED_MMAP_SIZE,  \* end of what may be mapped
  LimitMapSize,           \* limit_map_size of the context
  MEM_SIZE,               \* size of the device
  Nobody,                 \* no thread
  MaxCalls,               \* bound: mmap calls of each thread
  MaxLoads,               \* bound: times a module is loaded, both counted
  MaxFails                \* bound: failing loads and remap_pfn_range calls

Request == [offset : Nat, length : Nat, named : BOOLEAN]

ASSUME HookAssumption ==
  /\ Requests \subseteq Request
  /\ Nobody \notin Threads
  /\ {MIN_VALID_OFFSET, MAX_ALLOWED_MMAP_SIZE, LimitMapSize, MEM_SIZE,
      MaxCalls, MaxLoads, MaxFails} \subseteq Nat

VARIABLES
  device,      \* how far loading the device has come
  module,      \* how far loading or unloading the hook has come
  attached,    \* whether target_addr is the mmap of the loaded device
  is_locked,   \* ivshmem_lock.is_locked
  spin,        \* who holds ivshmem_lock.spin
  pc,          \* where each thread is
  req,         \* what it asks for
  frames,      \* calls of __ivshmem_origin_mmap it has not returned from
  mapped,      \* what it has mapped: nothing, the device, a wild address, or
               \* a device that is gone
  \* history: whether, in its present call, a thread shared the hook with
  \* another one or with a load or unload; calls, loads and failures so far
  shared, calls, loads, fails

lock == <<is_locked, spin>>
kernel == <<device, module, attached, loads>>
caller == <<req, frames, mapped, shared, calls>>
hook_vars == <<kernel, lock, pc, caller, fails>>

\* While the ftrace callback is registered, and while g_ctx is usable.
Hooked == module \in {"loading", "in"} /\ attached
HasContext == module \in {"in", "leaving"}

\* Alive, past the test of is_locked, with is_locked still to be reset.
Inside(t) ==
  \/ pc[t] \in {"lock", "guard", "origin", "relock", "dummy"}
  \/ pc[t] \in {"entry", "device"} /\ frames[t] > 0

\* Killed there: the reset never happens, as long as this context lives.
Lost(t) == pc[t] = "lost"

NoRequest == [offset |-> 0, length |-> 0, named |-> FALSE]

HookInit ==
  /\ device = "absent"
  /\ module = "out"
  /\ attached = FALSE
  /\ is_locked = FALSE
  /\ spin = Nobody
  /\ pc = [t \in Threads |-> "user"]
  /\ req = [t \in Threads |-> NoRequest]
  /\ frames = [t \in Threads |-> 0]
  /\ mapped = [t \in Threads |-> "no"]
  /\ shared = [t \in Threads |-> FALSE]
  /\ calls = [t \in Threads |-> 0]
  /\ loads = 0
  /\ fails = 0

Goto(t, l) == pc' = [pc EXCEPT ![t] = l]

-----------------------------------------------------------------------------
(* The device module.                                                      *)

(* myshm_init up to device_create: from here on the device can be opened.  *)
(* A failure before that takes back what was set up and changes nothing.   *)
CreateNode ==
  /\ device = "absent"
  /\ loads < MaxLoads
  /\ loads' = loads + 1
  /\ device' = "node"
  /\ UNCHANGED <<module, attached, lock, pc, caller, fails>>

AllocateBuffer ==
  /\ device = "node"
  /\ device' = "ready"
  /\ UNCHANGED <<module, attached, lock, pc, caller, loads, fails>>

(* vmalloc fails and myshm_init takes everything back; the kernel unloads  *)
(* the module under whoever is inside its mmap, and whoever has it mapped  *)
(* will close a file whose operations are gone.                            *)
NoBuffer ==
  /\ device = "node"
  /\ fails < MaxFails
  /\ fails' = fails + 1
  /\ device' = "absent"
  /\ attached' = FALSE
  /\ pc' = [t \in Threads |->
              CASE pc[t] \notin {"entry", "device"} -> pc[t]
                [] Inside(t) -> "lost"
                [] OTHER -> "oops"]
  /\ mapped' = [t \in Threads |-> IF mapped[t] = "no" THEN "no" ELSE "gone"]
  /\ UNCHANGED <<module, lock, req, frames, shared, calls, loads>>

\* mutant: fops has no owner, so that open files do not hold the module
UnheldExit ==
  /\ device = "ready"
  /\ device' = "absent"
  /\ attached' = FALSE
  /\ UNCHANGED <<module, lock, pc, caller, loads, fails>>

(* myshm_exit.  fops.owner makes every open file and every mapping hold    *)
(* the module.  The hook stays loaded, on an address that is gone.         *)
myshm_exit ==
  /\ device = "ready"
  /\ \A t \in Threads : pc[t] \in {"user", "lost", "oops"} /\ mapped[t] = "no"
  /\ device' = "absent"
  /\ attached' = FALSE
  /\ UNCHANGED <<module, lock, pc, caller, loads, fails>>

-----------------------------------------------------------------------------
(* Loading and unloading the hook.                                         *)

(* ivshmem_uio_hook_init up to register_ftrace_function, when nothing      *)
(* fails.  The context is new, so is_locked is false; g_ctx is still NULL. *)
LoadHook ==
  /\ module = "out"
  /\ device # "absent"
  /\ loads < MaxLoads
  /\ loads' = loads + 1
  /\ module' = "loading"
  /\ attached' = TRUE
  /\ is_locked' = FALSE
  /\ spin' = Nobody
  /\ shared' = [t \in Threads |-> TRUE]
  /\ UNCHANGED <<device, pc, req, frames, mapped, calls, fails>>

(* One of its allocations or registrations fails.  Without ops or lock the *)
(* exit function works on fields of ctx that were never set: the loading   *)
(* process dies in it, or gets through by luck.  The other failures are    *)
(* taken back.                                                             *)
LoadFails ==
  /\ module = "out"
  /\ fails < MaxFails
  /\ fails' = fails + 1
  /\ module' \in IF device = "absent" THEN {"out"} ELSE {"out", "broken"}
  /\ UNCHANGED <<device, attached, lock, pc, caller, loads>>

SetContext ==
  /\ module = "loading"
  /\ module' = "in"
  /\ shared' = [t \in Threads |-> TRUE]
  /\ UNCHANGED <<device, attached, lock, pc, req, frames, mapped, calls,
                 loads, fails>>

(* __ivshmem_uio_hook_exit.  unregister_ftrace_function returns when no    *)
(* thread is inside the callback any more.                                 *)
Unhook ==
  /\ module = "in"
  /\ \A t \in Threads : pc[t] \notin {"lock", "guard"}
  /\ module' = "leaving"
  /\ shared' = [t \in Threads |-> TRUE]
  /\ UNCHANGED <<device, attached, lock, pc, req, frames, mapped, calls,
                 loads, fails>>

(* The lock and the context are freed and the module's code goes: whoever  *)
(* still has to return through it is killed; is_locked goes with the lock, *)
(* whoever left it set.                                                    *)
FreeContext ==
  /\ module = "leaving"
  /\ module' = "out"
  /\ attached' = FALSE
  /\ pc' = [t \in Threads |->
              IF Inside(t) \/ Lost(t) THEN "oops" ELSE pc[t]]
  /\ frames' = [t \in Threads |-> 0]
  /\ is_locked' = FALSE
  /\ UNCHANGED <<device, spin, req, mapped, shared, calls, loads, fails>>

-----------------------------------------------------------------------------
(* One call of mmap.                                                       *)

Call(t) ==
  /\ pc[t] = "user"
  /\ device # "absent"
  /\ calls[t] < MaxCalls
  /\ calls' = [calls EXCEPT ![t] = @ + 1]
  /\ \E q \in Requests : req' = [req EXCEPT ![t] = q]
  /\ mapped[t] = "no"
  /\ shared' = [shared EXCEPT ![t] =
                  \/ device # "ready" \/ module # "in" \/ ~attached
                  \/ \E u \in Threads \ {t} : Inside(u) \/ Lost(u)]
  /\ Goto(t, "entry")
  /\ UNCHANGED <<kernel, lock, frames, mapped, fails>>

\* The caller unmaps and closes the file, or dies of it.
Unmap(t) ==
  /\ pc[t] = "user"
  /\ mapped[t] # "no"
  /\ mapped' = [mapped EXCEPT ![t] = "no"]
  /\ Goto(t, IF mapped[t] = "gone" THEN "oops" ELSE "user")
  /\ UNCHANGED <<kernel, lock, req, frames, shared, calls, fails>>

\* No hook, or the hook finds is_locked set: the device's mmap runs.
Passes == ~Hooked \/ is_locked

EnterDevice(t) ==
  /\ pc[t] = "entry"
  /\ Passes
  /\ Goto(t, "device")
  /\ UNCHANGED <<kernel, lock, caller, fails>>

EnterHook(t) ==
  /\ pc[t] = "entry"
  /\ ~Passes
  /\ Goto(t, "lock")
  /\ shared' = [u \in Threads |-> shared[u] \/ u # t]
  /\ UNCHANGED <<kernel, lock, req, frames, mapped, calls, fails>>

\* mutant: is_locked is not set
TakeSpinUnlocked(t) ==
  /\ pc[t] = "lock"
  /\ spin = Nobody
  /\ spin' = t
  /\ Goto(t, "guard")
  /\ UNCHANGED <<kernel, is_locked, caller, fails>>

TakeSpin(t) ==
  /\ pc[t] = "lock"
  /\ spin = Nobody
  /\ spin' = t
  /\ is_locked' = TRUE
  /\ Goto(t, "guard")
  /\ UNCHANGED <<kernel, caller, fails>>

(* The three guards: a mapping that starts in the control section stays in *)
(* it, one of the data section ends where it may, and none is longer than  *)
(* the limit.  Only files with the device's name are checked.              *)
Refused(q) ==
  /\ q.named
  /\ \/ q.offset < MIN_VALID_OFFSET /\ q.offset + q.length > MIN_VALID_OFFSET
     \/ /\ q.offset >= MIN_VALID_OFFSET
        /\ q.offset + q.length > MAX_ALLOWED_MMAP_SIZE
     \/ q.length > LimitMapSize

\* mutant: a refusal does not give the spin lock back
RefuseHolding(t) ==
  /\ pc[t] = "guard"
  /\ Refused(req[t])
  /\ Goto(t, "dummy")
  /\ UNCHANGED <<kernel, lock, caller, fails>>

Refuse(t) ==
  /\ pc[t] = "guard"
  /\ Refused(req[t])
  /\ spin' = Nobody
  /\ Goto(t, "dummy")
  /\ UNCHANGED <<kernel, is_locked, caller, fails>>

\* mutant: a refused request is sent on all the same
AcceptAlways(t) ==
  /\ pc[t] = "guard"
  /\ spin' = Nobody
  /\ Goto(t, "origin")
  /\ UNCHANGED <<kernel, is_locked, caller, fails>>

\* mutant: is_locked is reset before the device's mmap is called
AcceptUnlocked(t) ==
  /\ pc[t] = "guard"
  /\ ~Refused(req[t])
  /\ spin' = Nobody
  /\ is_locked' = FALSE
  /\ Goto(t, "origin")
  /\ UNCHANGED <<kernel, caller, fails>>

Accept(t) ==
  /\ pc[t] = "guard"
  /\ ~Refused(req[t])
  /\ spin' = Nobody
  /\ Goto(t, "origin")
  /\ UNCHANGED <<kernel, is_locked, caller, fails>>

\* __ivshmem_origin_mmap reads g_ctx and calls the device's mmap again.
CallOrigin(t) ==
  /\ pc[t] = "origin"
  /\ HasContext /\ attached
  /\ frames' = [frames EXCEPT ![t] = @ + 1]
  /\ Goto(t, "entry")
  /\ UNCHANGED <<kernel, lock, req, mapped, shared, calls, fails>>

\* g_ctx is NULL, or target_addr is gone: the thread dies where it stands and
\* leaves is_locked set.
NoContext(t) ==
  /\ \/ pc[t] \in {"origin", "dummy"} /\ ~HasContext
     \/ pc[t] = "origin" /\ ~attached
  /\ Goto(t, "lost")
  /\ UNCHANGED <<kernel, lock, caller, fails>>

\* Where a call returns to: its __ivshmem_origin_mmap, or the caller.
Back(t) == IF frames[t] > 0 THEN "relock" ELSE "user"

(* The device's own mmap: myshm_mmap.  Before device_buffer is allocated it *)
(* computes the page from NULL.                                            *)
DeviceMaps(t) ==
  /\ pc[t] = "device"
  /\ req[t].offset + req[t].length <= MEM_SIZE
  /\ mapped' = [mapped EXCEPT ![t] = IF device = "ready" THEN "yes" ELSE "wild"]
  /\ Goto(t, Back(t))
  /\ UNCHANGED <<kernel, lock, req, frames, shared, calls, fails>>

DeviceFails(t) ==
  /\ pc[t] = "device"
  /\ \/ /\ req[t].offset + req[t].length > MEM_SIZE
        /\ UNCHANGED fails
     \/ /\ req[t].offset + req[t].length <= MEM_SIZE
        /\ fails < MaxFails
        /\ fails' = fails + 1
  /\ Goto(t, Back(t))
  /\ UNCHANGED <<kernel, lock, req, frames, mapped, shared, calls>>

\* mutant: is_locked stays set
OriginReturnsLocked(t) ==
  /\ pc[t] = "relock"
  /\ spin = Nobody
  /\ frames' = [frames EXCEPT ![t] = @ - 1]
  /\ Goto(t, IF frames[t] > 1 THEN "relock" ELSE "user")
  /\ UNCHANGED <<kernel, lock, req, mapped, shared, calls, fails>>

(* The rest of __ivshmem_origin_mmap: is_locked is reset under the spin    *)
(* lock, and 0 is returned whatever the device's mmap returned.            *)
OriginReturns(t) ==
  /\ pc[t] = "relock"
  /\ spin = Nobody
  /\ is_locked' = FALSE
  /\ frames' = [frames EXCEPT ![t] = @ - 1]
  /\ Goto(t, IF frames[t] > 1 THEN "relock" ELSE "user")
  /\ UNCHANGED <<kernel, spin, req, mapped, shared, calls, fails>>

\* __ivshmem_dummy_mmap
DummyReturns(t) ==
  /\ pc[t] = "dummy"
  /\ HasContext
  /\ spin = Nobody
  /\ is_locked' = FALSE
  /\ Goto(t, Back(t))
  /\ UNCHANGED <<kernel, spin, req, frames, mapped, shared, calls, fails>>

Spin(t) == TakeSpin(t) \/ OriginReturns(t) \/ DummyReturns(t)

Run(t) ==
  \/ EnterDevice(t) \/ EnterHook(t) \/ Refuse(t) \/ Accept(t)
  \/ CallOrigin(t) \/ NoContext(t) \/ DeviceMaps(t) \/ DeviceFails(t)

HookNext ==
  \/ CreateNode \/ AllocateBuffer \/ NoBuffer \/ myshm_exit
  \/ LoadHook \/ LoadFails \/ SetContext \/ Unhook \/ FreeContext
  \/ \E t \in Threads : Call(t) \/ Unmap(t) \/ Run(t) \/ Spin(t)

HookSpec == HookInit /\ [][HookNext]_hook_vars

(* A thread inside a call goes on, and a kernel spin lock is handed to its *)
(* waiters in turn.                                                        *)
HookFairSpec ==
  /\ HookSpec
  /\ \A t \in Threads : /\ WF_hook_vars(Run(t))
                        /\ SF_hook_vars(Spin(t))

-----------------------------------------------------------------------------
(* Types; a thread never leaves the hook more often than it entered.       *)
HookTypeOK ==
  /\ device \in {"absent", "node", "ready"}
  /\ module \in {"out", "loading", "in", "leaving", "broken"}
  /\ attached \in BOOLEAN
  /\ is_locked \in BOOLEAN
  /\ spin \in Threads \cup {Nobody}
  /\ pc \in [Threads -> {"user", "entry", "lock", "guard", "origin", "device",
                         "relock", "dummy", "lost", "oops"}]
  /\ req \in [Threads -> Request]
  /\ frames \in [Threads -> Nat]
  /\ mapped \in [Threads -> {"no", "yes", "wild", "gone"}]
  /\ shared \in [Threads -> BOOLEAN]
  /\ calls \in [Threads -> Nat]
  /\ loads \in Nat
  /\ fails \in Nat

(* While is_locked is set the hook lets everything pass.  However calls    *)
(* overlap, fail or are refused, some live call is then still to reset it, *)
(* unless a call died inside the hook of this context, of a g_ctx that is  *)
(* NULL or a device that is gone.                                          *)
LockedByACall ==
  is_locked => \E t \in Threads : Inside(t) \/ Lost(t)

(* A call that has the hook for itself gets a mapping only if the guards   *)
(* accept it.  (A call that meets the is_locked of another one, or of one  *)
(* that died, is not checked.)                                             *)
GuardsLoneCalls ==
  \A t \in Threads : mapped[t] # "no" /\ Refused(req[t]) => shared[t]

(* A call that has the hook for itself goes through it once: the second    *)
(* entry finds is_locked set.                                              *)
NoRehook ==
  \A t \in Threads : frames[t] > 0 /\ pc[t] = "lock" => shared[t]

(* myshm_exit frees device_buffer before it takes the node away: no page   *)
(* of it is mapped any more, whoever loads and unloads what and when.      *)
MemoryOutlivesMappings ==
  \A t \in Threads : mapped[t] = "yes" => device = "ready"

(* A reset by one call makes the second entry of another one pass through  *)
(* the hook again, a frame of __ivshmem_origin_mmap deeper on its kernel   *)
(* stack: two callers are never deeper than the calls they made.           *)
RecursionBounded ==
  \A t \in Threads : frames[t] <= MapThenSumSet(LAMBDA u : calls[u], Threads)

(* Every call of mmap returns, or dies with the module.                    *)
CallsReturn ==
  \A t \in Threads : pc[t] = "entry" ~> pc[t] \in {"user", "lost", "oops"}

(* "for module_exit", says the comment at the assignment of g_ctx; but the *)
(* hook's two targets read it too.  Whoever runs one of them finds it set. *)
ContextSet ==
  \A t \in Threads : pc[t] \in {"origin", "dummy"} => HasContext

(* The device's README checks mmap for MAP_FAILED: when the hook reports   *)
(* success to the caller, its memory is mapped.                            *)
SuccessIsMapped ==
  [][\A t \in Threads :
       OriginReturns(t) /\ frames[t] = 1 => mapped[t] # "no"]_hook_vars

(* The note at device_buffer says that it "is used in shm_mmap and is      *)
(* allocated in shm_init": nobody maps the device before that.             *)
NoWildMapping == \A t \in Threads : mapped[t] # "wild"
=============================================================================
