----------------------------- MODULE MCMmapHook -----------------------------
(* Mappings on both sides of the guards, with the numbers of the source    *)
(* (HOOK_DEV 2, the myshm device): the control section and more (always    *)
(* longer than the limit, too), a data page, two data pages, which only    *)
(* the limit refuses, the page behind the end of what may be mapped, a     *)
(* file of another name past the end of the device.                        *)
EXTENDS MmapHook

CONSTANTS t1, t2

Map(offset, length, named) ==
  [offset |-> offset, length |-> length, named |-> named]

MCRequests ==
  {Map(0, 8192, TRUE), Map(4096, 4096, TRUE),
   Map(4096, 8192, TRUE), Map(2097152, 4096, TRUE),
   Map(4190208, 8192, FALSE)}
=============================================================================
