-------------------------- MODULE MCChannelControl --------------------------
(* Two writers of one VM pair of each direction and a reader that accepts  *)
(* any sender process; the sizes are the ones the C headers give:          *)
(* 4 MB - sizeof(struct IvshmemControlSection) = 4194304 - 2080.           *)
EXTENDS ChannelControl, TLC

CONSTANTS w1, w2, r1

K(vm, pid, to) == [sender_vm |-> vm, sender_pid |-> pid, receiver_vm |-> to]

MCClientKey ==
  [c \in Clients |-> CASE c = w1 -> K(1, 11, 2)
                        [] c = w2 -> K(2, 22, 1)
                        [] c = r1 -> K(1, 0, 2)]

(* The shares of all the tables a 32-slot section can hold, not only of    *)
(* the short ones the run explores.                                        *)
ASSUME SharesUpTo32 ==
  \A n \in 1 .. 32 :
    /\ NumPage(n) >= 2
    /\ AllocatedBufferSize(n) # IVSHMEM_CHANNEL_INIT_SIZE
    /\ \A m \in 1 .. 32 :
         AllocatedBufferSize(m) = AllocatedBufferSize(n) => m = n
=============================================================================
