-------------------------- MODULE MCSecureIvshmem ---------------------------
(* One sender, a second one that only asks for a channel (its message is   *)
(* empty) so that the first one's is made smaller, and one receiver.       *)
EXTENDS SecureIvshmem

CONSTANTS w1, w2, r1, Length

K(vm, pid, to) == [sender_vm |-> vm, sender_pid |-> pid, receiver_vm |-> to]

MCClientKey ==
  [c \in Clients |-> CASE c = w1 -> K(1, 11, 2)
                       [] c = w2 -> K(3, 22, 2)
                       [] c = r1 -> K(1, 0, 2)]

MCSize == [c \in Clients |-> IF c = w2 THEN 0 ELSE Length]
=============================================================================
