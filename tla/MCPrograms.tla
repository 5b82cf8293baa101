----------------------------- MODULE MCPrograms -----------------------------
(* Two writer processes of one VM and a reader that accepts any of them.   *)
EXTENDS Programs

CONSTANTS w1, w2, r1

K(vm, pid, to) == [sender_vm |-> vm, sender_pid |-> pid, receiver_vm |-> to]

MCClientKey ==
  [c \in Clients |-> CASE c = w1 -> K(1, 11, 2)
                       [] c = w2 -> K(1, 22, 2)
                       [] c = r1 -> K(1, 0, 2)]

MCMaxMessages ==
  [a \in BOOLEAN |-> [w \in Writers |-> CASE w = w2 -> IF a THEN 0 ELSE 1
                                          [] OTHER -> IF a THEN 1 ELSE 2]]
=============================================================================
