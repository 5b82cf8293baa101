---------------------------- MODULE ChannelTable ----------------------------
(***************************************************************************)
(* What the control plane promises to the programs: a table of keys that   *)
(* only grows while the trusted host lives, a mailbox that the host        *)
(* empties, and lookups that return the first match.  Sizes, offsets, the  *)
(* steps of a rebalancing and the stores that make up a request are left   *)
(* to ChannelControl, which implements this.                               *)
(***************************************************************************)
EXTENDS ControlSection, Sequences

CONSTANTS Writers, Readers, ClientKey

Clients == Writers \cup Readers

VARIABLES
  owners,                  \* the keys of the active channels
  control_mutex, has_channel_candidate,
  t_pc,                    \* what the host is doing
  c_pc, c_chan             \* where each client is, the channel it has

table_vars == <<owners, control_mutex, has_channel_candidate, t_pc, c_pc,
                c_chan>>

TableInit ==
  /\ owners = <<>>
  /\ control_mutex = 0
  /\ has_channel_candidate = FALSE
  /\ t_pc = "down"
  /\ c_pc = [c \in Clients |-> "idle"]
  /\ c_chan = [c \in Clients |-> NULL]

-----------------------------------------------------------------------------
(* The host.                                                               *)

TrustedStart ==
  /\ t_pc = "down"
  /\ t_pc' = "idle"
  /\ owners' = <<>>
  /\ control_mutex' = 0
  /\ has_channel_candidate' = FALSE
  /\ UNCHANGED <<c_pc, c_chan>>

TrustedCrash ==
  /\ t_pc # "down"
  /\ t_pc' = "down"
  /\ UNCHANGED <<owners, control_mutex, has_channel_candidate, c_pc, c_chan>>

RebalanceBegin ==
  /\ t_pc = "idle"
  /\ owners # <<>>
  /\ control_mutex' = 1
  /\ t_pc' = "rebalance"
  /\ UNCHANGED <<owners, has_channel_candidate, c_pc, c_chan>>

RebalanceEnd ==
  /\ t_pc = "rebalance"
  /\ control_mutex' = 0
  /\ t_pc' = "idle"
  /\ UNCHANGED <<owners, has_channel_candidate, c_pc, c_chan>>

RebalanceNoMemory ==
  /\ t_pc = "rebalance"
  /\ t_pc' = "idle"
  /\ UNCHANGED <<owners, control_mutex, has_channel_candidate, c_pc, c_chan>>

ControlLock ==
  /\ t_pc = "idle"
  /\ has_channel_candidate
  /\ control_mutex' = 1
  /\ t_pc' = "create"
  /\ UNCHANGED <<owners, has_channel_candidate, c_pc, c_chan>>

\* A key that no client looks for, whatever it is.
Stray == [sender_vm |-> NULL, sender_pid |-> NULL, receiver_vm |-> NULL]

Owner(k) == IF \E c \in Clients : Matches(k, ClientKey[c]) THEN k ELSE Stray

(* What the mailbox may be read as when the writers in ws have used it:    *)
(* a key that was stored, or halves of two, the first of them all zero.    *)
Readable(ws) ==
  LET stored == {ClientKey[w] : w \in ws} \cup {NoKey}
  IN  {Owner([k EXCEPT !.receiver_vm = l.receiver_vm]) : k, l \in stored}

\* There may be no slot or no space left.
ControlCreate(ws) ==
  /\ t_pc = "create"
  /\ \/ /\ Len(owners) < IVSHMEM_MAX_CHANNELS
        /\ \E k \in Readable(ws) : owners' = Append(owners, k)
     \/ UNCHANGED owners
  /\ t_pc' = "clear"
  /\ UNCHANGED <<control_mutex, has_channel_candidate, c_pc, c_chan>>

ControlClear ==
  /\ t_pc = "clear"
  /\ has_channel_candidate' = FALSE
  /\ t_pc' = "unlock"
  /\ UNCHANGED <<owners, control_mutex, c_pc, c_chan>>

ControlUnlock ==
  /\ t_pc = "unlock"
  /\ control_mutex' = 0
  /\ t_pc' = "idle"
  /\ UNCHANGED <<owners, has_channel_candidate, c_pc, c_chan>>

HostWork(ws) == \/ RebalanceEnd \/ ControlCreate(ws)
                \/ ControlClear \/ ControlUnlock

-----------------------------------------------------------------------------
(* The clients.                                                            *)

Lookup(c) ==
  ivshmem_find_channel([i \in 0 .. Len(owners) - 1 |-> [key |-> owners[i + 1]]],
                       Len(owners), ClientKey[c])

Found(c, otherwise) ==
  /\ c_chan' = [c_chan EXCEPT ![c] = Lookup(c)]
  /\ c_pc' = [c_pc EXCEPT ![c] = IF Lookup(c) # NULL THEN "have"
                                                     ELSE otherwise]
  /\ UNCHANGED <<owners, control_mutex, has_channel_candidate, t_pc>>

RequestChannel(w) == c_pc[w] = "idle" /\ Found(w, "flag")

\* The flag goes up; the key follows.
RaiseFlag(w) ==
  /\ c_pc[w] = "flag"
  /\ has_channel_candidate' = TRUE
  /\ c_pc' = [c_pc EXCEPT ![w] = "wait"]
  /\ UNCHANGED <<owners, control_mutex, t_pc, c_chan>>

PollDone(w) == /\ c_pc[w] = "wait"
               /\ ~has_channel_candidate
               /\ Found(w, "failed")

FindForReceive(r) == c_pc[r] = "idle" /\ Found(r, "failed")

Return(c) ==
  /\ c_pc[c] \in {"have", "failed"}
  /\ c_pc' = [c_pc EXCEPT ![c] = "idle"]
  /\ c_chan' = [c_chan EXCEPT ![c] = NULL]
  /\ UNCHANGED <<owners, control_mutex, has_channel_candidate, t_pc>>

TableNext ==
  \/ TrustedStart \/ TrustedCrash \/ RebalanceBegin \/ RebalanceNoMemory
  \/ ControlLock \/ HostWork(Writers)
  \/ \E w \in Writers : RequestChannel(w) \/ RaiseFlag(w) \/ PollDone(w)
  \/ \E r \in Readers : FindForReceive(r)
  \/ \E c \in Clients : Return(c)

TableSpec == TableInit /\ [][TableNext]_table_vars
=============================================================================
