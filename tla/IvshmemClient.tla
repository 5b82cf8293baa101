---------------------------- MODULE IvshmemClient ---------------------------
(***************************************************************************)
(* The doorbell client: it connects to the ivshmem server, learns from its *)
(* messages which peers there are and which event descriptors ring them,   *)
(* handles rings of its own vectors and commands from stdin, and connects  *)
(* again when anything fails.  The client is one thread around select();   *)
(* the server and the other peers move between any two of its steps.       *)
(* The program installs no signal handler, so its calls are not            *)
(* interrupted (EINTR); the server speaks the protocol the client expects. *)
(***************************************************************************)
EXTENDS Integers, Sequences, FiniteSets, SequencesExt

CONSTANTS
  Me,                          \* the id the server gives this client
  Others,                      \* the ids of the other peers
  IVSHMEM_CLIENT_MAX_VECTORS,  \* vectors a peer's record has room for
  VectorCounts,                \* vectors per peer a server is started with
  MaxStarts, MaxJoins,         \* bounds: starts of the server, peers joining
  MaxConnects, MaxAllocFails   \* bounds: connections, failing callocs

ASSUME ClientAssumption ==
  /\ Me \in Nat
  /\ Others \subseteq Nat \ {Me}
  /\ IsFiniteSet(Others)
  /\ IVSHMEM_CLIENT_MAX_VECTORS \in Nat \ {0}
  /\ VectorCounts \subseteq Nat \ {0}
  /\ {MaxStarts, MaxJoins, MaxConnects, MaxAllocFails} \subseteq Nat

VARIABLES
  up, n_vectors, s_peers,      \* the server: running, its vector count, and
                               \* who is there (0: absent, else which time)
  conn, queue,                 \* the connection and what is unread on it
  pc,                          \* where the client is
  sock_fd, shm_fd, local_id, local_vectors, peer_list,  \* IvshmemClient
  ready,                       \* what select() returned
  open,                        \* the descriptors the process has open
  pending,                     \* own vectors that have been rung
  rung,                        \* what a command of this pass wrote to
  starts, joins, connects, alloc_fails

server == <<up, n_vectors, s_peers, starts, joins>>
held == <<sock_fd, shm_fd, local_id, local_vectors, peer_list>>
doorbell_vars == <<server, conn, queue, pc, held, ready, open, pending, rung,
                   connects, alloc_fails>>

(* A descriptor is named after the connection it came by and what it is:   *)
(* vector v of a peer that joined as the gen-th, the shared memory, or the *)
(* socket itself.                                                          *)
Fd(session, of, gen, v) ==
  [session |-> session, of |-> of, gen |-> gen, vector |-> v]
NoFd == Fd(0, 0, 0, 0)
SHM == -1
SOCK == -2

NothingReady == [stdin |-> FALSE, sock |-> FALSE, vectors |-> {}]
NoPeers == [p \in {} |-> <<>>]

\* ivshmem_client_init; the server is not running yet.
DoorbellInit ==
  /\ up = FALSE
  /\ n_vectors = 0
  /\ s_peers = [p \in Others |-> 0]
  /\ conn = "none"
  /\ queue = <<>>
  /\ pc = "connect"
  /\ sock_fd = NoFd
  /\ shm_fd = NoFd
  /\ local_id = -1
  /\ local_vectors = <<>>
  /\ peer_list = NoPeers
  /\ ready = NothingReady
  /\ open = {}
  /\ pending = {}
  /\ rung = {}
  /\ starts = 0
  /\ joins = 0
  /\ connects = 0
  /\ alloc_fails = 0

-----------------------------------------------------------------------------
(* The server and the other peers, as far as the client sees them.         *)

Vectors(session, p, gen, n) ==
  [i \in 1 .. n |-> [index |-> p, fd |-> Fd(session, p, gen, i - 1)]]

\* What a client that connects is sent: version, id, shared memory, the
\* vectors of those who are there, its own.
Greeting(session) ==
  << [index |-> 0, fd |-> NoFd],
     [index |-> Me, fd |-> NoFd],
     [index |-> -1, fd |-> Fd(session, SHM, 0, 0)] >>
  \o FlattenSeq([i \in 1 .. Cardinality(Others) |->
       LET p == SetToSeq(Others)[i]
       IN  IF s_peers[p] = 0 THEN <<>>
           ELSE Vectors(session, p, s_peers[p], n_vectors)])
  \o Vectors(session, Me, 0, n_vectors)

Tell(msgs) == queue' = IF conn = "live" THEN queue \o msgs ELSE queue

ServerStarts ==
  /\ ~up
  /\ starts < MaxStarts
  /\ up' = TRUE
  /\ n_vectors' \in VectorCounts
  /\ starts' = starts + 1
  /\ UNCHANGED <<s_peers, joins, conn, queue, pc, held, ready, open, pending,
                 rung, connects, alloc_fails>>

\* The server dies, with some of what it meant to send not sent.
ServerStops ==
  /\ up
  /\ up' = FALSE
  /\ s_peers' = [p \in Others |-> 0]
  /\ IF conn = "live"
       THEN /\ conn' = "eof"
            /\ \E k \in 0 .. Len(queue) : queue' = SubSeq(queue, 1, k)
       ELSE UNCHANGED <<conn, queue>>
  /\ UNCHANGED <<n_vectors, starts, joins, pc, held, ready, open, pending,
                 rung, connects, alloc_fails>>

PeerJoins(p) ==
  /\ up
  /\ s_peers[p] = 0
  /\ joins < MaxJoins
  /\ joins' = joins + 1
  /\ s_peers' = [s_peers EXCEPT ![p] = joins + 1]
  /\ Tell(Vectors(connects, p, joins + 1, n_vectors))
  /\ UNCHANGED <<up, n_vectors, starts, conn, pc, held, ready, open, pending,
                 rung, connects, alloc_fails>>

PeerLeaves(p) ==
  /\ s_peers[p] # 0
  /\ s_peers' = [s_peers EXCEPT ![p] = 0]
  /\ Tell(<<[index |-> p, fd |-> NoFd]>>)
  /\ UNCHANGED <<up, n_vectors, starts, joins, conn, pc, held, ready, open,
                 pending, rung, connects, alloc_fails>>

PeerRings(v) ==
  /\ conn = "live"
  /\ \E p \in Others : s_peers[p] # 0
  /\ pending' = pending \cup {v}
  /\ UNCHANGED <<server, conn, queue, pc, held, ready, open, rung, connects,
                 alloc_fails>>

World ==
  \/ ServerStarts \/ ServerStops
  \/ \E p \in Others : PeerJoins(p) \/ PeerLeaves(p)
  \/ \E v \in 0 .. n_vectors - 1 : PeerRings(v)

-----------------------------------------------------------------------------
(* The client: ivshmem_client_connect.  With no server to connect to it    *)
(* closes the new socket and tries again a second later.                   *)

Connect ==
  /\ pc = "connect"
  /\ up
  /\ connects < MaxConnects
  /\ connects' = connects + 1
  /\ sock_fd' = Fd(connects', SOCK, 0, 0)
  /\ open' = open \cup {sock_fd'}
  /\ conn' = "live"
  /\ queue' = Greeting(connects')
  /\ pc' = "version"
  /\ UNCHANGED <<server, shm_fd, local_id, local_vectors, peer_list, ready,
                 pending, rung, alloc_fails>>

msg == Head(queue)

\* ivshmem_client_read_one_msg: a message, or none because the server is gone
HasMsg == queue # <<>>
Lost == queue = <<>> /\ conn = "eof"

\* mutant: the end of the connection is not noticed
SockReadableNoEof == HasMsg

\* what makes select() report the socket
SockReadable == HasMsg \/ Lost

ReadVersion ==
  /\ pc = "version"
  /\ HasMsg
  /\ msg.index = 0 /\ msg.fd = NoFd
  /\ queue' = Tail(queue)
  /\ pc' = "id"
  /\ UNCHANGED <<server, conn, held, ready, open, pending, rung, connects,
                 alloc_fails>>

ReadId ==
  /\ pc = "id"
  /\ HasMsg
  /\ msg.index >= 0 /\ msg.fd = NoFd
  /\ queue' = Tail(queue)
  /\ local_id' = msg.index
  /\ pc' = "shm"
  /\ UNCHANGED <<server, conn, sock_fd, shm_fd, local_vectors, peer_list,
                 ready, open, pending, rung, connects, alloc_fails>>

ReadShm ==
  /\ pc = "shm"
  /\ HasMsg
  /\ msg.index = -1 /\ msg.fd # NoFd
  /\ queue' = Tail(queue)
  /\ shm_fd' = msg.fd
  /\ open' = open \cup {msg.fd}
  /\ pc' = "select"
  /\ UNCHANGED <<server, conn, sock_fd, local_id, local_vectors, peer_list,
                 ready, pending, rung, connects, alloc_fails>>

\* err_close; local.id keeps what it was.
ConnectFails ==
  /\ pc \in {"version", "id", "shm"}
  /\ Lost
  /\ open' = open \ {sock_fd}
  /\ sock_fd' = NoFd
  /\ conn' = "none"
  /\ pending' = {}
  /\ pc' = "connect"
  /\ UNCHANGED <<server, queue, shm_fd, local_id, local_vectors, peer_list,
                 ready, rung, connects, alloc_fails>>

-----------------------------------------------------------------------------
(* One pass of ivshmem_client_poll_events.  select() has no timeout, so it *)
(* never returns 0 and main() closes the client whenever the loop ends.    *)

\* mutant: the scan of the own vectors starts at the second
ReadyVectorsFromOne == {d \in 1 .. Len(local_vectors) - 1 : d \in pending}

\* the own vectors in the descriptor set that have been rung
ReadyVectors == {d \in 0 .. Len(local_vectors) - 1 : d \in pending}

Select ==
  /\ pc = "select"
  /\ \E stdin \in BOOLEAN :
       ready' = [stdin |-> stdin, sock |-> SockReadable,
                 vectors |-> ReadyVectors]
  /\ ready' # NothingReady
  /\ pc' = IF ready'.stdin THEN "stdin"
           ELSE IF ready'.sock THEN "server" ELSE "events"
  /\ UNCHANGED <<server, conn, queue, held, open, pending, rung, connects,
                 alloc_fails>>

\* mutant: only the list is searched
SearchListOnly(id) == IF id \in DOMAIN peer_list THEN peer_list[id] ELSE <<>>

\* ivshmem_client_search_peer: the vectors of the one with this id, none if
\* there is nobody
ivshmem_client_search_peer(id) ==
  IF id = local_id THEN local_vectors
  ELSE IF id \in DOMAIN peer_list THEN peer_list[id] ELSE <<>>

ivshmem_client_notify(vectors, v) ==
  IF v >= Len(vectors) THEN {} ELSE {vectors[v + 1]}

ivshmem_client_notify_all_vects(vectors) ==
  UNION {ivshmem_client_notify(vectors, v) : v \in 0 .. Len(vectors) - 1}

\* "int <peer> <vector>", "int <peer> all" and "int all": what one of them
\* writes to; the other commands only print
Commands ==
  {ivshmem_client_notify(ivshmem_client_search_peer(p), v) :
     p \in Others \cup {Me}, v \in 0 .. IVSHMEM_CLIENT_MAX_VECTORS}
  \cup {ivshmem_client_notify_all_vects(ivshmem_client_search_peer(p)) :
          p \in Others \cup {Me}}
  \cup {UNION {ivshmem_client_notify_all_vects(peer_list[p]) :
                 p \in DOMAIN peer_list}}

HandleStdin ==
  /\ pc = "stdin"
  /\ rung' \in Commands
  /\ pending' = pending \cup {d.vector : d \in {d \in rung' : d.of = Me}}
  /\ pc' = IF ready.sock THEN "server" ELSE "events"
  /\ UNCHANGED <<server, conn, queue, held, ready, open, connects,
                 alloc_fails>>

-----------------------------------------------------------------------------
(* ivshmem_client_handle_server_msg, one message.                          *)

Known == DOMAIN peer_list \cup {local_id}

\* mutant: one vector more than the record holds
FullOneMore(id) ==
  Len(ivshmem_client_search_peer(id)) > IVSHMEM_CLIENT_MAX_VECTORS

Full(id) ==
  Len(ivshmem_client_search_peer(id)) >= IVSHMEM_CLIENT_MAX_VECTORS

fds(vectors) == {vectors[i] : i \in 1 .. Len(vectors)}

\* mutant: the descriptors are closed and the record stays in the list
FreePeerInList ==
  /\ pc = "server"
  /\ HasMsg
  /\ msg.fd = NoFd
  /\ msg.index \in DOMAIN peer_list
  /\ queue' = Tail(queue)
  /\ open' = open \ fds(peer_list[msg.index])
  /\ rung' = {}
  /\ pc' = "events"
  /\ UNCHANGED <<server, conn, held, ready, pending, connects,
                 alloc_fails>>

\* a deletion: ivshmem_client_free_peer
FreePeer ==
  /\ pc = "server"
  /\ HasMsg
  /\ msg.fd = NoFd
  /\ msg.index \in DOMAIN peer_list
  /\ queue' = Tail(queue)
  /\ open' = open \ fds(peer_list[msg.index])
  /\ peer_list' = [p \in DOMAIN peer_list \ {msg.index} |-> peer_list[p]]
  /\ rung' = {}
  /\ pc' = "events"
  /\ UNCHANGED <<server, conn, sock_fd, shm_fd, local_id, local_vectors, ready,
                 pending, connects, alloc_fails>>

\* a vector of ours, of a known peer, or the first one of a new peer
NewVector ==
  /\ pc = "server"
  /\ HasMsg
  /\ msg.fd # NoFd
  /\ ~Full(msg.index)
  /\ queue' = Tail(queue)
  /\ open' = open \cup {msg.fd}
  /\ LET vectors == Append(ivshmem_client_search_peer(msg.index), msg.fd)
     IN  IF msg.index = local_id
           THEN local_vectors' = vectors /\ UNCHANGED peer_list
           ELSE /\ peer_list' = [p \in DOMAIN peer_list \cup {msg.index} |->
                                   IF p = msg.index THEN vectors
                                                    ELSE peer_list[p]]
                /\ UNCHANGED local_vectors
  /\ rung' = {}
  /\ pc' = "events"
  /\ UNCHANGED <<server, conn, sock_fd, shm_fd, local_id, ready, pending,
                 connects, alloc_fails>>

Held ==
  ({sock_fd, shm_fd} \cup fds(local_vectors)
     \cup UNION {fds(peer_list[p]) : p \in DOMAIN peer_list}) \ {NoFd}

\* what a message that is not handled to its end brought stays open
Received == IF HasMsg THEN {msg.fd} \ {NoFd} ELSE {}

\* mutant: the shared memory stays open
CloseKeepsShm == open' = (open \cup Received) \ (Held \ {shm_fd})

\* the descriptors ivshmem_client_close closes
CloseHeld == open' = (open \cup Received) \ Held

\* ivshmem_client_close, and main() connects again
Close ==
  /\ CloseHeld
  /\ peer_list' = NoPeers
  /\ shm_fd' = NoFd
  /\ sock_fd' = NoFd
  /\ local_id' = -1
  /\ local_vectors' = <<>>
  /\ conn' = "none"
  /\ queue' = <<>>
  /\ pending' = {}
  /\ ready' = NothingReady
  /\ pc' = "connect"
  /\ rung' = {}
  /\ UNCHANGED <<server, connects>>

\* The server is gone, deletes whom we do not know, or sends too many vectors.
MsgFails ==
  /\ pc = "server"
  /\ \/ Lost
     \/ HasMsg /\ msg.fd = NoFd /\ msg.index \notin DOMAIN peer_list
     \/ HasMsg /\ msg.fd # NoFd /\ Full(msg.index)
  /\ Close
  /\ UNCHANGED alloc_fails

NoMemory ==
  /\ pc = "server"
  /\ HasMsg
  /\ msg.fd # NoFd
  /\ msg.index \notin Known
  /\ alloc_fails < MaxAllocFails
  /\ alloc_fails' = alloc_fails + 1
  /\ Close

\* ivshmem_client_handle_event, then the next pass
HandleEvent ==
  /\ pc = "events"
  /\ pending' = pending \ ready.vectors
  /\ ready' = NothingReady
  /\ rung' = {}
  /\ pc' = "select"
  /\ UNCHANGED <<server, conn, queue, held, open, connects, alloc_fails>>

Client ==
  \/ Connect \/ ReadVersion \/ ReadId \/ ReadShm \/ ConnectFails
  \/ Select \/ HandleStdin \/ FreePeer \/ NewVector \/ MsgFails \/ NoMemory
  \/ HandleEvent

DoorbellNext == World \/ Client

DoorbellSpec == DoorbellInit /\ [][DoorbellNext]_doorbell_vars

(* The client is a process of its own, and select() reports a descriptor   *)
(* until it is read.  Nothing is assumed of the server and the peers.      *)
DoorbellFairSpec == DoorbellSpec /\ WF_doorbell_vars(Client)

-----------------------------------------------------------------------------
DescriptorOK(d) ==
  /\ d.session \in 0 .. MaxConnects
  /\ d.of \in Others \cup {Me, SHM, SOCK, 0}
  /\ d.gen \in 0 .. MaxJoins
  /\ d.vector \in Nat

Listening == pc \in {"select", "stdin", "server", "events"}

ClientView ==
  [p \in Others \cup {Me} |->
     IF p = Me THEN local_vectors
     ELSE IF p \in DOMAIN peer_list THEN peer_list[p] ELSE <<>>]

(* Types; no record holds more vectors than it has room for.               *)
DoorbellTypeOK ==
  /\ up \in BOOLEAN
  /\ n_vectors \in VectorCounts \cup {0}
  /\ s_peers \in [Others -> 0 .. MaxJoins]
  /\ conn \in {"none", "live", "eof"}
  /\ pc \in {"connect", "version", "id", "shm", "select", "stdin", "server",
             "events"}
  /\ local_id \in {-1, Me}
  /\ DOMAIN peer_list \subseteq Others
  /\ \A p \in Others \cup {Me} :
       Len(ClientView[p]) <= IVSHMEM_CLIENT_MAX_VECTORS
  /\ \A d \in open : DescriptorOK(d)

(* Every descriptor in the client's structures is open and is there once,  *)
(* and commands write to such descriptors only: ivshmem_client_close and   *)
(* ivshmem_client_free_peer never close a number twice, and no ring goes   *)
(* to a number that has been given to something else.                      *)
HeldAreOpen ==
  /\ Held \subseteq open
  /\ rung \subseteq open
  /\ \A p, q \in Others \cup {Me} :
       \A i \in DOMAIN ClientView[p], j \in DOMAIN ClientView[q] :
         ClientView[p][i] = ClientView[q][j] => p = q /\ i = j

(* Whatever is lost on the way, reconnecting leaves nothing behind but the *)
(* one descriptor whose vector was refused: one a connection at most, and  *)
(* never the socket or the shared memory.                                  *)
OneLostPerConnection ==
  \A d \in open \ Held :
    /\ d.of \notin {SOCK, SHM}
    /\ pc # "connect" => d.session < connects
    /\ \A e \in open \ Held : e.session = d.session => e = d

\* the client's view once a message is handled, and the server's own
AfterMsg(view, m) ==
  [view EXCEPT ![m.index] = IF m.fd = NoFd THEN <<>> ELSE Append(@, m.fd)]
ServerView ==
  [p \in Others \cup {Me} |->
     IF p = Me \/ s_peers[p] # 0
       THEN [i \in 1 .. n_vectors |->
               Fd(connects, p, IF p = Me THEN 0 ELSE s_peers[p], i - 1)]
       ELSE <<>>]

(* What the client knows of a peer, and what is under way to it, is what   *)
(* the server knows: every vector at its place, those of a peer that left  *)
(* gone, also when it came back under the same id.                         *)
ViewFollowsServer ==
  Listening /\ conn = "live" =>
    FoldLeft(AfterMsg, ClientView, queue) = ServerView

(* As long as a server stays up whose vectors fit, the client gets to know *)
(* all of it, through lost connections and failing allocations (up to the  *)
(* bound on connections).                                                  *)
CatchesUp ==
  up /\ n_vectors <= IVSHMEM_CLIENT_MAX_VECTORS
    ~> \/ ~up
       \/ pc = "connect" /\ connects = MaxConnects
       \/ Listening /\ conn = "live" /\ ClientView = ServerView

(* A ring of an own vector is handled, also one that came before the       *)
(* vector was announced, unless the connection is lost.                    *)
RingsHandled ==
  \A v \in 0 .. IVSHMEM_CLIENT_MAX_VECTORS - 1 : v \in pending ~> v \notin pending
=============================================================================
