------------------------- MODULE IvshmemClient_proofs ------------------------
(***************************************************************************)
(* The doorbell client's records: the descriptors in them are open and     *)
(* there once, what reconnecting leaves behind is bounded, and what the    *)
(* client knows together with what is under way to it is what the server   *)
(* knows; for any peers, any vector counts and any number of connections.  *)
(***************************************************************************)
EXTENDS IvshmemClient, FiniteSetTheorems, SequenceTheorems,
        WellFoundedInduction, TLAPS

Descriptor == [session : Nat, of : Int, gen : Nat, vector : Nat]
Message == [index : Int, fd : Descriptor]
Everyone == Others \cup {Me}

\* messages of the handshake that are still to be read
Ahead == IF pc = "version" THEN 3
         ELSE IF pc = "id" THEN 2
         ELSE IF pc = "shm" THEN 1 ELSE 0

\* the k-th message of the handshake of a session
Opening(k, session) ==
  [index |-> IF k = 1 THEN 0 ELSE IF k = 2 THEN Me ELSE -1,
   fd |-> IF k = 3 THEN Fd(session, SHM, 0, 0) ELSE NoFd]

\* d is a vector of p, one of the first last peers to join, that came by this
\* session
VectorOf(d, p, session, last) ==
  /\ d \in Descriptor
  /\ d.session = session
  /\ d.of = p
  /\ d.gen <= last

PeerMsg(m, session, last) ==
  \/ m.fd = NoFd /\ m.index \in Others
  \/ m.index \in Everyone /\ VectorOf(m.fd, m.index, session, last)

RecordsOK ==
  /\ queue \in Seq(Message)
  /\ local_vectors \in Seq(Descriptor)
  /\ peer_list \in [DOMAIN peer_list -> Seq(Descriptor)]
  /\ open \subseteq Descriptor
  /\ joins \in 0 .. MaxJoins
  /\ connects \in 0 .. MaxConnects

(* What a place in the program says of the connection and the records.     *)
ConnectionInv ==
  /\ conn = "none" <=> pc = "connect"
  /\ pc = "connect" => queue = <<>>
  /\ pc # "connect" => connects > 0
  /\ sock_fd = IF pc = "connect" THEN NoFd ELSE Fd(connects, SOCK, 0, 0)
  /\ shm_fd = IF Listening THEN Fd(connects, SHM, 0, 0) ELSE NoFd
  /\ ~Listening => /\ local_vectors = <<>>
                   /\ DOMAIN peer_list = {}
                   /\ rung = {}
  /\ pc = "shm" \/ Listening => local_id = Me

ServerInv ==
  /\ conn = "live" => up
  /\ up => n_vectors \in VectorCounts
  /\ \A p \in Others : s_peers[p] <= joins /\ (s_peers[p] # 0 => up)

(* What is unread: the rest of the handshake, all of it unless the server  *)
(* died, then messages about peers.  No descriptor is under way twice.     *)
QueueInv ==
  /\ conn = "live" => Len(queue) >= Ahead
  /\ \A i \in 1 .. Len(queue) :
       IF i <= Ahead THEN queue[i] = Opening(i + 3 - Ahead, connects)
                     ELSE PeerMsg(queue[i], connects, joins)
  /\ \A i, j \in 1 .. Len(queue) :
       Ahead < i /\ i < j /\ queue[i].fd # NoFd => queue[i].fd # queue[j].fd

(* The vectors in the records are of this connection, different from one   *)
(* another and from those under way.                                       *)
VectorsInv ==
  \A p \in Everyone : \A k \in 1 .. Len(ClientView[p]) :
    /\ VectorOf(ClientView[p][k], p, connects, joins)
    /\ \A l \in 1 .. Len(ClientView[p]) :
         k < l => ClientView[p][k] # ClientView[p][l]
    /\ \A i \in 1 .. Len(queue) : queue[i].fd # ClientView[p][k]

OpenInv ==
  /\ Held \subseteq open
  /\ rung \subseteq open
  /\ \A d \in open : d.session <= connects
  /\ OneLostPerConnection

ClientInv ==
  /\ DoorbellTypeOK
  /\ RecordsOK
  /\ ConnectionInv
  /\ ServerInv
  /\ QueueInv
  /\ VectorsInv
  /\ OpenInv

-----------------------------------------------------------------------------
(* Induction, stated about a set of numbers.                               *)

\* A set of natural numbers that is not empty has a least element.
LEMMA LeastNumber ==
  ASSUME NEW T, T \subseteq Nat, T # {}
  PROVE  \E n \in T : \A k \in T : n <= k
<1> DEFINE R == {ss \in Nat \X Nat : ss[1] < ss[2]}
<1>1. IsWellFoundedOn(R, Nat)
  BY NatLessThanWellFounded DEF OpToRel
<1>2. \A k, n \in Nat : k < n => <<k, n>> \in R
  OBVIOUS
<1> HIDE DEF R
<1>3. PICK n \in T : \A k \in T : ~(<<k, n>> \in R)
  BY <1>1, WFMin, Zenon
<1>4. \A k \in T : ~(k < n)
  BY <1>2, <1>3
<1> QED BY <1>4

\* A set that holds 0 and the successor of each of its numbers holds them all.
LEMMA Induction ==
  ASSUME NEW T, 0 \in T, \A n \in Nat : n \in T => n + 1 \in T
  PROVE  \A n \in Nat : n \in T
<1> DEFINE U == Nat \ T
<1> SUFFICES ASSUME U # {} PROVE FALSE
  OBVIOUS
<1>1. U \subseteq Nat
  OBVIOUS
<1> HIDE DEF U
<1>2. PICK n \in U : \A k \in U : n <= k
  BY <1>1, LeastNumber
<1>3. n \in Nat /\ n \notin T /\ n # 0
  BY <1>2 DEF U
<1>4. n - 1 \in Nat /\ n - 1 \notin U
  BY <1>1, <1>2, <1>3
<1>5. n - 1 \in T
  BY <1>4 DEF U
<1>6. (n - 1) + 1 \in T
  BY <1>4, <1>5
<1> QED BY <1>3, <1>6

-----------------------------------------------------------------------------
(* What the server's greeting holds.                                       *)

\* f is the function FlattenSeq defines by recursion, up to n.
Flattens(f, seqs, n) ==
  f = [i \in 1 .. n |-> IF i = 1 THEN seqs[i] ELSE f[i - 1] \o seqs[i]]

LEMMA FlattenDefined ==
  ASSUME NEW seqs, Len(seqs) \in Nat, Len(seqs) # 0
  PROVE  \E f : /\ Flattens(f, seqs, Len(seqs))
                /\ FlattenSeq(seqs) = f[Len(seqs)]
<1> DEFINE T == {n \in Nat : \E f : Flattens(f, seqs, n)}
<1>1. 0 \in T
  <2> DEFINE f == [i \in 1 .. 0 |-> <<>>]
  <2>1. Flattens(f, seqs, 0)
    BY DEF Flattens
  <2> QED BY <2>1
<1>2. ASSUME NEW n \in Nat, n \in T PROVE n + 1 \in T
  <2>1. PICK f : Flattens(f, seqs, n)
    BY <1>2
  <2> DEFINE g == [i \in 1 .. n + 1 |->
                     IF i = 1 THEN seqs[i] ELSE f[i - 1] \o seqs[i]]
  <2> DEFINE h == [i \in 1 .. n + 1 |->
                     IF i = 1 THEN seqs[i] ELSE g[i - 1] \o seqs[i]]
  <2>2. ASSUME NEW i \in 1 .. n PROVE g[i] = f[i]
    <3>1. f[i] = IF i = 1 THEN seqs[i] ELSE f[i - 1] \o seqs[i]
      BY <2>1, Zenon DEF Flattens
    <3> QED BY <3>1
  <2>3. \A i \in 1 .. n + 1 : g[i] = h[i]
    <3>1. \A i \in 1 .. n + 1 : i # 1 => i - 1 \in 1 .. n
      OBVIOUS
    <3> HIDE DEF h, g
    <3> QED BY <2>2, <3>1 DEF h, g
  <2>4. g = h
    BY <2>3
  <2>5. Flattens(g, seqs, n + 1)
    BY <2>4, Zenon DEF Flattens
  <2> QED BY <2>5
<1>3. \A n \in Nat : n \in T
  <2> HIDE DEF T
  <2> QED BY <1>1, <1>2, Induction
<1>4. \E f : Flattens(f, seqs, Len(seqs))
  BY <1>3
<1> DEFINE g == CHOOSE f : Flattens(f, seqs, Len(seqs))
<1>5. Flattens(g, seqs, Len(seqs))
  BY <1>4
<1>6. FlattenSeq(seqs) = g[Len(seqs)]
  BY DEF FlattenSeq, Flattens
<1> HIDE DEF g
<1> QED BY <1>5, <1>6

\* the order in which the server names the others
Order == SetToSeq(Others)

LEMMA OthersListed ==
  /\ Cardinality(Others) \in Nat
  /\ Order \in [1 .. Cardinality(Others) -> Others]
  /\ \A i, j \in 1 .. Cardinality(Others) : Order[i] = Order[j] => i = j
  /\ \A p \in Others : \E i \in 1 .. Cardinality(Others) : Order[i] = p
<1> DEFINE n == Cardinality(Others)
<1>1. IsFiniteSet(Others)
  BY ClientAssumption
<1>2. n \in Nat /\ ExistsBijection(1 .. n, Others)
  BY <1>1, FS_CardinalityType
<1>3. \E f \in [1 .. n -> Others] : IsInjective(f)
  BY <1>2 DEF ExistsBijection, Bijection, Injection, IsInjective
<1>4. Order \in [1 .. n -> Others] /\ IsInjective(Order)
  BY <1>3 DEF Order, SetToSeq
<1>5. Order \in Injection(1 .. n, Others)
  BY <1>4 DEF Injection
<1>6. Cardinality(1 .. n) = n
  BY <1>2, FS_Interval
<1>7. Order \in Surjection(1 .. n, Others)
  BY <1>1, <1>5, <1>6, FS_Injection
<1> QED BY <1>2, <1>4, <1>7 DEF IsInjective, Surjection

\* which time the server knows p for
Gen(p) == IF p = Me THEN 0 ELSE s_peers[p]

(* q announces vectors of the peers in who, each once.                     *)
Announces(q, session, who) ==
  /\ q \in Seq(Message)
  /\ \A i \in 1 .. Len(q) :
       /\ q[i].index \in who
       /\ q[i].fd.session = session
       /\ q[i].fd.of = q[i].index
       /\ q[i].fd.gen = Gen(q[i].index)
  /\ \A i, j \in 1 .. Len(q) : i < j => q[i].fd # q[j].fd

LEMMA VectorsAnnounce ==
  ASSUME NEW session \in Nat, NEW p \in Int, NEW n \in Nat, Gen(p) \in Nat
  PROVE  Announces(Vectors(session, p, Gen(p), n), session, {p})
<1> DEFINE q == Vectors(session, p, Gen(p), n)
<1>1. q = [i \in 1 .. n |->
             [index |-> p,
              fd |-> [session |-> session, of |-> p, gen |-> Gen(p),
                      vector |-> i - 1]]]
  BY DEF Vectors, Fd
<1> HIDE DEF q
<1>2. q \in Seq(Message) /\ Len(q) = n
  BY <1>1 DEF Message, Descriptor
<1> QED BY <1>1, <1>2 DEF Announces, q

LEMMA ConcatAnnounces ==
  ASSUME NEW session, NEW A, NEW B, A \cap B = {},
         NEW q, NEW r, Announces(q, session, A), Announces(r, session, B)
  PROVE  Announces(q \o r, session, A \cup B)
<1>1. /\ q \o r \in Seq(Message)
      /\ Len(q) \in Nat /\ Len(r) \in Nat
      /\ Len(q \o r) = Len(q) + Len(r)
      /\ \A i \in 1 .. Len(q) + Len(r) :
           (q \o r)[i] = IF i <= Len(q) THEN q[i] ELSE r[i - Len(q)]
  BY ConcatProperties, LenProperties DEF Announces
<1> DEFINE s == q \o r
<1>2. ASSUME NEW i \in 1 .. Len(q) + Len(r)
      PROVE  \/ i \in 1 .. Len(q) /\ s[i] = q[i]
             \/ i - Len(q) \in 1 .. Len(r) /\ s[i] = r[i - Len(q)]
  BY <1>1
<1> HIDE DEF s
<1>3. ASSUME NEW i \in 1 .. Len(s)
      PROVE  /\ s[i].index \in A \cup B
             /\ s[i].fd.session = session
             /\ s[i].fd.of = s[i].index
             /\ s[i].fd.gen = Gen(s[i].index)
  BY <1>1, <1>2 DEF Announces, s
<1>4. ASSUME NEW i \in 1 .. Len(s), NEW j \in 1 .. Len(s), i < j
      PROVE  s[i].fd # s[j].fd
  <2>1. CASE j \in 1 .. Len(q)
    BY <1>1, <1>2, <1>4, <2>1 DEF Announces, s
  <2>2. CASE i \notin 1 .. Len(q)
    <3>1. /\ i - Len(q) \in 1 .. Len(r) /\ s[i] = r[i - Len(q)]
          /\ j - Len(q) \in 1 .. Len(r) /\ s[j] = r[j - Len(q)]
          /\ i - Len(q) < j - Len(q)
      BY <1>1, <1>2, <1>4, <2>2 DEF s
    <3> QED BY <3>1 DEF Announces
  <2>3. CASE i \in 1 .. Len(q) /\ j \notin 1 .. Len(q)
    <3>1. s[i].index \in A /\ s[i].fd.of = s[i].index
      BY <1>1, <2>3 DEF Announces, s
    <3>2. s[j].index \in B /\ s[j].fd.of = s[j].index
      BY <1>1, <1>2, <2>3 DEF Announces, s
    <3> QED BY <3>1, <3>2
  <2> QED BY <2>1, <2>2, <2>3
<1> QED BY <1>1, <1>3, <1>4 DEF Announces, s

\* the vectors of those who are there, peer by peer
There(session) ==
  [i \in 1 .. Cardinality(Others) |->
     LET p == SetToSeq(Others)[i]
     IN  IF s_peers[p] = 0 THEN <<>>
         ELSE Vectors(session, p, s_peers[p], n_vectors)]

\* what follows the handshake
Announcement(session) ==
  FlattenSeq(There(session)) \o Vectors(session, Me, 0, n_vectors)

LEMMA ThereAnnounces ==
  ASSUME NEW session \in Nat, s_peers \in [Others -> Nat], n_vectors \in Nat,
         NEW i \in 1 .. Cardinality(Others)
  PROVE  Announces(There(session)[i], session, {Order[i]})
<1> DEFINE p == Order[i]
<1>1. p \in Others /\ p \in Int /\ p # Me
  BY OthersListed, ClientAssumption
<1>2. Gen(p) = s_peers[p] /\ Gen(p) \in Nat
  BY <1>1 DEF Gen
<1>3. There(session)[i] = IF s_peers[p] = 0 THEN <<>>
                          ELSE Vectors(session, p, s_peers[p], n_vectors)
  BY DEF There, Order
<1>4. CASE s_peers[p] = 0
  BY <1>3, <1>4 DEF Announces
<1>5. CASE s_peers[p] # 0
  BY <1>1, <1>2, <1>3, <1>5, VectorsAnnounce
<1> QED BY <1>4, <1>5

LEMMA FlattenAnnounces ==
  ASSUME NEW session \in Nat, s_peers \in [Others -> Nat], n_vectors \in Nat
  PROVE  Announces(FlattenSeq(There(session)), session, Others)
<1> DEFINE n == Cardinality(Others)
           seqs == There(session)
           Named(j) == {Order[i] : i \in 1 .. j}
<1>1. n \in Nat /\ Len(seqs) = n
  BY OthersListed DEF There
<1>2. CASE n = 0
  <2>1. seqs = <<>>
    BY <1>1, <1>2 DEF There
  <2>2. FlattenSeq(seqs) = <<>>
    BY <1>1, <1>2, <2>1 DEF FlattenSeq
  <2> QED BY <2>2 DEF Announces
<1>3. CASE n # 0
  <2>1. PICK f : Flattens(f, seqs, n) /\ FlattenSeq(seqs) = f[n]
    BY <1>1, <1>3, FlattenDefined
  <2>2. \A i \in 1 .. n :
          f[i] = IF i = 1 THEN seqs[i] ELSE f[i - 1] \o seqs[i]
    BY <2>1, Zenon DEF Flattens
  <2> HIDE DEF seqs, n
  <2> DEFINE T == {j \in Nat : j + 1 \in 1 .. n =>
                     Announces(f[j + 1], session, Named(j + 1))}
  <2>3. 0 \in T
    <3>1. f[1] = seqs[1] /\ 1 \in 1 .. n
      BY <1>1, <1>3, <2>2
    <3>2. Named(1) = {Order[1]}
      OBVIOUS
    <3>3. Announces(f[1], session, Named(1))
      BY <3>1, <3>2, ThereAnnounces DEF seqs, n
    <3> QED BY <3>3
  <2>4. ASSUME NEW j \in Nat, j \in T PROVE j + 1 \in T
    <3> SUFFICES ASSUME j + 2 \in 1 .. n
                 PROVE  Announces(f[j + 2], session, Named(j + 2))
      BY <1>1
    <3>1. j + 1 \in 1 .. n /\ Announces(f[j + 1], session, Named(j + 1))
      BY <1>1, <2>4
    <3>2. f[j + 2] = f[j + 1] \o seqs[j + 2]
      <4>1. j + 2 # 1 /\ (j + 2) - 1 = j + 1
        OBVIOUS
      <4> QED BY <2>2, <4>1
    <3>3. Announces(seqs[j + 2], session, {Order[j + 2]})
      BY ThereAnnounces DEF seqs, n
    <3>4. Named(j + 1) \cap {Order[j + 2]} = {}
      <4>1. \A i \in 1 .. j + 1 : i \in 1 .. n /\ i # j + 2
        BY <1>1, <3>1
      <4> QED BY <4>1, OthersListed DEF n
    <3>5. Named(j + 2) = Named(j + 1) \cup {Order[j + 2]}
      <4>1. 1 .. j + 2 = (1 .. j + 1) \cup {j + 2}
        OBVIOUS
      <4> QED BY <4>1
    <3> HIDE DEF Named
    <3> QED BY <3>1, <3>2, <3>3, <3>4, <3>5, ConcatAnnounces
  <2>5. \A j \in Nat : j \in T
    <3> HIDE DEF T
    <3> QED BY <2>3, <2>4, Induction
  <2>6. Announces(f[n], session, Named(n))
    <3>1. n - 1 \in Nat /\ (n - 1) + 1 = n /\ n \in 1 .. n
      BY <1>1, <1>3
    <3> QED BY <2>5, <3>1
  <2>7. Named(n) = Others
    BY OthersListed DEF n
  <2> QED BY <2>1, <2>6, <2>7 DEF seqs
<1> QED BY <1>2, <1>3

\* The greeting: three messages of the handshake, then one announcement of
\* each vector.
LEMMA GreetingHolds ==
  ASSUME NEW session \in Nat, s_peers \in [Others -> Nat], n_vectors \in Nat
  PROVE  LET g == Greeting(session)
             a == Announcement(session)
         IN  /\ Announces(a, session, Everyone)
             /\ g \in Seq(Message)
             /\ Len(g) = 3 + Len(a)
             /\ g[1] = [index |-> 0, fd |-> NoFd]
             /\ g[2] = [index |-> Me, fd |-> NoFd]
             /\ g[3] = [index |-> -1, fd |-> Fd(session, SHM, 0, 0)]
             /\ \A i \in 1 .. Len(a) : g[3 + i] = a[i]
<1> DEFINE h == << [index |-> 0, fd |-> NoFd],
                   [index |-> Me, fd |-> NoFd],
                   [index |-> -1, fd |-> Fd(session, SHM, 0, 0)] >>
           f == FlattenSeq(There(session))
           v == Vectors(session, Me, 0, n_vectors)
<1>1. Announces(f, session, Others)
  BY FlattenAnnounces
<1>2. Announces(v, session, {Me})
  <2>1. Gen(Me) = 0 /\ Me \in Int
    BY ClientAssumption DEF Gen
  <2> QED BY <2>1, VectorsAnnounce
<1>3. Announces(f \o v, session, Everyone)
  BY <1>1, <1>2, ConcatAnnounces, ClientAssumption DEF Everyone
<1>4. /\ h \in Seq(Message)
      /\ Len(h) = 3
      /\ h[1] = [index |-> 0, fd |-> NoFd]
      /\ h[2] = [index |-> Me, fd |-> NoFd]
      /\ h[3] = [index |-> -1, fd |-> Fd(session, SHM, 0, 0)]
  BY ClientAssumption DEF Message, Descriptor, NoFd, Fd, SHM
<1>5. Greeting(session) = (h \o f) \o v
  BY DEF Greeting, There
<1> HIDE DEF h, f, v
<1>6. f \in Seq(Message) /\ v \in Seq(Message) /\ f \o v \in Seq(Message)
  BY <1>1, <1>2, <1>3 DEF Announces
<1>7. Greeting(session) = h \o (f \o v)
  <2>1. h \in Seq(Message)
    BY <1>4
  <2>2. (h \o f) \o v = h \o (f \o v)
    BY ONLY <1>6, <2>1, ConcatAssociative
  <2> QED BY <1>5, <2>2
<1>8. /\ h \o (f \o v) \in Seq(Message)
      /\ Len(h \o (f \o v)) = 3 + Len(f \o v)
      /\ \A i \in 1 .. 3 + Len(f \o v) :
           (h \o (f \o v))[i] = IF i <= 3 THEN h[i] ELSE (f \o v)[i - 3]
  <2>1. h \in Seq(Message) /\ Len(h) = 3
    BY <1>4
  <2> DEFINE fv == f \o v
  <2>2. fv \in Seq(Message)
    BY <1>6
  <2> HIDE DEF fv
  <2>3. /\ h \o fv \in Seq(Message)
        /\ Len(h \o fv) = Len(h) + Len(fv)
        /\ \A i \in 1 .. Len(h) + Len(fv) :
             (h \o fv)[i] = IF i <= Len(h) THEN h[i] ELSE fv[i - Len(h)]
    BY ONLY <2>1, <2>2, ConcatProperties
  <2> QED BY <2>1, <2>3 DEF fv
<1>9. Len(f \o v) \in Nat
  BY <1>6, LenProperties
<1>10. Announcement(session) = f \o v
  BY DEF Announcement, f, v
<1>11. \A i \in 1 .. Len(f \o v) : (h \o (f \o v))[3 + i] = (f \o v)[i]
  BY <1>8, <1>9
<1> QED BY <1>3, <1>4, <1>7, <1>8, <1>9, <1>10, <1>11

-----------------------------------------------------------------------------
(* The inductive invariant: the first state, and the server's steps.       *)

LEMMA ViewType ==
  ASSUME RecordsOK, DOMAIN peer_list \subseteq Others
  PROVE  ClientView \in [Everyone -> Seq(Descriptor)]
BY DEF ClientView, RecordsOK, Everyone

\* what the client holds, in terms of its view
HeldInView ==
  \A d : d \in Held <=>
    /\ d # NoFd
    /\ \/ d \in {sock_fd, shm_fd}
       \/ \E p \in Everyone : \E k \in 1 .. Len(ClientView[p]) :
            d = ClientView[p][k]

LEMMA HeldIs ==
  RecordsOK /\ DOMAIN peer_list \subseteq Others => HeldInView
<1> SUFFICES ASSUME RecordsOK, DOMAIN peer_list \subseteq Others
             PROVE  HeldInView
  OBVIOUS
<1>1. \A d : d \in UNION {fds(peer_list[p]) : p \in DOMAIN peer_list} <=>
               \E p \in DOMAIN peer_list : \E k \in 1 .. Len(peer_list[p]) :
                 d = peer_list[p][k]
  BY DEF fds
<1>2. \A d : d \in fds(local_vectors) <=>
               \E k \in 1 .. Len(local_vectors) : d = local_vectors[k]
  BY DEF fds
<1>3. ClientView[Me] = local_vectors
  BY DEF ClientView, Everyone
<1>4. \A p \in Others : p # Me
  BY ClientAssumption
<1>5. \A p \in Others :
        ClientView[p] = IF p \in DOMAIN peer_list THEN peer_list[p] ELSE <<>>
  BY <1>4 DEF ClientView
<1>6. \A d : (\E p \in Everyone : \E k \in 1 .. Len(ClientView[p]) :
                 d = ClientView[p][k]) <=>
             \/ \E k \in 1 .. Len(local_vectors) : d = local_vectors[k]
             \/ \E p \in DOMAIN peer_list : \E k \in 1 .. Len(peer_list[p]) :
                  d = peer_list[p][k]
  BY <1>3, <1>5 DEF Everyone
<1> DEFINE L == fds(local_vectors)
           P == UNION {fds(peer_list[p]) : p \in DOMAIN peer_list}
<1>7. Held = ({sock_fd, shm_fd} \cup L \cup P) \ {NoFd}
  BY DEF Held
<1> HIDE DEF L, P
<1>8. \A d : d \in Held <=>
               d # NoFd /\ (d \in {sock_fd, shm_fd} \/ d \in L \/ d \in P)
  BY <1>7
<1>9. ASSUME NEW d
      PROVE  d \in L \/ d \in P <=>
               \E p \in Everyone : \E k \in 1 .. Len(ClientView[p]) :
                 d = ClientView[p][k]
  <2>1. d \in L <=> \E k \in 1 .. Len(local_vectors) : d = local_vectors[k]
    BY <1>2, Zenon DEF L
  <2>2. d \in P <=>
          \E p \in DOMAIN peer_list : \E k \in 1 .. Len(peer_list[p]) :
            d = peer_list[p][k]
    BY <1>1, Zenon DEF P
  <2> QED BY <1>6, <2>1, <2>2, Zenon
<1> QED BY <1>8, <1>9, Zenon DEF HeldInView

LEMMA ClientInvInit == DoorbellInit => ClientInv
<1> SUFFICES ASSUME DoorbellInit PROVE ClientInv
  OBVIOUS
<1> USE ClientAssumption DEF DoorbellInit
<1>1. RecordsOK /\ DOMAIN peer_list = {}
  BY DEF RecordsOK, NoPeers
<1>2. \A p \in Everyone : ClientView[p] = <<>>
  BY <1>1 DEF ClientView, Everyone
<1>3. DoorbellTypeOK
  <2>1. {0, MaxJoins, IVSHMEM_CLIENT_MAX_VECTORS} \subseteq Nat
    OBVIOUS
  <2>2. \A p \in Everyone :
          Len(ClientView[p]) <= IVSHMEM_CLIENT_MAX_VECTORS
    BY <1>2, <2>1
  <2>3. s_peers \in [Others -> 0 .. MaxJoins]
    BY <2>1
  <2> QED BY <1>1, <2>2, <2>3 DEF DoorbellTypeOK, Everyone
<1>4. ConnectionInv
  BY <1>1 DEF ConnectionInv, Listening
<1>5. ServerInv
  BY DEF ServerInv
<1>6. QueueInv /\ VectorsInv
  BY <1>2 DEF QueueInv, VectorsInv
<1>7. Held = {}
  BY <1>1, <1>2, HeldIs DEF HeldInView
<1>8. OpenInv
  BY <1>7 DEF OpenInv, OneLostPerConnection
<1> QED BY <1>1, <1>3, <1>4, <1>5, <1>6, <1>8 DEF ClientInv

\* Steps that leave the client's records alone keep what is said of them.
LEMMA RecordsKept ==
  ASSUME ClientInv, UNCHANGED <<pc, held, open, rung, connects>>,
         s_peers' \in [Others -> 0 .. MaxJoins], up' \in BOOLEAN,
         n_vectors' \in VectorCounts \cup {0},
         conn' \in {"none", "live", "eof"},
         queue' \in Seq(Message), joins' \in 0 .. MaxJoins
  PROVE  /\ DoorbellTypeOK' /\ RecordsOK' /\ OpenInv'
         /\ ClientView' = ClientView
<1>1. /\ sock_fd' = sock_fd /\ shm_fd' = shm_fd /\ local_id' = local_id
      /\ local_vectors' = local_vectors /\ peer_list' = peer_list
      /\ pc' = pc /\ open' = open /\ rung' = rung /\ connects' = connects
  BY DEF held
<1>2. ClientView' = ClientView
  BY <1>1 DEF ClientView
<1>3. Held' = Held
  BY <1>1 DEF Held
<1>4. DoorbellTypeOK'
  BY <1>1, <1>2 DEF ClientInv, DoorbellTypeOK
<1>5. RecordsOK'
  BY <1>1 DEF ClientInv, RecordsOK
<1>6. OpenInv'
  BY <1>1, <1>3 DEF ClientInv, OpenInv, OneLostPerConnection
<1> QED BY <1>2, <1>4, <1>5, <1>6

\* A descriptor that is under way or in a record is no later than the last
\* peer to join.
LEMMA KnownGens ==
  ASSUME ClientInv
  PROVE  /\ \A i \in 1 .. Len(queue) :
              queue[i].fd \in Descriptor /\ queue[i].fd.gen <= joins
         /\ \A p \in Everyone : \A k \in 1 .. Len(ClientView[p]) :
              ClientView[p][k] # NoFd /\ ClientView[p][k].gen <= joins
<1>1. joins \in Nat /\ queue \in Seq(Message)
  BY ClientAssumption DEF ClientInv, RecordsOK
<1>2. NoFd.gen = 0 /\ NoFd.session = 0 /\ NoFd \in Descriptor
  BY DEF NoFd, Fd, Descriptor
<1>3. ASSUME NEW i \in 1 .. Len(queue)
      PROVE  queue[i].fd \in Descriptor /\ queue[i].fd.gen <= joins
  <2>1. queue[i].fd \in Descriptor
    <3>1. queue[i] \in Message
      BY <1>1, ElementOfSeq
    <3> QED BY <3>1 DEF Message
  <2>2. CASE i <= Ahead
    <3>1. queue[i] = Opening(i + 3 - Ahead, connects)
      BY <2>2 DEF ClientInv, QueueInv
    <3>2. \A k : Opening(k, connects).fd.gen = 0
      BY DEF Opening, NoFd, Fd
    <3> QED BY <1>1, <2>1, <3>1, <3>2
  <2>3. CASE ~(i <= Ahead)
    BY <1>1, <1>2, <2>1, <2>3 DEF ClientInv, QueueInv, PeerMsg, VectorOf
  <2> QED BY <2>1, <2>2, <2>3
<1>4. ASSUME NEW p \in Everyone, NEW k \in 1 .. Len(ClientView[p])
      PROVE  ClientView[p][k] # NoFd /\ ClientView[p][k].gen <= joins
  <2>1. VectorOf(ClientView[p][k], p, connects, joins)
    BY DEF ClientInv, VectorsInv
  <2>2. Listening
    <3>1. SUFFICES ASSUME ~Listening PROVE Len(ClientView[p]) = 0
      OBVIOUS
    <3>2. local_vectors = <<>> /\ DOMAIN peer_list = {}
      BY <3>1 DEF ClientInv, ConnectionInv
    <3> QED BY <3>2 DEF ClientView, Everyone
  <2>3. connects > 0
    BY <2>2 DEF ClientInv, ConnectionInv, Listening
  <2> QED BY <1>2, <2>1, <2>3 DEF VectorOf
<1> QED BY <1>3, <1>4

\* Messages about peers that join or leave.
LEMMA TellStep ==
  ASSUME ClientInv, NEW msgs \in Seq(Message), conn = "live",
         joins' \in Nat, joins <= joins', queue' = queue \o msgs,
         UNCHANGED <<conn, pc, held, connects>>,
         \A i \in 1 .. Len(msgs) :
           /\ \/ msgs[i].fd = NoFd /\ msgs[i].index \in Others
              \/ /\ msgs[i].index \in Everyone
                 /\ msgs[i].fd.session = connects
                 /\ msgs[i].fd.of = msgs[i].index
                 /\ msgs[i].fd.gen <= joins'
           /\ msgs[i].fd = NoFd \/ msgs[i].fd.gen > joins,
         \A i, j \in 1 .. Len(msgs) :
           i < j /\ msgs[i].fd # NoFd => msgs[i].fd # msgs[j].fd
  PROVE  queue' \in Seq(Message) /\ QueueInv' /\ VectorsInv'
<1>1. /\ queue \in Seq(Message) /\ Len(queue) \in Nat /\ Len(msgs) \in Nat
      /\ joins \in Nat /\ connects \in Nat
  BY LenProperties, ClientAssumption DEF ClientInv, RecordsOK
<1>2. /\ queue' \in Seq(Message)
      /\ Len(queue') = Len(queue) + Len(msgs)
      /\ \A i \in 1 .. Len(queue) + Len(msgs) :
           queue'[i] = IF i <= Len(queue) THEN queue[i]
                                          ELSE msgs[i - Len(queue)]
  BY <1>1, ConcatProperties
<1>3. ASSUME NEW i \in 1 .. Len(queue')
      PROVE  \/ i \in 1 .. Len(queue) /\ queue'[i] = queue[i]
             \/ /\ i > Len(queue)
                /\ i - Len(queue) \in 1 .. Len(msgs)
                /\ queue'[i] = msgs[i - Len(queue)]
  BY <1>1, <1>2
<1>4. Ahead' = Ahead /\ Ahead \in 0 .. 3 /\ Len(queue) >= Ahead
  BY DEF Ahead, ClientInv, QueueInv
<1>5. ClientView' = ClientView
  BY DEF held, ClientView
<1>6. \A d, p : VectorOf(d, p, connects, joins) =>
                   VectorOf(d, p, connects', joins')
  BY <1>1 DEF VectorOf, Descriptor
<1>7. \A m : PeerMsg(m, connects, joins) => PeerMsg(m, connects', joins')
  BY <1>6 DEF PeerMsg
<1>8. ASSUME NEW j \in 1 .. Len(msgs)
      PROVE  PeerMsg(msgs[j], connects', joins') /\ msgs[j].fd \in Descriptor
  <2>1. msgs[j] \in Message
    BY ElementOfSeq
  <2>2. msgs[j].fd \in Descriptor
    BY <2>1 DEF Message
  <2> QED BY <2>2 DEF PeerMsg, VectorOf
<1>10. ASSUME NEW i \in 1 .. Len(queue')
       PROVE  IF i <= Ahead'
                THEN queue'[i] = Opening(i + 3 - Ahead', connects')
                ELSE PeerMsg(queue'[i], connects', joins')
  <2>1. CASE i \in 1 .. Len(queue) /\ queue'[i] = queue[i]
    BY <1>1, <1>4, <1>7, <2>1 DEF ClientInv, QueueInv
  <2>2. CASE /\ i > Len(queue)
             /\ i - Len(queue) \in 1 .. Len(msgs)
             /\ queue'[i] = msgs[i - Len(queue)]
    BY <1>1, <1>4, <1>8, <2>2
  <2> QED BY <1>3, <2>1, <2>2
<1>11. ASSUME NEW i \in 1 .. Len(queue'), NEW j \in 1 .. Len(queue'),
              Ahead' < i, i < j, queue'[i].fd # NoFd
       PROVE  queue'[i].fd # queue'[j].fd
  <2>1. CASE j <= Len(queue)
    BY <1>1, <1>3, <1>4, <1>11, <2>1 DEF ClientInv, QueueInv
  <2>2. CASE i > Len(queue)
    <3>1. /\ i - Len(queue) \in 1 .. Len(msgs)
          /\ j - Len(queue) \in 1 .. Len(msgs)
          /\ i - Len(queue) < j - Len(queue)
          /\ queue'[i] = msgs[i - Len(queue)]
          /\ queue'[j] = msgs[j - Len(queue)]
      BY <1>1, <1>3, <1>11, <2>2
    <3> QED BY <1>11, <3>1
  <2>3. CASE i <= Len(queue) /\ j > Len(queue)
    <3>1. i \in 1 .. Len(queue) /\ queue'[i] = queue[i]
      BY <1>1, <1>3, <2>3
    <3>2. queue[i].fd \in Descriptor /\ queue[i].fd.gen <= joins
      BY <3>1, KnownGens
    <3>3. /\ j - Len(queue) \in 1 .. Len(msgs)
          /\ queue'[j] = msgs[j - Len(queue)]
      BY <1>1, <1>3, <2>3
    <3>4. queue'[j].fd = NoFd \/ queue'[j].fd.gen > joins
      BY <3>3
    <3>5. queue'[j].fd \in Descriptor
      BY <1>8, <3>3
    <3>6. queue'[j].fd.gen \in Nat
      BY <3>5 DEF Descriptor
    <3> QED BY <1>1, <1>11, <3>1, <3>2, <3>4, <3>6
  <2> QED BY <1>1, <1>2, <2>1, <2>2, <2>3
<1>12. QueueInv'
  BY <1>1, <1>2, <1>4, <1>10, <1>11 DEF QueueInv
<1>13. ASSUME NEW p \in Everyone, NEW k \in 1 .. Len(ClientView[p]),
              NEW i \in 1 .. Len(queue')
       PROVE  queue'[i].fd # ClientView[p][k]
  <2>1. CASE i \in 1 .. Len(queue) /\ queue'[i] = queue[i]
    BY <2>1 DEF ClientInv, VectorsInv
  <2>2. CASE /\ i - Len(queue) \in 1 .. Len(msgs)
             /\ queue'[i] = msgs[i - Len(queue)]
    <3>1. ClientView[p][k] # NoFd /\ ClientView[p][k].gen <= joins
      BY KnownGens
    <3>2. queue'[i].fd = NoFd \/ queue'[i].fd.gen > joins
      BY <2>2
    <3>3. queue'[i].fd \in Descriptor /\ ClientView[p][k] \in Descriptor
      BY <1>8, <2>2 DEF ClientInv, VectorsInv, VectorOf
    <3> DEFINE d == queue'[i].fd
               e == ClientView[p][k]
    <3>4. d.gen \in Nat /\ e.gen \in Nat /\ joins \in Nat
      BY <1>1, <3>3 DEF Descriptor
    <3> HIDE DEF d, e
    <3>5. CASE d = NoFd
      BY <3>1, <3>5 DEF d, e
    <3>6. CASE d.gen > joins
      <4>1. e.gen <= joins
        BY <3>1 DEF e
      <4>2. d.gen # e.gen
        BY <3>4, <3>6, <4>1
      <4> QED BY <4>2 DEF d, e
    <3> QED BY <3>2, <3>5, <3>6 DEF d
  <2> QED BY <1>3, <2>1, <2>2
<1>14. VectorsInv'
  BY <1>5, <1>6, <1>13 DEF ClientInv, VectorsInv
<1> QED BY <1>2, <1>12, <1>14

LEMMA StartsStep ==
  ASSUME ClientInv, ServerStarts
  PROVE  ClientInv'
<1> USE DEF ServerStarts
<1>1. /\ s_peers \in [Others -> 0 .. MaxJoins]
      /\ conn \in {"none", "live", "eof"}
      /\ queue \in Seq(Message) /\ joins \in 0 .. MaxJoins
  BY DEF ClientInv, DoorbellTypeOK, RecordsOK
<1>2. DoorbellTypeOK' /\ RecordsOK' /\ OpenInv' /\ ClientView' = ClientView
  BY <1>1, RecordsKept
<1>3. ConnectionInv'
  BY DEF held, ClientInv, ConnectionInv, Listening
<1>4. ServerInv'
  BY DEF ClientInv, ServerInv
<1>5. QueueInv'
  BY DEF ClientInv, QueueInv, Ahead
<1>6. VectorsInv'
  BY <1>2 DEF ClientInv, VectorsInv
<1> QED BY <1>2, <1>3, <1>4, <1>5, <1>6 DEF ClientInv

LEMMA StopsStep ==
  ASSUME ClientInv, ServerStops
  PROVE  ClientInv'
<1> USE DEF ServerStops
<1>1. queue \in Seq(Message) /\ joins \in 0 .. MaxJoins /\ Len(queue) \in Nat
  BY LenProperties DEF ClientInv, RecordsOK
<1>2. \E k \in 0 .. Len(queue) : queue' = SubSeq(queue, 1, k)
  <2>1. SubSeq(queue, 1, Len(queue)) = queue
    BY <1>1, SubSeqFull
  <2> QED BY <1>1, <2>1
<1>3. PICK k \in 0 .. Len(queue) : queue' = SubSeq(queue, 1, k)
  BY <1>2
<1>4. \A i \in 1 .. k : queue[i] \in Message
  BY <1>1, ElementOfSeq
<1>5. /\ queue' \in Seq(Message)
      /\ Len(queue') = k
      /\ \A i \in 1 .. k : queue'[i] = queue[i]
  <2>1. /\ SubSeq(queue, 1, k) \in Seq(Message)
        /\ Len(SubSeq(queue, 1, k)) = IF 1 <= k THEN k - 1 + 1 ELSE 0
        /\ \A i \in 1 .. k - 1 + 1 : SubSeq(queue, 1, k)[i] = queue[1 + i - 1]
    BY <1>1, <1>4, SubSeqProperties
  <2> QED BY <1>1, <1>3, <2>1
<1>6. /\ up' \in BOOLEAN /\ s_peers' = [p \in Others |-> 0]
      /\ conn' = IF conn = "live" THEN "eof" ELSE conn
  OBVIOUS
<1>7. s_peers' \in [Others -> 0 .. MaxJoins]
  BY <1>6, ClientAssumption
<1>8. conn' \in {"none", "live", "eof"} /\ n_vectors' \in VectorCounts \cup {0}
  BY DEF ClientInv, DoorbellTypeOK
<1>9. DoorbellTypeOK' /\ RecordsOK' /\ OpenInv' /\ ClientView' = ClientView
  BY <1>1, <1>5, <1>6, <1>7, <1>8, RecordsKept
<1>10. ConnectionInv'
  <2>1. pc = "connect" => queue' = <<>>
    BY <1>1, <1>5 DEF ClientInv, ConnectionInv
  <2> QED BY <1>6, <2>1 DEF held, ClientInv, ConnectionInv, Listening
<1>11. ServerInv'
  BY <1>1, <1>6 DEF ClientInv, ServerInv
<1>12. QueueInv'
  <2>1. Ahead' = Ahead /\ connects' = connects /\ joins' = joins
    BY DEF Ahead
  <2>2. \A i \in 1 .. k : i \in 1 .. Len(queue)
    BY <1>1
  <2> QED BY <1>5, <1>6, <2>1, <2>2 DEF ClientInv, QueueInv
<1>13. VectorsInv'
  <2>1. \A i \in 1 .. k : i \in 1 .. Len(queue)
    BY <1>1
  <2> QED BY <1>5, <1>9, <2>1 DEF ClientInv, VectorsInv
<1> QED BY <1>9, <1>10, <1>11, <1>12, <1>13 DEF ClientInv

LEMMA JoinsStep ==
  ASSUME ClientInv, NEW p \in Others, PeerJoins(p)
  PROVE  ClientInv'
<1> USE DEF PeerJoins
<1>1. /\ queue \in Seq(Message) /\ joins \in Nat /\ connects \in Nat
      /\ joins' = joins + 1 /\ joins' \in 0 .. MaxJoins /\ p \in Nat /\ p # Me
  BY ClientAssumption DEF ClientInv, RecordsOK
<1>2. s_peers' \in [Others -> 0 .. MaxJoins]
  BY <1>1 DEF ClientInv, DoorbellTypeOK
<1>3. n_vectors \in VectorCounts \cup {0} /\ n_vectors \in Nat
  BY ClientAssumption DEF ClientInv, DoorbellTypeOK
<1>4. queue' \in Seq(Message) /\ QueueInv' /\ VectorsInv'
  <2>1. CASE conn = "live"
    <3> DEFINE msgs == Vectors(connects, p, joins + 1, n_vectors)
    <3>1. queue' = queue \o msgs
      BY <2>1 DEF Tell
    <3>2. msgs = [i \in 1 .. n_vectors |->
                    [index |-> p,
                     fd |-> [session |-> connects, of |-> p, gen |-> joins + 1,
                             vector |-> i - 1]]]
      BY DEF Vectors, Fd
    <3> HIDE DEF msgs
    <3>3. msgs \in Seq(Message) /\ Len(msgs) = n_vectors
      BY <1>1, <1>3, <3>2 DEF Message, Descriptor
    <3>4. /\ \A i \in 1 .. Len(msgs) :
               /\ msgs[i].index \in Everyone
               /\ msgs[i].fd.session = connects
               /\ msgs[i].fd.of = msgs[i].index
               /\ msgs[i].fd.gen <= joins'
               /\ msgs[i].fd.gen > joins
          /\ \A i, j \in 1 .. Len(msgs) : i < j => msgs[i].fd # msgs[j].fd
      <4>1. ASSUME NEW i \in 1 .. Len(msgs)
            PROVE  /\ msgs[i].index = p
                   /\ msgs[i].fd.session = connects
                   /\ msgs[i].fd.of = p
                   /\ msgs[i].fd.gen = joins + 1
                   /\ msgs[i].fd.vector = i - 1
        BY <3>2, <3>3
      <4>2. ASSUME NEW i \in 1 .. Len(msgs), NEW j \in 1 .. Len(msgs), i < j
            PROVE  msgs[i].fd # msgs[j].fd
        <5>1. i \in Nat /\ j \in Nat /\ i - 1 # j - 1
          BY <1>3, <3>3, <4>2
        <5> QED BY <4>1, <5>1
      <4>3. joins + 1 <= joins' /\ joins + 1 > joins /\ p \in Everyone
        BY <1>1 DEF Everyone
      <4> QED BY <4>1, <4>2, <4>3
    <3>5. joins' \in Nat /\ joins <= joins'
      BY <1>1
    <3> QED BY <2>1, <3>1, <3>3, <3>4, <3>5, TellStep
  <2>2. CASE conn # "live"
    <3>1. queue' = queue
      BY <2>2 DEF Tell
    <3>2. pc' = pc /\ connects' = connects /\ Ahead' = Ahead
      BY DEF Ahead
    <3>3. ClientView' = ClientView
      BY DEF held, ClientView
    <3>4. \A d, q : VectorOf(d, q, connects, joins) =>
                      VectorOf(d, q, connects, joins')
      BY <1>1 DEF VectorOf, Descriptor
    <3>5. \A m : PeerMsg(m, connects, joins) => PeerMsg(m, connects, joins')
      BY <3>4 DEF PeerMsg
    <3>6. QueueInv'
      BY <2>2, <3>1, <3>2, <3>5 DEF ClientInv, QueueInv
    <3>7. VectorsInv'
      BY <3>1, <3>2, <3>3, <3>4 DEF ClientInv, VectorsInv
    <3> QED BY <1>1, <3>1, <3>6, <3>7
  <2> QED BY <2>1, <2>2
<1>5. DoorbellTypeOK' /\ RecordsOK' /\ OpenInv'
  <2>1. up' \in BOOLEAN /\ conn' \in {"none", "live", "eof"}
    BY DEF ClientInv, DoorbellTypeOK
  <2> QED BY <1>1, <1>2, <1>3, <1>4, <2>1, RecordsKept
<1>6. ConnectionInv'
  <2>1. pc = "connect" => queue' = queue
    BY DEF Tell, ClientInv, ConnectionInv
  <2> QED BY <2>1 DEF held, ClientInv, ConnectionInv, Listening
<1>7. ServerInv'
  BY <1>1 DEF ClientInv, ServerInv, DoorbellTypeOK
<1> QED BY <1>4, <1>5, <1>6, <1>7 DEF ClientInv

LEMMA LeavesStep ==
  ASSUME ClientInv, NEW p \in Others, PeerLeaves(p)
  PROVE  ClientInv'
<1> USE DEF PeerLeaves
<1>1. /\ queue \in Seq(Message) /\ joins \in 0 .. MaxJoins /\ joins' = joins
      /\ p \in Int /\ joins \in Nat
  BY ClientAssumption DEF ClientInv, RecordsOK
<1>2. s_peers' \in [Others -> 0 .. MaxJoins]
  <2>1. 0 \in 0 .. MaxJoins
    BY ClientAssumption
  <2> QED BY <2>1 DEF ClientInv, DoorbellTypeOK
<1>3. queue' \in Seq(Message) /\ QueueInv' /\ VectorsInv'
  <2>1. CASE conn = "live"
    <3> DEFINE msgs == <<[index |-> p, fd |-> NoFd]>>
    <3>1. queue' = queue \o msgs
      BY <2>1 DEF Tell
    <3>2. [index |-> p, fd |-> NoFd] \in Message
      BY <1>1 DEF Message, Descriptor, NoFd, Fd
    <3>3. /\ msgs \in Seq(Message) /\ Len(msgs) = 1
          /\ \A i \in 1 .. Len(msgs) : msgs[i].fd = NoFd /\ msgs[i].index = p
      BY <3>2
    <3> HIDE DEF msgs
    <3>4. joins' \in Nat /\ joins <= joins'
      BY <1>1
    <3>5. \A i, j \in 1 .. Len(msgs) : ~(i < j)
      BY <3>3
    <3> QED BY <2>1, <3>1, <3>3, <3>4, <3>5, TellStep
  <2>2. CASE conn # "live"
    <3>1. queue' = queue
      BY <2>2 DEF Tell
    <3>2. pc' = pc /\ connects' = connects /\ Ahead' = Ahead
      BY DEF Ahead
    <3>3. ClientView' = ClientView
      BY DEF held, ClientView
    <3>4. QueueInv'
      BY <1>1, <2>2, <3>1, <3>2 DEF ClientInv, QueueInv
    <3>5. VectorsInv'
      BY <1>1, <3>1, <3>2, <3>3 DEF ClientInv, VectorsInv
    <3> QED BY <1>1, <3>1, <3>4, <3>5
  <2> QED BY <2>1, <2>2
<1>4. DoorbellTypeOK' /\ RecordsOK' /\ OpenInv'
  <2>1. /\ up' \in BOOLEAN /\ conn' \in {"none", "live", "eof"}
        /\ n_vectors' \in VectorCounts \cup {0}
    BY DEF ClientInv, DoorbellTypeOK
  <2> QED BY <1>1, <1>2, <1>3, <2>1, RecordsKept
<1>5. ConnectionInv'
  <2>1. pc = "connect" => queue' = queue
    BY DEF Tell, ClientInv, ConnectionInv
  <2> QED BY <2>1 DEF held, ClientInv, ConnectionInv, Listening
<1>6. ServerInv'
  BY <1>1 DEF ClientInv, ServerInv, DoorbellTypeOK
<1> QED BY <1>3, <1>4, <1>5, <1>6 DEF ClientInv

-----------------------------------------------------------------------------
(* The client's steps.                                                     *)

LEMMA ConnectStep ==
  ASSUME ClientInv, Connect
  PROVE  ClientInv'
<1> USE DEF Connect
<1> DEFINE s == connects + 1
           g == Greeting(s)
           a == Announcement(s)
<1>1. /\ connects \in Nat /\ s \in Nat /\ connects' = s
      /\ s \in 0 .. MaxConnects
      /\ joins \in 0 .. MaxJoins /\ joins' = joins /\ joins \in Nat
  BY ClientAssumption DEF server, ClientInv, RecordsOK
<1>2. s_peers \in [Others -> Nat] /\ n_vectors \in Nat
  BY ClientAssumption DEF ClientInv, DoorbellTypeOK
<1>3. /\ Announces(a, s, Everyone)
      /\ g \in Seq(Message)
      /\ Len(g) = 3 + Len(a)
      /\ g[1] = [index |-> 0, fd |-> NoFd]
      /\ g[2] = [index |-> Me, fd |-> NoFd]
      /\ g[3] = [index |-> -1, fd |-> Fd(s, SHM, 0, 0)]
      /\ \A i \in 1 .. Len(a) : g[3 + i] = a[i]
  BY <1>1, <1>2, GreetingHolds
<1>4. queue' = g
  BY <1>1
<1> HIDE DEF g, a
<1>5. Len(a) \in Nat /\ a \in Seq(Message)
  BY <1>3, LenProperties DEF Announces
<1>6. /\ pc = "connect" /\ pc' = "version" /\ Ahead' = 3
      /\ ~Listening /\ ~Listening' /\ conn' = "live"
      /\ local_vectors = <<>> /\ DOMAIN peer_list = {} /\ rung = {}
      /\ local_vectors' = <<>> /\ peer_list' = peer_list /\ rung' = {}
  BY DEF Ahead, Listening, ClientInv, ConnectionInv
<1>7. ClientView' = ClientView /\ \A p \in Everyone : ClientView[p] = <<>>
  BY <1>6 DEF ClientView, Everyone
<1>8. sock_fd' = Fd(s, SOCK, 0, 0) /\ shm_fd' = NoFd /\ shm_fd = NoFd
  BY <1>1, <1>6 DEF ClientInv, ConnectionInv
<1>9. Fd(s, SOCK, 0, 0) \in Descriptor /\ Fd(s, SOCK, 0, 0) # NoFd
  BY <1>1 DEF Fd, NoFd, Descriptor, SOCK
<1>10. DoorbellTypeOK'
  <2>1. \A d \in open' : DescriptorOK(d)
    <3>1. DescriptorOK(Fd(s, SOCK, 0, 0))
      BY <1>1, ClientAssumption DEF DescriptorOK, Fd, SOCK
    <3> QED BY <1>8, <3>1 DEF ClientInv, DoorbellTypeOK
  <2> QED BY <1>6, <1>7, <2>1 DEF server, ClientInv, DoorbellTypeOK
<1>11. RecordsOK'
  BY <1>1, <1>3, <1>4, <1>6, <1>8, <1>9 DEF ClientInv, RecordsOK
<1>12. ConnectionInv'
  BY <1>1, <1>6, <1>8 DEF ConnectionInv, Listening
<1>13. ServerInv'
  BY <1>6 DEF server, ClientInv, ServerInv
<1>14. \A i \in 1 .. Len(a) : PeerMsg(a[i], s, joins)
  <2> SUFFICES ASSUME NEW i \in 1 .. Len(a) PROVE PeerMsg(a[i], s, joins)
    OBVIOUS
  <2>1. a[i] \in Message
    BY <1>5, ElementOfSeq
  <2>2. Gen(a[i].index) <= joins
    <3>1. a[i].index \in Others \cup {Me}
      BY <1>3 DEF Announces, Everyone
    <3>2. \A p \in Others : s_peers[p] <= joins
      BY DEF ClientInv, ServerInv
    <3> QED BY <1>1, <3>1, <3>2 DEF Gen
  <2> QED BY <1>3, <2>1, <2>2 DEF Announces, PeerMsg, VectorOf, Message
<1>15. QueueInv'
  <2>1. ASSUME NEW i \in 1 .. Len(g)
        PROVE  \/ i \in 1 .. 3
               \/ i - 3 \in 1 .. Len(a) /\ g[i] = a[i - 3] /\ i > 3
    <3>1. i > 3 => i - 3 \in 1 .. Len(a) /\ 3 + (i - 3) = i
      BY <1>3, <1>5
    <3> QED BY <1>3, <3>1
  <2>2. ASSUME NEW i \in 1 .. Len(g)
        PROVE  IF i <= 3 THEN g[i] = Opening(i, s) ELSE PeerMsg(g[i], s, joins)
    BY <1>3, <1>14, <2>1 DEF Opening
  <2>3. ASSUME NEW i \in 1 .. Len(g), NEW j \in 1 .. Len(g), 3 < i, i < j
        PROVE  g[i].fd # g[j].fd
    <3>1. /\ i - 3 \in 1 .. Len(a) /\ g[i] = a[i - 3]
          /\ j - 3 \in 1 .. Len(a) /\ g[j] = a[j - 3]
          /\ i - 3 < j - 3
      BY <1>3, <1>5, <2>1, <2>3
    <3> QED BY <1>3, <3>1 DEF Announces
  <2>4. \A i \in 1 .. Len(g) : i + 3 - 3 = i
    BY <1>3, <1>5
  <2> QED BY <1>1, <1>3, <1>4, <1>5, <1>6, <2>2, <2>3, <2>4 DEF QueueInv
<1>16. VectorsInv'
  BY <1>7 DEF VectorsInv
<1>17. Held = {}
  <2>1. sock_fd = NoFd
    BY <1>6 DEF ClientInv, ConnectionInv
  <2> QED BY <1>7, <1>8, <2>1, HeldIs DEF HeldInView, ClientInv, DoorbellTypeOK
<1>18. Held' = {Fd(s, SOCK, 0, 0)}
  <2>1. DOMAIN peer_list' = {} /\ local_vectors' = <<>>
    BY <1>6
  <2> QED BY <1>8, <1>9, <2>1 DEF Held, fds
<1>19. OpenInv'
  <2>1. open' = open \cup {Fd(s, SOCK, 0, 0)} /\ open \subseteq Descriptor
    BY <1>8 DEF ClientInv, RecordsOK
  <2>2. \A d \in open : d.session <= connects /\ d.session \in Nat
    BY <2>1 DEF ClientInv, OpenInv, Descriptor
  <2>3. \A d \in open : d.session < s
    BY <1>1, <2>2
  <2>4. Fd(s, SOCK, 0, 0).session = s
    BY DEF Fd
  <2>5. OneLostPerConnection'
    BY <1>1, <1>17, <1>18, <2>1, <2>3
    DEF ClientInv, OpenInv, OneLostPerConnection
  <2> QED BY <1>1, <1>6, <1>18, <2>1, <2>2, <2>3, <2>4, <2>5 DEF OpenInv
<1> QED BY <1>10, <1>11, <1>12, <1>13, <1>15, <1>16, <1>19 DEF ClientInv

\* A message is read.
LEMMA TailStep ==
  ASSUME ClientInv, HasMsg, queue' = Tail(queue), Ahead' \in Nat,
         UNCHANGED <<conn, connects, joins>>,
         Ahead' = IF Ahead = 0 THEN 0 ELSE Ahead - 1
  PROVE  /\ queue' \in Seq(Message)
         /\ Len(queue') = Len(queue) - 1
         /\ \A i \in 1 .. Len(queue') :
              queue'[i] = queue[i + 1] /\ i + 1 \in 1 .. Len(queue)
         /\ queue[1] = msg /\ msg \in Message /\ 1 \in 1 .. Len(queue)
         /\ QueueInv'
<1>1. queue \in Seq(Message) /\ queue # <<>> /\ Len(queue) \in Nat
  BY LenProperties DEF ClientInv, RecordsOK, HasMsg
<1>2. /\ Head(queue) \in Message
      /\ Tail(queue) \in Seq(Message)
      /\ Len(Tail(queue)) = Len(queue) - 1
      /\ \A i \in 1 .. Len(Tail(queue)) : Tail(queue)[i] = queue[i + 1]
  BY <1>1, HeadTailProperties
<1>3. Len(queue) # 0 /\ Head(queue) = queue[1]
  BY <1>1, EmptySeq
<1>4. \A i \in 1 .. Len(queue') :
        queue'[i] = queue[i + 1] /\ i + 1 \in 1 .. Len(queue)
  BY <1>1, <1>2, <1>3
<1>5. QueueInv'
  <2>1. Ahead \in 0 .. 3
    BY DEF Ahead
  <2>2. ASSUME NEW i \in 1 .. Len(queue')
        PROVE  IF i <= Ahead'
                 THEN queue'[i] = Opening(i + 3 - Ahead', connects')
                 ELSE PeerMsg(queue'[i], connects', joins')
    <3>1. IF i + 1 <= Ahead
            THEN queue[i + 1] = Opening((i + 1) + 3 - Ahead, connects)
            ELSE PeerMsg(queue[i + 1], connects, joins)
      BY <1>4 DEF ClientInv, QueueInv
    <3>2. i \in Nat /\ i > 0
      OBVIOUS
    <3>3. i <= Ahead' <=> i + 1 <= Ahead
      BY <2>1, <3>2
    <3>4. i <= Ahead' => (i + 1) + 3 - Ahead = i + 3 - Ahead'
      BY <2>1, <3>2
    <3> QED BY <1>4, <3>1, <3>3, <3>4
  <2>3. ASSUME NEW i \in 1 .. Len(queue'), NEW j \in 1 .. Len(queue'),
               Ahead' < i, i < j, queue'[i].fd # NoFd
        PROVE  queue'[i].fd # queue'[j].fd
    <3>1. Ahead < i + 1 /\ i + 1 < j + 1
      BY <2>1, <2>3
    <3> QED BY <1>4, <2>3, <3>1 DEF ClientInv, QueueInv
  <2>4. conn' = "live" => Len(queue') >= Ahead'
    BY <1>1, <1>2, <1>3, <2>1 DEF ClientInv, QueueInv
  <2> QED BY <2>2, <2>3, <2>4 DEF QueueInv
<1> QED BY <1>1, <1>2, <1>3, <1>4, <1>5 DEF msg

LEMMA ReadVersionStep ==
  ASSUME ClientInv, ReadVersion
  PROVE  ClientInv'
<1> USE DEF ReadVersion
<1>1. Ahead = 3 /\ Ahead' = 2 /\ ~Listening /\ ~Listening'
  BY DEF Ahead, Listening
<1>2. UNCHANGED <<conn, connects, joins>>
  BY DEF server
<1>3. /\ queue' \in Seq(Message) /\ QueueInv'
      /\ \A i \in 1 .. Len(queue') :
           queue'[i] = queue[i + 1] /\ i + 1 \in 1 .. Len(queue)
  BY <1>1, <1>2, TailStep
<1>4. ClientView' = ClientView /\ Held' = Held
  BY DEF held, ClientView, Held
<1>5. DoorbellTypeOK'
  BY <1>4 DEF server, held, ClientInv, DoorbellTypeOK
<1>6. RecordsOK'
  BY <1>3 DEF server, held, ClientInv, RecordsOK
<1>7. ConnectionInv'
  BY <1>1 DEF held, ClientInv, ConnectionInv
<1>8. ServerInv'
  BY DEF server, ClientInv, ServerInv
<1>9. VectorsInv'
  BY <1>2, <1>3, <1>4 DEF ClientInv, VectorsInv
<1>10. OpenInv'
  BY <1>4 DEF ClientInv, OpenInv, OneLostPerConnection
<1> QED BY <1>3, <1>5, <1>6, <1>7, <1>8, <1>9, <1>10 DEF ClientInv

LEMMA ReadIdStep ==
  ASSUME ClientInv, ReadId
  PROVE  ClientInv'
<1> USE DEF ReadId
<1>1. Ahead = 2 /\ Ahead' = 1 /\ ~Listening /\ ~Listening'
  BY DEF Ahead, Listening
<1>2. UNCHANGED <<conn, connects, joins>>
  BY DEF server
<1>3. /\ queue' \in Seq(Message) /\ QueueInv'
      /\ \A i \in 1 .. Len(queue') :
           queue'[i] = queue[i + 1] /\ i + 1 \in 1 .. Len(queue)
      /\ queue[1] = msg /\ 1 \in 1 .. Len(queue)
  BY <1>1, <1>2, TailStep
<1>4. ClientView' = ClientView /\ Held' = Held
  BY DEF ClientView, Held
<1>5. local_id' = Me
  <2>1. queue[1] = Opening(1 + 3 - 2, connects)
    BY <1>1, <1>3 DEF ClientInv, QueueInv
  <2> QED BY <1>3, <2>1 DEF Opening
<1>6. DoorbellTypeOK'
  BY <1>4, <1>5 DEF server, ClientInv, DoorbellTypeOK
<1>7. RecordsOK'
  BY <1>3 DEF server, ClientInv, RecordsOK
<1>8. ConnectionInv'
  BY <1>1, <1>5 DEF ClientInv, ConnectionInv
<1>9. ServerInv'
  BY DEF server, ClientInv, ServerInv
<1>10. VectorsInv'
  BY <1>2, <1>3, <1>4 DEF ClientInv, VectorsInv
<1>11. OpenInv'
  BY <1>4 DEF ClientInv, OpenInv, OneLostPerConnection
<1> QED BY <1>3, <1>6, <1>7, <1>8, <1>9, <1>10, <1>11 DEF ClientInv

LEMMA ReadShmStep ==
  ASSUME ClientInv, ReadShm
  PROVE  ClientInv'
<1> USE DEF ReadShm
<1>1. Ahead = 1 /\ Ahead' = 0 /\ ~Listening /\ Listening'
  BY DEF Ahead, Listening
<1>2. UNCHANGED <<conn, connects, joins>>
  BY DEF server
<1>3. /\ queue' \in Seq(Message) /\ QueueInv'
      /\ \A i \in 1 .. Len(queue') :
           queue'[i] = queue[i + 1] /\ i + 1 \in 1 .. Len(queue)
      /\ queue[1] = msg /\ 1 \in 1 .. Len(queue)
  BY <1>1, <1>2, TailStep
<1>4. ClientView' = ClientView
  BY DEF ClientView
<1> DEFINE d == Fd(connects, SHM, 0, 0)
<1>5. msg.fd = d
  <2>1. queue[1] = Opening(1 + 3 - 1, connects)
    BY <1>1, <1>3 DEF ClientInv, QueueInv
  <2> QED BY <1>3, <2>1 DEF Opening
<1>6. connects \in Nat /\ connects > 0 /\ connects \in 0 .. MaxConnects
  BY ClientAssumption DEF ClientInv, RecordsOK, ConnectionInv
<1>7. /\ d \in Descriptor /\ d # NoFd /\ DescriptorOK(d)
      /\ d.session = connects
  BY <1>6, ClientAssumption DEF Descriptor, DescriptorOK, Fd, NoFd, SHM
<1> HIDE DEF d
<1>8. DoorbellTypeOK'
  BY <1>4, <1>5, <1>7 DEF server, ClientInv, DoorbellTypeOK
<1>9. RecordsOK'
  BY <1>3, <1>5, <1>7 DEF server, ClientInv, RecordsOK
<1>10. ConnectionInv'
  BY <1>1, <1>5 DEF ClientInv, ConnectionInv, d
<1>11. ServerInv'
  BY DEF server, ClientInv, ServerInv
<1>12. VectorsInv'
  BY <1>2, <1>3, <1>4 DEF ClientInv, VectorsInv
<1>13. Held' = Held \cup {d}
  <2>1. shm_fd = NoFd
    BY <1>1 DEF ClientInv, ConnectionInv
  <2> QED BY <1>5, <1>7, <2>1 DEF Held
<1>14. OpenInv'
  <2>1. OneLostPerConnection'
    BY <1>5, <1>13 DEF ClientInv, OpenInv, OneLostPerConnection
  <2> QED BY <1>2, <1>5, <1>6, <1>7, <1>13, <2>1 DEF ClientInv, OpenInv
<1> QED BY <1>3, <1>8, <1>9, <1>10, <1>11, <1>12, <1>14 DEF ClientInv

LEMMA ConnectFailsStep ==
  ASSUME ClientInv, ConnectFails
  PROVE  ClientInv'
<1> USE DEF ConnectFails
<1>1. /\ ~Listening /\ ~Listening' /\ pc # "connect" /\ queue = <<>>
      /\ Ahead' = 0
  BY DEF Listening, Lost, Ahead
<1>2. ClientView' = ClientView /\ \A p \in Everyone : ClientView[p] = <<>>
  <2>1. local_vectors = <<>> /\ DOMAIN peer_list = {}
    BY <1>1 DEF ClientInv, ConnectionInv
  <2> QED BY <2>1 DEF ClientView, Everyone
<1>3. shm_fd = NoFd /\ sock_fd = Fd(connects, SOCK, 0, 0) /\ rung = {}
  BY <1>1 DEF ClientInv, ConnectionInv
<1>4. Held \subseteq {sock_fd}
  BY <1>2, <1>3, HeldIs DEF HeldInView, ClientInv, DoorbellTypeOK
<1>5. Held' = {}
  <2>1. RecordsOK' /\ DOMAIN peer_list' \subseteq Others
    BY DEF server, ClientInv, RecordsOK, DoorbellTypeOK
  <2>2. \A x : x \in Held' => x # NoFd /\ x \in {sock_fd', shm_fd'}
    <3>1. DOMAIN peer_list' = {} /\ local_vectors' = <<>>
      BY <1>1 DEF ClientInv, ConnectionInv
    <3> QED BY <3>1 DEF Held, fds
  <2> QED BY <1>3, <2>2
<1>6. DoorbellTypeOK'
  BY <1>2 DEF server, ClientInv, DoorbellTypeOK
<1>7. RecordsOK'
  BY DEF server, ClientInv, RecordsOK
<1>8. ConnectionInv'
  BY <1>1, <1>3 DEF ClientInv, ConnectionInv
<1>9. ServerInv'
  BY DEF server, ClientInv, ServerInv
<1>10. QueueInv' /\ VectorsInv'
  BY <1>1, <1>2 DEF QueueInv, VectorsInv
<1>11. OpenInv'
  <2>1. open' \ Held' \subseteq open \ Held /\ open' \subseteq open
    BY <1>4, <1>5
  <2>2. OneLostPerConnection'
    BY <2>1 DEF ClientInv, OpenInv, OneLostPerConnection
  <2> QED BY <1>3, <1>5, <2>1, <2>2 DEF ClientInv, OpenInv
<1> QED BY <1>6, <1>7, <1>8, <1>9, <1>10, <1>11 DEF ClientInv

\* Steps of the loop that neither read a message nor touch a record.
LEMMA LoopStep ==
  ASSUME ClientInv, UNCHANGED <<server, conn, queue, held, open, connects>>,
         pc = pc' \/ (Listening /\ Listening'), rung' \subseteq open,
         ~Listening => rung' = {}
  PROVE  ClientInv'
<1>1. /\ Ahead' = Ahead /\ Listening' = Listening
      /\ pc' = "connect" <=> pc = "connect"
      /\ pc' = "shm" <=> pc = "shm"
  BY DEF Ahead, Listening
<1>2. /\ pc' \in {"connect", "version", "id", "shm", "select", "stdin",
                  "server", "events"}
  BY DEF Listening, ClientInv, DoorbellTypeOK
<1>3. ClientView' = ClientView /\ Held' = Held
  BY DEF held, ClientView, Held
<1>4. DoorbellTypeOK'
  BY <1>2, <1>3 DEF server, held, ClientInv, DoorbellTypeOK
<1>5. RecordsOK'
  BY DEF server, held, ClientInv, RecordsOK
<1>6. ConnectionInv'
  BY <1>1 DEF server, held, ClientInv, ConnectionInv
<1>7. ServerInv'
  BY DEF server, ClientInv, ServerInv
<1>8. QueueInv'
  BY <1>1 DEF server, ClientInv, QueueInv
<1>9. VectorsInv'
  BY <1>3 DEF server, ClientInv, VectorsInv
<1>10. OpenInv'
  BY <1>1, <1>3 DEF ClientInv, OpenInv, OneLostPerConnection
<1> QED BY <1>4, <1>5, <1>6, <1>7, <1>8, <1>9, <1>10 DEF ClientInv

\* the record a message or a command finds is the one of that id
LEMMA SearchIsView ==
  ASSUME ClientInv, Listening, NEW id \in Everyone
  PROVE  ivshmem_client_search_peer(id) = ClientView[id]
<1>1. local_id = Me
  BY DEF ClientInv, ConnectionInv
<1> QED BY <1>1, ClientAssumption
        DEF ivshmem_client_search_peer, ClientView, Everyone

\* A command rings descriptors the client holds.
LEMMA CommandsHeld ==
  ASSUME ClientInv, Listening
  PROVE  \A c \in Commands : c \subseteq Held
<1>1. \A p \in Everyone : \A k \in 1 .. Len(ClientView[p]) :
        ClientView[p][k] \in Held
  BY KnownGens, HeldIs DEF HeldInView, ClientInv, DoorbellTypeOK
<1>2. \A p \in Everyone : Len(ClientView[p]) \in Nat
  BY ViewType, LenProperties DEF ClientInv, DoorbellTypeOK
<1>3. ASSUME NEW p \in Everyone, NEW v \in Nat
      PROVE  ivshmem_client_notify(ClientView[p], v) \subseteq Held
  <2>1. v < Len(ClientView[p]) => v + 1 \in 1 .. Len(ClientView[p])
    BY <1>2
  <2> QED BY <1>1, <1>2, <2>1 DEF ivshmem_client_notify
<1>4. ASSUME NEW p \in Everyone
      PROVE  ivshmem_client_notify_all_vects(ClientView[p]) \subseteq Held
  <2>1. \A v \in 0 .. Len(ClientView[p]) - 1 : v \in Nat
    BY <1>2
  <2> QED BY <1>3, <2>1 DEF ivshmem_client_notify_all_vects
<1>5. \A p \in DOMAIN peer_list :
        p \in Everyone /\ peer_list[p] = ClientView[p]
  BY ClientAssumption DEF ClientInv, DoorbellTypeOK, ClientView, Everyone
<1>6. UNION {ivshmem_client_notify_all_vects(peer_list[p]) :
               p \in DOMAIN peer_list} \subseteq Held
  BY <1>4, <1>5
<1>7. \A v \in 0 .. IVSHMEM_CLIENT_MAX_VECTORS : v \in Nat
  BY ClientAssumption
<1> SUFFICES ASSUME NEW c \in Commands PROVE c \subseteq Held
  OBVIOUS
<1>8. CASE \E p \in Everyone, v \in 0 .. IVSHMEM_CLIENT_MAX_VECTORS :
             c = ivshmem_client_notify(ivshmem_client_search_peer(p), v)
  BY <1>3, <1>7, <1>8, SearchIsView
<1>9. CASE \E p \in Everyone :
             c = ivshmem_client_notify_all_vects(ivshmem_client_search_peer(p))
  BY <1>4, <1>9, SearchIsView
<1>10. CASE c = UNION {ivshmem_client_notify_all_vects(peer_list[p]) :
                         p \in DOMAIN peer_list}
  BY <1>6, <1>10
<1> QED BY <1>8, <1>9, <1>10 DEF Commands, Everyone

LEMMA QuietSteps ==
  ASSUME ClientInv,
         \/ \E v \in 0 .. n_vectors - 1 : PeerRings(v)
         \/ Select \/ HandleStdin \/ HandleEvent
  PROVE  ClientInv'
<1>1. rung \subseteq open /\ Held \subseteq open
  BY DEF ClientInv, OpenInv
<1>2. ~Listening => rung = {}
  BY DEF ClientInv, ConnectionInv
<1>3. CASE \E v \in 0 .. n_vectors - 1 : PeerRings(v)
  BY <1>1, <1>2, <1>3, LoopStep DEF PeerRings
<1>4. CASE Select
  <2>1. Listening /\ Listening'
    BY <1>4 DEF Select, Listening
  <2> QED BY <1>1, <1>2, <1>4, <2>1, LoopStep DEF Select
<1>5. CASE HandleStdin
  <2>1. Listening /\ Listening'
    BY <1>5 DEF HandleStdin, Listening
  <2>2. rung' \subseteq open
    BY <1>1, <1>5, <2>1, CommandsHeld DEF HandleStdin
  <2> QED BY <1>5, <2>1, <2>2, LoopStep DEF HandleStdin
<1>6. CASE HandleEvent
  <2>1. Listening /\ Listening'
    BY <1>6 DEF HandleEvent, Listening
  <2> QED BY <1>6, <2>1, LoopStep DEF HandleEvent
<1> QED BY <1>3, <1>4, <1>5, <1>6

\* What the handling of a message about a peer starts from.
LEMMA ServerMsg ==
  ASSUME ClientInv, pc = "server", HasMsg
  PROVE  /\ Listening /\ Ahead = 0
         /\ queue[1] = msg /\ 1 \in 1 .. Len(queue)
         /\ msg \in Message
         /\ PeerMsg(msg, connects, joins)
         /\ connects \in Nat /\ connects > 0 /\ joins \in Nat
<1>1. Listening /\ Ahead = 0
  BY DEF Listening, Ahead
<1>2. queue \in Seq(Message) /\ queue # <<>> /\ Len(queue) \in Nat
  BY LenProperties DEF ClientInv, RecordsOK, HasMsg
<1>3. 1 \in 1 .. Len(queue) /\ queue[1] = msg /\ msg \in Message
  BY <1>2, EmptySeq, HeadTailProperties DEF msg
<1>4. PeerMsg(queue[1], connects, joins)
  BY <1>1, <1>3 DEF ClientInv, QueueInv
<1> QED BY <1>1, <1>3, <1>4, ClientAssumption
        DEF ClientInv, RecordsOK, ConnectionInv

LEMMA FreePeerStep ==
  ASSUME ClientInv, FreePeer
  PROVE  ClientInv' /\ ClientView' = [ClientView EXCEPT ![msg.index] = <<>>]
<1> DEFINE q == msg.index
<1>1. /\ Listening /\ Ahead = 0 /\ connects \in Nat /\ connects > 0
  BY ServerMsg DEF FreePeer
<1>2. q \in DOMAIN peer_list /\ q \in Others /\ q \in Everyone /\ q # Me
  BY ClientAssumption DEF FreePeer, ClientInv, DoorbellTypeOK, Everyone
<1>3. Listening' /\ Ahead' = 0 /\ pc' = "events" /\ rung' = {}
  BY DEF FreePeer, Listening, Ahead
<1>4. UNCHANGED <<conn, connects, joins>>
  BY DEF FreePeer, server
<1>5. /\ queue' \in Seq(Message) /\ QueueInv'
      /\ \A i \in 1 .. Len(queue') :
           queue'[i] = queue[i + 1] /\ i + 1 \in 1 .. Len(queue)
  BY <1>1, <1>3, <1>4, TailStep DEF FreePeer
<1>6. /\ DOMAIN peer_list' = DOMAIN peer_list \ {q}
      /\ \A p \in DOMAIN peer_list \ {q} : peer_list'[p] = peer_list[p]
      /\ peer_list' \in [DOMAIN peer_list' -> Seq(Descriptor)]
  BY DEF FreePeer, ClientInv, RecordsOK
<1>7. ClientView' = [ClientView EXCEPT ![q] = <<>>]
  <2>1. local_vectors' = local_vectors
    BY DEF FreePeer
  <2>2. \A p \in Others :
          (IF p \in DOMAIN peer_list' THEN peer_list'[p] ELSE <<>>)
            = IF p = q THEN <<>>
              ELSE IF p \in DOMAIN peer_list THEN peer_list[p] ELSE <<>>
    BY <1>2, <1>6
  <2> HIDE DEF q
  <2> QED BY <1>2, <2>1, <2>2 DEF ClientView
<1>8. ClientView \in [Everyone -> Seq(Descriptor)]
  BY ViewType DEF ClientInv, DoorbellTypeOK
<1>9. \A p \in Everyone :
        ClientView'[p] = IF p = q THEN <<>> ELSE ClientView[p]
  BY <1>7, <1>8
<1>10. open' = open \ fds(ClientView[q]) /\ open' \subseteq open
  BY <1>2 DEF FreePeer, ClientView, Everyone
<1> HIDE DEF q
<1>11. DoorbellTypeOK'
  <2>1. \A p \in Everyone :
          Len(ClientView'[p]) <= IVSHMEM_CLIENT_MAX_VECTORS
    BY <1>9, ClientAssumption DEF ClientInv, DoorbellTypeOK, Everyone
  <2> QED BY <1>3, <1>6, <1>10, <2>1
          DEF FreePeer, server, ClientInv, DoorbellTypeOK, Everyone
<1>12. RecordsOK'
  BY <1>5, <1>6, <1>10 DEF FreePeer, server, ClientInv, RecordsOK
<1>13. ConnectionInv'
  BY <1>1, <1>3 DEF FreePeer, Listening, ClientInv, ConnectionInv
<1>14. ServerInv'
  BY DEF FreePeer, server, ClientInv, ServerInv
<1>15. VectorsInv'
  <2> SUFFICES ASSUME NEW p \in Everyone, NEW k \in 1 .. Len(ClientView'[p])
               PROVE  /\ VectorOf(ClientView'[p][k], p, connects', joins')
                      /\ \A l \in 1 .. Len(ClientView'[p]) :
                           k < l => ClientView'[p][k] # ClientView'[p][l]
                      /\ \A i \in 1 .. Len(queue') :
                           queue'[i].fd # ClientView'[p][k]
    BY DEF VectorsInv
  <2>1. p # q /\ ClientView'[p] = ClientView[p]
    BY <1>9
  <2>2. /\ VectorOf(ClientView[p][k], p, connects, joins)
        /\ \A l \in 1 .. Len(ClientView[p]) :
             k < l => ClientView[p][k] # ClientView[p][l]
        /\ \A i \in 1 .. Len(queue) : queue[i].fd # ClientView[p][k]
    BY <2>1 DEF ClientInv, VectorsInv
  <2>3. \A i \in 1 .. Len(queue') : queue'[i].fd # ClientView[p][k]
    BY <1>5, <2>2
  <2> QED BY <1>4, <2>1, <2>2, <2>3
<1>16. \A x : x \in fds(ClientView[q]) <=>
                \E k \in 1 .. Len(ClientView[q]) : x = ClientView[q][k]
  BY DEF fds
<1>17. \A x : x \in Held' <=> x \in Held /\ x \notin fds(ClientView[q])
  <2>1. /\ \A x : x \in Held <=>
             /\ x # NoFd
             /\ \/ x \in {sock_fd, shm_fd}
                \/ \E p \in Everyone : \E k \in 1 .. Len(ClientView[p]) :
                     x = ClientView[p][k]
    BY HeldIs DEF HeldInView, ClientInv, DoorbellTypeOK
  <2>2. /\ \A x : x \in Held' <=>
             /\ x # NoFd
             /\ \/ x \in {sock_fd', shm_fd'}
                \/ \E p \in Everyone : \E k \in 1 .. Len(ClientView'[p]) :
                     x = ClientView'[p][k]
    <3>1. RecordsOK' /\ DOMAIN peer_list' \subseteq Others
      BY <1>11, <1>12 DEF DoorbellTypeOK
    <3>2. (RecordsOK /\ DOMAIN peer_list \subseteq Others => HeldInView)'
      BY HeldIs, PTL
    <3>3. HeldInView'
      BY <3>1, <3>2
    <3> QED BY <3>3 DEF HeldInView
  <2>3. sock_fd' = sock_fd /\ shm_fd' = shm_fd
    BY DEF FreePeer
  <2>4. ASSUME NEW x, x \in fds(ClientView[q])
        PROVE  /\ x \notin {sock_fd, shm_fd}
               /\ \A p \in Everyone \ {q} : \A k \in 1 .. Len(ClientView[p]) :
                    x # ClientView[p][k]
    <3>1. x.of = q
      BY <1>2, <1>16, <2>4 DEF ClientInv, VectorsInv, VectorOf
    <3>2. /\ sock_fd.of = SOCK /\ shm_fd.of = SHM
      BY <1>1 DEF ClientInv, ConnectionInv, Listening, Fd
    <3>3. q # SOCK /\ q # SHM
      BY <1>2, ClientAssumption DEF SOCK, SHM
    <3>4. \A p \in Everyone : \A k \in 1 .. Len(ClientView[p]) :
            ClientView[p][k].of = p
      BY DEF ClientInv, VectorsInv, VectorOf
    <3> QED BY <3>1, <3>2, <3>3, <3>4
  <2>5. Len(<<>>) = 0
    OBVIOUS
  <2> QED BY <1>2, <1>9, <1>16, <2>1, <2>2, <2>3, <2>4, <2>5
<1>18. OpenInv'
  <2>1. Held \subseteq open
    BY DEF ClientInv, OpenInv
  <2>2. Held' \subseteq open' /\ open' \ Held' \subseteq open \ Held
    BY <1>10, <1>17, <2>1
  <2>3. OneLostPerConnection'
    BY <1>1, <1>3, <1>4, <2>2
    DEF Listening, ClientInv, OpenInv, OneLostPerConnection
  <2> QED BY <1>3, <1>4, <1>10, <2>2, <2>3 DEF ClientInv, OpenInv
<1> QED BY <1>5, <1>7, <1>11, <1>12, <1>13, <1>14, <1>15, <1>18
        DEF ClientInv, q

LEMMA NewVectorStep ==
  ASSUME ClientInv, NewVector
  PROVE  /\ ClientInv'
         /\ ClientView' = [ClientView EXCEPT ![msg.index] = Append(@, msg.fd)]
<1> DEFINE q == msg.index
           d == msg.fd
<1>1. /\ Listening /\ Ahead = 0 /\ connects \in Nat /\ connects > 0
      /\ joins \in Nat /\ queue[1] = msg /\ 1 \in 1 .. Len(queue)
  BY ServerMsg DEF NewVector
<1>2. q \in Everyone /\ VectorOf(d, q, connects, joins) /\ d # NoFd
  BY ServerMsg DEF NewVector, PeerMsg
<1>3. Listening' /\ Ahead' = 0 /\ pc' = "events" /\ rung' = {}
  BY DEF NewVector, Listening, Ahead
<1>4. UNCHANGED <<conn, connects, joins>>
  BY DEF NewVector, server
<1>5. /\ queue' \in Seq(Message) /\ QueueInv'
      /\ \A i \in 1 .. Len(queue') :
           queue'[i] = queue[i + 1] /\ i + 1 \in 1 .. Len(queue)
  BY <1>1, <1>3, <1>4, TailStep DEF NewVector
<1>6. ClientView \in [Everyone -> Seq(Descriptor)] /\ d \in Descriptor
  BY <1>2, ViewType DEF VectorOf, ClientInv, DoorbellTypeOK
<1>7. local_id = Me /\ ivshmem_client_search_peer(q) = ClientView[q]
  BY <1>1, <1>2, SearchIsView DEF ClientInv, ConnectionInv
<1> DEFINE new == Append(ClientView[q], d)
<1>8. /\ new \in Seq(Descriptor)
      /\ Len(ClientView[q]) \in Nat
      /\ Len(new) = Len(ClientView[q]) + 1
      /\ \A k \in 1 .. Len(ClientView[q]) : new[k] = ClientView[q][k]
      /\ new[Len(ClientView[q]) + 1] = d
  BY <1>2, <1>6, AppendProperties, LenProperties
<1>9. \/ q = Me /\ local_vectors' = new /\ peer_list' = peer_list
      \/ /\ q \in Others
         /\ local_vectors' = local_vectors
         /\ peer_list' = [p \in DOMAIN peer_list \cup {q} |->
                            IF p = q THEN new ELSE peer_list[p]]
  BY <1>2, <1>7 DEF NewVector, Everyone
<1> HIDE DEF new, q, d
<1>10. /\ DOMAIN peer_list' \subseteq Others
       /\ peer_list' \in [DOMAIN peer_list' -> Seq(Descriptor)]
       /\ local_vectors' \in Seq(Descriptor)
  BY <1>8, <1>9 DEF ClientInv, RecordsOK, DoorbellTypeOK
<1>11. ClientView' = [ClientView EXCEPT ![q] = new]
  <2>1. \A p \in Others : p # Me
    BY ClientAssumption
  <2> QED BY <1>2, <1>9, <2>1 DEF ClientView, Everyone
<1>12. \A p \in Everyone :
         ClientView'[p] = IF p = q THEN new ELSE ClientView[p]
  BY <1>6, <1>11
<1>13. open' = open \cup {d}
  BY DEF NewVector, d
<1>14. DoorbellTypeOK'
  <2>1. Len(new) <= IVSHMEM_CLIENT_MAX_VECTORS
    BY <1>7, <1>8, ClientAssumption DEF NewVector, Full, q
  <2>2. \A p \in Everyone :
          Len(ClientView'[p]) <= IVSHMEM_CLIENT_MAX_VECTORS
    BY <1>12, <2>1 DEF ClientInv, DoorbellTypeOK, Everyone
  <2>3. DescriptorOK(d)
    <3>1. connects \in 0 .. MaxConnects /\ joins \in 0 .. MaxJoins
      BY DEF ClientInv, RecordsOK
    <3>2. {MaxConnects, MaxJoins} \subseteq Nat
      BY ClientAssumption
    <3> QED BY <1>2, <3>1, <3>2
            DEF VectorOf, DescriptorOK, Descriptor, Everyone
  <2> QED BY <1>3, <1>7, <1>10, <1>13, <2>2, <2>3
          DEF NewVector, server, ClientInv, DoorbellTypeOK, Everyone
<1>15. RecordsOK'
  BY <1>5, <1>6, <1>10, <1>13 DEF NewVector, server, ClientInv, RecordsOK
<1>16. ConnectionInv'
  BY <1>1, <1>3 DEF NewVector, Listening, ClientInv, ConnectionInv
<1>17. ServerInv'
  BY DEF NewVector, server, ClientInv, ServerInv
<1>18. \A i \in 1 .. Len(queue') : queue'[i].fd # d
  <2> SUFFICES ASSUME NEW i \in 1 .. Len(queue') PROVE queue'[i].fd # d
    OBVIOUS
  <2>1. queue'[i] = queue[i + 1] /\ i + 1 \in 1 .. Len(queue) /\ 1 < i + 1
    BY <1>5
  <2>2. queue[1].fd # queue[i + 1].fd
    BY <1>1, <1>2, <2>1 DEF ClientInv, QueueInv, d
  <2> QED BY <1>1, <2>1, <2>2 DEF d
<1>19. VectorsInv'
  <2> SUFFICES ASSUME NEW p \in Everyone, NEW k \in 1 .. Len(ClientView'[p])
               PROVE  /\ VectorOf(ClientView'[p][k], p, connects', joins')
                      /\ \A l \in 1 .. Len(ClientView'[p]) :
                           k < l => ClientView'[p][k] # ClientView'[p][l]
                      /\ \A i \in 1 .. Len(queue') :
                           queue'[i].fd # ClientView'[p][k]
    BY DEF VectorsInv
  <2>1. \A r \in Everyone : \A m \in 1 .. Len(ClientView[r]) :
          /\ VectorOf(ClientView[r][m], r, connects, joins)
          /\ \A l \in 1 .. Len(ClientView[r]) :
               m < l => ClientView[r][m] # ClientView[r][l]
          /\ \A i \in 1 .. Len(queue) : queue[i].fd # ClientView[r][m]
    BY DEF ClientInv, VectorsInv
  <2>2. \A r \in Everyone : \A m \in 1 .. Len(ClientView[r]) :
          \A i \in 1 .. Len(queue') : queue'[i].fd # ClientView[r][m]
    BY <1>5, <2>1
  <2>3. \A r \in Everyone : \A m \in 1 .. Len(ClientView[r]) :
          ClientView[r][m] # d
    BY <1>1, <2>1 DEF d
  <2>4. CASE p # q
    <3>1. ClientView'[p] = ClientView[p]
      BY <1>12, <2>4
    <3> QED BY <1>4, <2>1, <2>2, <3>1
  <2>5. CASE p = q
    <3>1. ClientView'[p] = new
      BY <1>12, <2>5
    <3>2. k \in 1 .. Len(ClientView[q]) \/ k = Len(ClientView[q]) + 1
      BY <1>8, <3>1
    <3>3. VectorOf(new[k], p, connects, joins)
      BY <1>2, <1>8, <2>1, <2>5, <3>2
    <3>4. ASSUME NEW l \in 1 .. Len(new), k < l
          PROVE  new[k] # new[l]
      <4>1. k \in 1 .. Len(ClientView[q])
        BY <1>8, <3>2, <3>4
      <4>2. CASE l \in 1 .. Len(ClientView[q])
        BY <1>2, <1>8, <2>1, <3>4, <4>1, <4>2
      <4>3. CASE l = Len(ClientView[q]) + 1
        BY <1>2, <1>8, <2>3, <4>1, <4>3
      <4> QED BY <1>8, <4>2, <4>3
    <3>5. \A i \in 1 .. Len(queue') : queue'[i].fd # new[k]
      BY <1>2, <1>8, <1>18, <2>2, <3>2
    <3> QED BY <1>4, <3>1, <3>3, <3>4, <3>5
  <2> QED BY <2>4, <2>5
<1>20. Held' = Held \cup {d}
  <2>1. HeldInView
    BY HeldIs DEF ClientInv, DoorbellTypeOK
  <2>2. HeldInView'
    <3>1. RecordsOK' /\ DOMAIN peer_list' \subseteq Others
      BY <1>10, <1>15
    <3>2. (RecordsOK /\ DOMAIN peer_list \subseteq Others => HeldInView)'
      BY HeldIs, PTL
    <3> QED BY <3>1, <3>2
  <2>3. sock_fd' = sock_fd /\ shm_fd' = shm_fd
    BY DEF NewVector
  <2>4. \A x : (\E p \in Everyone : \E k \in 1 .. Len(ClientView'[p]) :
                  x = ClientView'[p][k]) <=>
               \/ x = d
               \/ \E p \in Everyone : \E k \in 1 .. Len(ClientView[p]) :
                    x = ClientView[p][k]
    <3>1. \A k : k \in 1 .. Len(new) <=>
                   k \in 1 .. Len(ClientView[q]) \/ k = Len(ClientView[q]) + 1
      BY <1>8
    <3> QED BY <1>2, <1>8, <1>12, <3>1
  <2>5. \A x : x \in Held' <=> x \in Held \/ x = d
    BY <1>2, <2>1, <2>2, <2>3, <2>4 DEF HeldInView
  <2> QED BY <2>5
<1>21. OpenInv'
  <2>1. Held' \subseteq open' /\ open' \ Held' \subseteq open \ Held
    BY <1>13, <1>20 DEF ClientInv, OpenInv
  <2>2. OneLostPerConnection'
    BY <1>1, <1>3, <1>4, <2>1
    DEF Listening, ClientInv, OpenInv, OneLostPerConnection
  <2>3. \A x \in open' : x.session <= connects'
    BY <1>1, <1>2, <1>4, <1>13 DEF ClientInv, OpenInv, VectorOf
  <2> QED BY <1>3, <2>1, <2>2, <2>3 DEF OpenInv
<1> QED BY <1>5, <1>11, <1>14, <1>15, <1>16, <1>17, <1>19, <1>21
        DEF ClientInv, q, d, new

LEMMA CloseStep ==
  ASSUME ClientInv, pc = "server", Close
  PROVE  ClientInv'
<1> USE DEF Close
<1>1. Listening /\ ~Listening' /\ Ahead' = 0 /\ pc' = "connect"
  BY DEF Listening, Ahead
<1>2. DOMAIN peer_list' = {} /\ local_vectors' = <<>> /\ queue' = <<>>
  BY DEF NoPeers
<1>3. UNCHANGED <<connects, joins>>
  BY DEF server
<1>4. connects \in Nat /\ joins \in Nat
  BY ClientAssumption DEF ClientInv, RecordsOK
<1>5. \A p \in Everyone : ClientView'[p] = <<>>
  BY <1>2 DEF ClientView, Everyone
<1>6. Held' = {}
  BY <1>2 DEF Held, fds
<1>7. ASSUME NEW x \in Received
      PROVE  /\ x \in Descriptor /\ DescriptorOK(x)
             /\ x.session = connects /\ x.of \notin {SOCK, SHM}
             /\ Received = {x}
  <2>1. HasMsg /\ x = msg.fd /\ x # NoFd /\ Received = {x}
    BY DEF Received
  <2>2. msg.index \in Everyone /\ VectorOf(x, msg.index, connects, joins)
    BY <2>1, ServerMsg DEF PeerMsg
  <2>3. connects \in 0 .. MaxConnects /\ joins \in 0 .. MaxJoins
    BY DEF ClientInv, RecordsOK
  <2>4. {MaxConnects, MaxJoins} \subseteq Nat
    BY ClientAssumption
  <2>5. DescriptorOK(x)
    BY <2>2, <2>3, <2>4 DEF VectorOf, DescriptorOK, Descriptor, Everyone
  <2>6. x.of \notin {SOCK, SHM}
    BY <2>2, ClientAssumption DEF VectorOf, Everyone, SOCK, SHM
  <2> QED BY <2>1, <2>2, <2>5, <2>6 DEF VectorOf
<1>8. open' = (open \cup Received) \ Held
  BY DEF CloseHeld
<1>9. DoorbellTypeOK'
  <2>1. \A x \in open' : DescriptorOK(x)
    BY <1>7, <1>8 DEF ClientInv, DoorbellTypeOK
  <2>2. \A p \in Everyone :
          Len(ClientView'[p]) <= IVSHMEM_CLIENT_MAX_VECTORS
    BY <1>5, ClientAssumption
  <2> QED BY <1>1, <1>2, <2>1, <2>2
          DEF server, ClientInv, DoorbellTypeOK, Everyone
<1>10. RecordsOK'
  <2>1. open' \subseteq Descriptor
    BY <1>7, <1>8 DEF ClientInv, RecordsOK
  <2> QED BY <1>2, <1>3, <2>1 DEF ClientInv, RecordsOK
<1>11. ConnectionInv'
  BY <1>1, <1>2 DEF ConnectionInv
<1>12. ServerInv'
  BY DEF server, ClientInv, ServerInv
<1>13. QueueInv' /\ VectorsInv'
  BY <1>1, <1>2, <1>5 DEF QueueInv, VectorsInv
<1>14. OpenInv'
  <2>1. \A x \in open \ Held :
          /\ x.of \notin {SOCK, SHM}
          /\ x.session < connects
          /\ \A e \in open \ Held : e.session = x.session => e = x
    BY DEF ClientInv, OpenInv, OneLostPerConnection
  <2>2. \A x \in open' : x \in open \ Held \/ x \in Received
    BY <1>8
  <2>3. ASSUME NEW x \in open'
        PROVE  /\ x.of \notin {SOCK, SHM}
               /\ \A e \in open' : e.session = x.session => e = x
    <3>1. CASE x \in open \ Held
      BY <1>4, <1>7, <2>1, <2>2, <3>1
    <3>2. CASE x \in Received
      BY <1>4, <1>7, <2>1, <2>2, <3>2
    <3> QED BY <2>2, <3>1, <3>2
  <2>4. OneLostPerConnection'
    BY <1>1, <1>6, <2>3 DEF OneLostPerConnection
  <2>5. \A x \in open' : x.session <= connects'
    BY <1>3, <1>4, <1>7, <2>2 DEF ClientInv, OpenInv
  <2> QED BY <1>6, <2>4, <2>5 DEF OpenInv
<1> QED BY <1>9, <1>10, <1>11, <1>12, <1>13, <1>14 DEF ClientInv

-----------------------------------------------------------------------------
(* Records, descriptors and unread messages fit together in every state,   *)
(* whatever the server and the peers do.                                   *)
THEOREM ClientInvariant == DoorbellSpec => []ClientInv
<1>1. ClientInv /\ [DoorbellNext]_doorbell_vars => ClientInv'
  <2> SUFFICES ASSUME ClientInv, [DoorbellNext]_doorbell_vars
               PROVE  ClientInv'
    OBVIOUS
  <2>1. CASE World
    <3>1. CASE ServerStarts \/ ServerStops
      BY <3>1, StartsStep, StopsStep
    <3>2. CASE \E p \in Others : PeerJoins(p) \/ PeerLeaves(p)
      BY <3>2, JoinsStep, LeavesStep
    <3>3. CASE \E v \in 0 .. n_vectors - 1 : PeerRings(v)
      BY <3>3, QuietSteps
    <3> QED BY <2>1, <3>1, <3>2, <3>3 DEF World
  <2>2. CASE Client
    <3>1. CASE \/ Connect \/ ReadVersion \/ ReadId \/ ReadShm
               \/ ConnectFails
      BY <3>1, ConnectStep, ReadVersionStep, ReadIdStep, ReadShmStep,
         ConnectFailsStep
    <3>2. CASE Select \/ HandleStdin \/ HandleEvent
      BY <3>2, QuietSteps
    <3>3. CASE FreePeer \/ NewVector
      BY <3>3, FreePeerStep, NewVectorStep
    <3>4. CASE MsgFails \/ NoMemory
      BY <3>4, CloseStep DEF MsgFails, NoMemory
    <3> QED BY <2>2, <3>1, <3>2, <3>3, <3>4 DEF Client
  <2>3. CASE UNCHANGED doorbell_vars
    <3>1. /\ UNCHANGED <<server, conn, queue, held, open, connects>>
          /\ pc' = pc /\ rung' = rung
      BY <2>3 DEF doorbell_vars
    <3>2. rung \subseteq open /\ (~Listening => rung = {})
      BY DEF ClientInv, OpenInv, ConnectionInv
    <3> QED BY <3>1, <3>2, LoopStep
  <2> QED BY <2>1, <2>2, <2>3 DEF DoorbellNext
<1> QED BY <1>1, ClientInvInit, PTL DEF DoorbellSpec

(* Types: no record outgrows IVSHMEM_CLIENT_MAX_VECTORS.                   *)
THEOREM ClientTypeCorrect == DoorbellSpec => []DoorbellTypeOK
<1>1. ClientInv => DoorbellTypeOK
  BY DEF ClientInv
<1> QED BY <1>1, ClientInvariant, PTL

(* No descriptor is closed twice or rung after it was closed.              *)
THEOREM ClientHeldAreOpen == DoorbellSpec => []HeldAreOpen
<1>1. ASSUME ClientInv PROVE HeldAreOpen
  <2>1. Held \subseteq open /\ rung \subseteq open
    BY <1>1 DEF ClientInv, OpenInv
  <2>2. ClientView \in [Everyone -> Seq(Descriptor)]
    BY <1>1, ViewType DEF ClientInv, DoorbellTypeOK
  <2>3. ASSUME NEW p \in Everyone, NEW q \in Everyone,
               NEW i \in DOMAIN ClientView[p], NEW j \in DOMAIN ClientView[q],
               ClientView[p][i] = ClientView[q][j]
        PROVE  p = q /\ i = j
    <3>1. /\ i \in 1 .. Len(ClientView[p]) /\ j \in 1 .. Len(ClientView[q])
          /\ i \in Nat /\ j \in Nat
      BY <2>2, LenProperties
    <3>2. p = q
      BY <1>1, <2>3, <3>1 DEF ClientInv, VectorsInv, VectorOf
    <3>3. ~(i < j) /\ ~(j < i)
      BY <1>1, <2>3, <3>1, <3>2 DEF ClientInv, VectorsInv
    <3> QED BY <3>1, <3>2, <3>3
  <2> QED BY <2>1, <2>3 DEF HeldAreOpen, Everyone
<1> QED BY <1>1, ClientInvariant, PTL

(* Reconnecting loses at most the one descriptor of a refused vector.      *)
THEOREM ClientOneLostPerConnection == DoorbellSpec => []OneLostPerConnection
<1>1. ClientInv => OneLostPerConnection
  BY DEF ClientInv, OpenInv
<1> QED BY <1>1, ClientInvariant, PTL

-----------------------------------------------------------------------------
(* What handling all messages of a queue comes to.                         *)

AfterAll(view, q) == FoldLeft(AfterMsg, view, q)

\* f is the function FoldLeft defines by recursion over sets of positions.
Iterates(f, view, q, n) ==
  f = [s \in SUBSET (1 .. n) |->
         IF s = {} THEN view ELSE AfterMsg(f[s \ {Max(s)}], q[Max(s)])]

LEMMA AfterAllUnfolds ==
  ASSUME NEW view, NEW q, NEW n \in Nat, DOMAIN q = 1 .. n,
         \E f : Iterates(f, view, q, n)
  PROVE  \E f : Iterates(f, view, q, n) /\ AfterAll(view, q) = f[1 .. n]
<1> DEFINE g == CHOOSE f : Iterates(f, view, q, n)
<1>1. Iterates(g, view, q, n)
  OBVIOUS
<1>2. AfterAll(view, q) = g[1 .. n]
  BY DEF AfterAll, FoldLeft, MapThenFoldSet, Iterates
<1> HIDE DEF g
<1> QED BY <1>1, <1>2

LEMMA MaxOfUpTo ==
  ASSUME NEW n \in Nat, NEW s, s \subseteq 1 .. n, n \in s
  PROVE  Max(s) = n
<1>1. \A y \in s : y \in Nat /\ n >= y
  OBVIOUS
<1>2. \E x \in s : \A y \in s : x >= y
  BY <1>1
<1>3. Max(s) \in s /\ \A y \in s : Max(s) >= y
  BY <1>2 DEF Max
<1>4. Max(s) \in Nat /\ n >= Max(s) /\ Max(s) >= n
  BY <1>1, <1>3
<1> QED BY <1>4

LEMMA IteratesDefined ==
  ASSUME NEW view, NEW q
  PROVE  \A n \in Nat : \E f : Iterates(f, view, q, n)
<1> DEFINE T == {n \in Nat : \E f : Iterates(f, view, q, n)}
<1>1. 0 \in T
  <2> DEFINE f == [s \in SUBSET (1 .. 0) |-> view]
             h == [s \in SUBSET (1 .. 0) |->
                     IF s = {} THEN view
                     ELSE AfterMsg(f[s \ {Max(s)}], q[Max(s)])]
  <2>1. \A s \in SUBSET (1 .. 0) : s = {}
    OBVIOUS
  <2>2. f = h
    BY <2>1
  <2>3. Iterates(f, view, q, 0)
    BY <2>2, Zenon DEF Iterates
  <2> QED BY <2>3
<1>2. ASSUME NEW n \in Nat, n \in T PROVE n + 1 \in T
  <2>1. PICK f : Iterates(f, view, q, n)
    BY <1>2
  <2>2. \A s \in SUBSET (1 .. n) :
          f[s] = IF s = {} THEN view
                 ELSE AfterMsg(f[s \ {Max(s)}], q[Max(s)])
    BY <2>1, Zenon DEF Iterates
  <2> DEFINE g == [s \in SUBSET (1 .. n + 1) |->
                     IF n + 1 \in s
                       THEN AfterMsg(f[s \ {n + 1}], q[n + 1]) ELSE f[s]]
             h == [s \in SUBSET (1 .. n + 1) |->
                     IF s = {} THEN view
                     ELSE AfterMsg(g[s \ {Max(s)}], q[Max(s)])]
  <2>3. ASSUME NEW s \in SUBSET (1 .. n + 1) PROVE g[s] = h[s]
    <3>1. \A t \in SUBSET (1 .. n) : t \in SUBSET (1 .. n + 1) /\ g[t] = f[t]
      OBVIOUS
    <3>2. CASE n + 1 \in s
      <4>1. Max(s) = n + 1
        <5>1. n + 1 \in Nat /\ s \subseteq 1 .. n + 1
          OBVIOUS
        <5> QED BY ONLY <3>2, <5>1, MaxOfUpTo
      <4>2. s \ {n + 1} \in SUBSET (1 .. n)
        OBVIOUS
      <4>3. g[s] = AfterMsg(f[s \ {n + 1}], q[n + 1])
        BY <3>2
      <4>4. h[s] = AfterMsg(g[s \ {n + 1}], q[n + 1])
        BY <3>2, <4>1
      <4> HIDE DEF g, h
      <4> QED BY <3>1, <4>2, <4>3, <4>4
    <3>3. CASE n + 1 \notin s
      <4>1. s \in SUBSET (1 .. n)
        BY <3>3
      <4>2. s \ {Max(s)} \in SUBSET (1 .. n)
        BY <4>1
      <4>3. g[s] = f[s]
        BY <3>3
      <4>4. h[s] = IF s = {} THEN view
                   ELSE AfterMsg(g[s \ {Max(s)}], q[Max(s)])
        OBVIOUS
      <4> HIDE DEF g, h
      <4> QED BY <2>2, <3>1, <4>1, <4>2, <4>3, <4>4
    <3> QED BY <3>2, <3>3
  <2>4. g = h
    <3>1. DOMAIN g = SUBSET (1 .. n + 1) /\ DOMAIN h = SUBSET (1 .. n + 1)
      OBVIOUS
    <3>2. g = [s \in SUBSET (1 .. n + 1) |-> g[s]]
          /\ h = [s \in SUBSET (1 .. n + 1) |-> h[s]]
      OBVIOUS
    <3> HIDE DEF g, h
    <3> QED BY <2>3, <3>2
  <2>5. Iterates(g, view, q, n + 1)
    BY <2>4, Zenon DEF Iterates
  <2> QED BY <2>5
<1>3. \A n \in Nat : n \in T
  <2> HIDE DEF T
  <2> QED BY <1>1, <1>2, Induction
<1> QED BY <1>3

\* g[k] is the view once the first k messages of q are handled.
Handles(g, view, q, n) ==
  /\ g[0] = view
  /\ \A k \in 1 .. n : g[k] = AfterMsg(g[k - 1], q[k])

LEMMA AfterAllHandled ==
  ASSUME NEW view, NEW q, NEW n \in Nat, DOMAIN q = 1 .. n
  PROVE  \E g : Handles(g, view, q, n) /\ AfterAll(view, q) = g[n]
<1>1. PICK f : Iterates(f, view, q, n) /\ AfterAll(view, q) = f[1 .. n]
  BY IteratesDefined, AfterAllUnfolds
<1>2. \A s \in SUBSET (1 .. n) :
        f[s] = IF s = {} THEN view
               ELSE AfterMsg(f[s \ {Max(s)}], q[Max(s)])
  BY <1>1, Zenon DEF Iterates
<1> DEFINE g == [k \in 0 .. n |-> f[1 .. k]]
<1>3. g[0] = view
  <2>1. 1 .. 0 = {} /\ {} \in SUBSET (1 .. n)
    OBVIOUS
  <2>2. f[{}] = view
    BY <1>2, <2>1
  <2> QED BY <2>1, <2>2
<1>4. ASSUME NEW k \in 1 .. n PROVE g[k] = AfterMsg(g[k - 1], q[k])
  <2>1. /\ 1 .. k \in SUBSET (1 .. n) /\ 1 .. k # {}
        /\ (1 .. k) \ {k} = 1 .. k - 1
        /\ k \in 0 .. n /\ k - 1 \in 0 .. n
    <3>1. k \in 1 .. k /\ \A i \in 1 .. k : i \in 1 .. n
      OBVIOUS
    <3>2. \A i : i \in (1 .. k) \ {k} <=> i \in 1 .. k - 1
      OBVIOUS
    <3>3. k \in 0 .. n /\ k - 1 \in 0 .. n
      OBVIOUS
    <3> QED BY <3>1, <3>2, <3>3
  <2>2. Max(1 .. k) = k
    <3>1. k \in Nat /\ k \in 1 .. k
      OBVIOUS
    <3> QED BY <3>1, MaxOfUpTo
  <2>3. f[1 .. k] = AfterMsg(f[1 .. k - 1], q[k])
    <3> DEFINE s == 1 .. k
    <3>1. f[s] = AfterMsg(f[s \ {Max(s)}], q[Max(s)])
      <4>1. s \in SUBSET (1 .. n) /\ s # {}
        BY <2>1
      <4> HIDE DEF s
      <4> QED BY <1>2, <4>1
    <3> QED BY <2>1, <2>2, <3>1
  <2> QED BY <2>1, <2>3
<1>5. AfterAll(view, q) = g[n]
  BY <1>1
<1> HIDE DEF g
<1> QED BY <1>3, <1>4, <1>5 DEF Handles

\* Handling the messages one by one leads to AfterAll.
LEMMA AfterAllIs ==
  ASSUME NEW view, NEW q, NEW n \in Nat, DOMAIN q = 1 .. n,
         NEW h, Handles(h, view, q, n)
  PROVE  AfterAll(view, q) = h[n]
<1>1. PICK g : Handles(g, view, q, n) /\ AfterAll(view, q) = g[n]
  BY AfterAllHandled
<1> DEFINE T == {k \in Nat : k <= n => g[k] = h[k]}
<1>2. 0 \in T
  BY <1>1 DEF Handles
<1>3. ASSUME NEW k \in Nat, k \in T PROVE k + 1 \in T
  <2> SUFFICES ASSUME k + 1 <= n PROVE g[k + 1] = h[k + 1]
    OBVIOUS
  <2>1. k + 1 \in 1 .. n /\ (k + 1) - 1 = k /\ g[k] = h[k]
    BY <1>3
  <2>2. /\ g[k + 1] = AfterMsg(g[k], q[k + 1])
        /\ h[k + 1] = AfterMsg(h[k], q[k + 1])
    BY <1>1, <2>1 DEF Handles
  <2> QED BY <2>1, <2>2
<1>4. \A k \in Nat : k \in T
  <2> HIDE DEF T
  <2> QED BY <1>2, <1>3, Induction
<1> QED BY <1>1, <1>4

LEMMA AfterNone ==
  ASSUME NEW view
  PROVE  AfterAll(view, <<>>) = view
<1> DEFINE g == [k \in {0} |-> view]
<1>1. DOMAIN <<>> = 1 .. 0 /\ 0 \in Nat
  OBVIOUS
<1>2. Handles(g, view, <<>>, 0) /\ g[0] = view
  BY DEF Handles
<1> HIDE DEF g
<1> QED BY <1>1, <1>2, AfterAllIs

LEMMA AfterOne ==
  ASSUME NEW view, NEW m
  PROVE  AfterAll(view, <<m>>) = AfterMsg(view, m)
<1> DEFINE g == [k \in 0 .. 1 |-> IF k = 0 THEN view ELSE AfterMsg(view, m)]
<1>1. DOMAIN <<m>> = 1 .. 1 /\ 1 \in Nat /\ <<m>>[1] = m
  OBVIOUS
<1>2. g[0] = view /\ g[1] = AfterMsg(view, m)
  OBVIOUS
<1> HIDE DEF g
<1>3. Handles(g, view, <<m>>, 1)
  BY <1>1, <1>2 DEF Handles
<1> QED BY <1>1, <1>2, <1>3, AfterAllIs

LEMMA AfterConcat ==
  ASSUME NEW view, NEW q \in Seq(Message), NEW r \in Seq(Message)
  PROVE  AfterAll(view, q \o r) = AfterAll(AfterAll(view, q), r)
<1> DEFINE m == Len(q)
           n == Len(r)
           s == q \o r
<1>1. m \in Nat /\ n \in Nat /\ DOMAIN q = 1 .. m /\ DOMAIN r = 1 .. n
  BY LenProperties
<1>2. s \in Seq(Message) /\ Len(s) = m + n
  BY ConcatProperties
<1>3. \A i \in 1 .. m + n : s[i] = IF i <= m THEN q[i] ELSE r[i - m]
  BY ConcatProperties
<1>4. DOMAIN s = 1 .. m + n
  <2> HIDE DEF s, m, n
  <2>1. DOMAIN s = 1 .. Len(s)
    BY <1>2, LenProperties
  <2> QED BY <1>2, <2>1
<1> HIDE DEF s, m, n
<1>5. PICK g : Handles(g, view, q, m) /\ AfterAll(view, q) = g[m]
  BY <1>1, AfterAllHandled
<1>6. PICK h : Handles(h, g[m], r, n) /\ AfterAll(g[m], r) = h[n]
  BY <1>1, AfterAllHandled
<1> DEFINE f == [k \in 0 .. m + n |-> IF k <= m THEN g[k] ELSE h[k - m]]
<1>7. \A k \in 0 .. m : f[k] = g[k]
  BY <1>1
<1>8. \A k \in 0 .. n : f[m + k] = h[k]
  <2> SUFFICES ASSUME NEW k \in 0 .. n PROVE f[m + k] = h[k]
    OBVIOUS
  <2>1. h[0] = g[m]
    BY <1>6 DEF Handles
  <2>2. m + k \in 0 .. m + n /\ (m + k) - m = k /\ (m + k <= m <=> k = 0)
    BY <1>1
  <2>3. f[m + k] = IF m + k <= m THEN g[m + k] ELSE h[(m + k) - m]
    BY <2>2
  <2>4. k = 0 => m + k = m
    BY <1>1
  <2> HIDE DEF f
  <2>5. CASE k = 0
    BY <2>1, <2>2, <2>3, <2>4, <2>5
  <2>6. CASE k # 0
    BY <2>2, <2>3, <2>6
  <2> QED BY <2>5, <2>6
<1> HIDE DEF f
<1>9. f[0] = view
  BY <1>1, <1>5, <1>7 DEF Handles
<1>10. ASSUME NEW k \in 1 .. m + n PROVE f[k] = AfterMsg(f[k - 1], s[k])
  <2>1. CASE k <= m
    <3>1. k \in 1 .. m /\ k \in 0 .. m /\ k - 1 \in 0 .. m
      BY <1>1, <2>1
    <3>2. g[k] = AfterMsg(g[k - 1], q[k])
      BY <1>5, <3>1 DEF Handles
    <3>3. s[k] = q[k]
      BY <1>3, <2>1
    <3> QED BY <1>7, <3>1, <3>2, <3>3
  <2>2. CASE ~(k <= m)
    <3> DEFINE l == k - m
    <3>1. /\ l \in 1 .. n /\ l \in 0 .. n /\ l - 1 \in 0 .. n
          /\ k = m + l /\ k - 1 = m + (l - 1)
      BY <1>1, <2>2
    <3>2. s[k] = r[l]
      BY <1>3, <2>2
    <3> HIDE DEF l
    <3>3. h[l] = AfterMsg(h[l - 1], r[l])
      BY <1>6, <3>1 DEF Handles
    <3>4. f[k] = h[l] /\ f[k - 1] = h[l - 1]
      BY <1>8, <3>1
    <3> QED BY <3>2, <3>3, <3>4
  <2> QED BY <2>1, <2>2
<1>11. Handles(f, view, s, m + n)
  BY <1>9, <1>10 DEF Handles
<1>12. AfterAll(view, s) = f[m + n]
  <2>1. m + n \in Nat
    BY <1>1
  <2> QED BY <1>4, <1>11, <2>1, AfterAllIs
<1>13. f[m + n] = h[n]
  BY <1>1, <1>8
<1> QED BY <1>5, <1>6, <1>12, <1>13 DEF s

LEMMA AfterFirst ==
  ASSUME NEW view, NEW q \in Seq(Message), q # <<>>
  PROVE  AfterAll(view, q) = AfterAll(AfterMsg(view, Head(q)), Tail(q))
<1>1. /\ Head(q) \in Message /\ Tail(q) \in Seq(Message)
      /\ q = <<Head(q)>> \o Tail(q)
  BY HeadTailProperties, ConcatProperties
<1> DEFINE h == Head(q)
           t == Tail(q)
<1>2. <<h>> \in Seq(Message) /\ t \in Seq(Message) /\ q = <<h>> \o t
  BY <1>1
<1> HIDE DEF h, t
<1>3. AfterAll(view, q) = AfterAll(AfterAll(view, <<h>>), t)
  BY <1>2, AfterConcat
<1> QED BY <1>3, AfterOne DEF h, t

\* the view with the n vectors of p as a session brings them
WithVectors(view, session, p, gen, n) ==
  [x \in Everyone |->
     IF x = p THEN [i \in 1 .. n |-> Fd(session, p, gen, i - 1)] ELSE view[x]]

LEMMA AfterVectors ==
  ASSUME NEW session \in Nat, session # 0, NEW p \in Everyone,
         NEW gen \in Nat, NEW n \in Nat,
         NEW view, view = [x \in Everyone |-> view[x]], view[p] = <<>>
  PROVE  AfterAll(view, Vectors(session, p, gen, n))
           = WithVectors(view, session, p, gen, n)
<1> DEFINE q == Vectors(session, p, gen, n)
           V(k) == [i \in 1 .. k |-> Fd(session, p, gen, i - 1)]
           g == [k \in 0 .. n |->
                   [x \in Everyone |-> IF x = p THEN V(k) ELSE view[x]]]
<1>1. DOMAIN q = 1 .. n
  BY DEF Vectors
<1>2. \A k \in 1 .. n : q[k] = [index |-> p, fd |-> Fd(session, p, gen, k - 1)]
  BY DEF Vectors
<1>3. \A k \in 1 .. n : /\ q[k].index = p
                        /\ q[k].fd = Fd(session, p, gen, k - 1)
                        /\ q[k].fd # NoFd
  <2> SUFFICES ASSUME NEW k \in 1 .. n
               PROVE  /\ q[k].index = p
                      /\ q[k].fd = Fd(session, p, gen, k - 1)
                      /\ q[k].fd # NoFd
    BY Zenon
  <2> DEFINE d == Fd(session, p, gen, k - 1)
  <2>1. q[k] = [index |-> p, fd |-> d] /\ d.session = session
    BY <1>2 DEF Fd
  <2>2. NoFd.session = 0
    BY DEF NoFd, Fd
  <2> HIDE DEF q, d
  <2>3. q[k].index = p /\ q[k].fd = d /\ q[k].fd # NoFd
    BY <2>1, <2>2
  <2> QED BY <2>3 DEF d
<1>4. V(0) = <<>>
  OBVIOUS
<1>5. ASSUME NEW k \in 1 .. n
      PROVE  V(k) = Append(V(k - 1), Fd(session, p, gen, k - 1))
  <2>1. \A i \in 1 .. n : Fd(session, p, gen, i - 1) \in Descriptor
    BY ClientAssumption DEF Fd, Descriptor, Everyone
  <2>2. V(k) \in Seq(Descriptor) /\ Len(V(k)) = k
    BY <2>1
  <2>3. V(k - 1) \in Seq(Descriptor) /\ Len(V(k - 1)) = k - 1
    BY <2>1
  <2>4. k \in 1 .. n /\ \A i \in 1 .. k - 1 : V(k)[i] = V(k - 1)[i]
    OBVIOUS
  <2>5. V(k)[k] = Fd(session, p, gen, k - 1)
    OBVIOUS
  <2> DEFINE a == V(k)
             b == V(k - 1)
             d == Fd(session, p, gen, k - 1)
  <2>6. /\ a \in Seq(Descriptor) /\ b \in Seq(Descriptor) /\ d \in Descriptor
        /\ Len(a) = k /\ Len(b) = k - 1
        /\ a[k] = d /\ \A i \in 1 .. k - 1 : a[i] = b[i]
    BY <2>1, <2>2, <2>3, <2>4, <2>5
  <2> HIDE DEF a, b, d, V
  <2>7. /\ Append(b, d) \in Seq(Descriptor) /\ Len(Append(b, d)) = k
        /\ \A i \in 1 .. k - 1 : Append(b, d)[i] = b[i]
        /\ Append(b, d)[k] = d
    BY <2>6, AppendProperties
  <2>8. \A i \in 1 .. k : i = k \/ i \in 1 .. k - 1
    OBVIOUS
  <2>9. a = Append(b, d)
    BY <2>6, <2>7, <2>8, SeqEqual
  <2> QED BY <2>9 DEF a, b, d
<1> HIDE DEF q, V
<1>6. g[0] = view
  <2>1. \A x \in Everyone : g[0][x] = view[x]
    BY <1>4
  <2> QED BY <2>1
<1>7. ASSUME NEW k \in 1 .. n PROVE g[k] = AfterMsg(g[k - 1], q[k])
  <2>1. k \in 0 .. n /\ k - 1 \in 0 .. n
    OBVIOUS
  <2> DEFINE old == [x \in Everyone |-> IF x = p THEN V(k - 1) ELSE view[x]]
             new == [x \in Everyone |-> IF x = p THEN V(k) ELSE view[x]]
             d == Fd(session, p, gen, k - 1)
  <2>2. g[k] = new /\ g[k - 1] = old
    BY <2>1
  <2>3. V(k) = Append(V(k - 1), d)
    BY <1>5
  <2>4. AfterMsg(old, q[k]) = [old EXCEPT ![p] = Append(@, d)]
    BY <1>3 DEF AfterMsg
  <2>5. [old EXCEPT ![p] = Append(@, d)] = new
    BY <2>3
  <2> QED BY <2>2, <2>4, <2>5
<1>8. Handles(g, view, q, n)
  <2> HIDE DEF g
  <2> QED BY <1>6, <1>7 DEF Handles
<1>9. AfterAll(view, q) = g[n]
  <2> HIDE DEF g
  <2> QED BY <1>1, <1>8, AfterAllIs
<1> QED BY <1>9 DEF q, V, WithVectors

\* what the server knows of the peers in who, with the descriptors of a session
Part(session, who) ==
  [p \in Everyone |->
     IF p \in who /\ (p = Me \/ s_peers[p] # 0)
       THEN [i \in 1 .. n_vectors |-> Fd(session, p, Gen(p), i - 1)]
       ELSE <<>>]

LEMMA AfterPeer ==
  ASSUME NEW session \in Nat, session # 0, s_peers \in [Others -> Nat],
         n_vectors \in Nat,
         NEW p \in Everyone, NEW who, p \notin who, p = Me \/ s_peers[p] # 0
  PROVE  AfterAll(Part(session, who), Vectors(session, p, Gen(p), n_vectors))
           = Part(session, who \cup {p})
<1> DEFINE view == Part(session, who)
<1>1. /\ view = [x \in Everyone |-> view[x]]
      /\ view[p] = <<>>
  BY DEF Part
<1>2. p \in Int /\ Gen(p) \in Nat
  BY ClientAssumption DEF Everyone, Gen
<1>3. Part(session, who \cup {p})
        = WithVectors(view, session, p, Gen(p), n_vectors)
  BY DEF Part, WithVectors
<1> HIDE DEF view
<1>4. AfterAll(view, Vectors(session, p, Gen(p), n_vectors))
        = WithVectors(view, session, p, Gen(p), n_vectors)
  BY <1>1, <1>2, AfterVectors
<1> QED BY <1>3, <1>4 DEF view

LEMMA AfterThere ==
  ASSUME NEW session \in Nat, session # 0, s_peers \in [Others -> Nat],
         n_vectors \in Nat,
         NEW i \in 1 .. Cardinality(Others), NEW who, Order[i] \notin who
  PROVE  AfterAll(Part(session, who), There(session)[i])
           = Part(session, who \cup {Order[i]})
<1> DEFINE p == Order[i]
<1>1. p \in Others /\ p \in Everyone /\ p # Me
  BY OthersListed, ClientAssumption DEF Everyone
<1>2. There(session)[i] = IF s_peers[p] = 0 THEN <<>>
                          ELSE Vectors(session, p, s_peers[p], n_vectors)
  BY DEF There, Order
<1> HIDE DEF p
<1>3. CASE s_peers[p] = 0
  <2>1. Part(session, who \cup {p}) = Part(session, who)
    BY <1>1, <1>3 DEF Part
  <2> QED BY <1>2, <1>3, <2>1, AfterNone DEF p
<1>4. CASE s_peers[p] # 0
  <2>1. Gen(p) = s_peers[p]
    BY <1>1 DEF Gen
  <2> QED BY <1>1, <1>2, <1>4, <2>1, AfterPeer DEF p
<1> QED BY <1>3, <1>4

LEMMA AfterFlatten ==
  ASSUME NEW session \in Nat, session # 0, s_peers \in [Others -> Nat],
         n_vectors \in Nat
  PROVE  AfterAll(Part(session, {}), FlattenSeq(There(session)))
           = Part(session, Others)
<1> DEFINE n == Cardinality(Others)
           seqs == There(session)
           Named(j) == {Order[i] : i \in 1 .. j}
           start == Part(session, {})
<1>1. n \in Nat /\ Len(seqs) = n
  BY OthersListed DEF There
<1>2. CASE n = 0
  <2>1. seqs = <<>>
    BY <1>1, <1>2 DEF There
  <2>2. FlattenSeq(seqs) = <<>>
    BY <1>1, <1>2, <2>1 DEF FlattenSeq
  <2>3. Others = {}
    BY <1>2, OthersListed
  <2> QED BY <2>2, <2>3, AfterNone
<1>3. CASE n # 0
  <2>1. PICK f : Flattens(f, seqs, n) /\ FlattenSeq(seqs) = f[n]
    BY <1>1, <1>3, FlattenDefined
  <2>2. \A i \in 1 .. n :
          f[i] = IF i = 1 THEN seqs[i] ELSE f[i - 1] \o seqs[i]
    BY <2>1, Zenon DEF Flattens
  <2>3. \A i \in 1 .. n : seqs[i] \in Seq(Message)
    BY ThereAnnounces DEF Announces
  <2>4. \A i \in 1 .. n : \A who :
          Order[i] \notin who =>
            AfterAll(Part(session, who), seqs[i])
              = Part(session, who \cup {Order[i]})
    BY AfterThere
  <2> HIDE DEF seqs, n, start
  <2> DEFINE T == {j \in Nat : j + 1 \in 1 .. n =>
                     /\ f[j + 1] \in Seq(Message)
                     /\ AfterAll(start, f[j + 1])
                          = Part(session, Named(j + 1))}
  <2>5. 0 \in T
    <3>1. f[1] = seqs[1] /\ 1 \in 1 .. n
      BY <1>1, <1>3, <2>2
    <3>2. Named(1) = {} \cup {Order[1]}
      OBVIOUS
    <3>3. AfterAll(start, f[1]) = Part(session, Named(1))
      BY <2>4, <3>1, <3>2 DEF start
    <3> QED BY <2>3, <3>1, <3>3
  <2>6. ASSUME NEW j \in Nat, j \in T PROVE j + 1 \in T
    <3> SUFFICES ASSUME j + 2 \in 1 .. n
                 PROVE  /\ f[j + 2] \in Seq(Message)
                        /\ AfterAll(start, f[j + 2])
                             = Part(session, Named(j + 2))
      BY <1>1
    <3>1. /\ j + 1 \in 1 .. n /\ f[j + 1] \in Seq(Message)
          /\ AfterAll(start, f[j + 1]) = Part(session, Named(j + 1))
      BY <1>1, <2>6
    <3>2. f[j + 2] = f[j + 1] \o seqs[j + 2]
      <4>1. j + 2 # 1 /\ (j + 2) - 1 = j + 1
        OBVIOUS
      <4> QED BY <2>2, <4>1
    <3>3. seqs[j + 2] \in Seq(Message)
      BY <2>3
    <3>4. Order[j + 2] \notin Named(j + 1)
      <4>1. \A i \in 1 .. j + 1 : i \in 1 .. n /\ i # j + 2
        BY <1>1, <3>1
      <4> QED BY <4>1, OthersListed DEF n
    <3>5. Named(j + 2) = Named(j + 1) \cup {Order[j + 2]}
      <4>1. 1 .. j + 2 = (1 .. j + 1) \cup {j + 2}
        OBVIOUS
      <4> QED BY <4>1
    <3> HIDE DEF Named
    <3>6. f[j + 2] \in Seq(Message)
      BY <3>1, <3>2, <3>3, ConcatProperties
    <3>7. AfterAll(start, f[j + 2])
            = AfterAll(AfterAll(start, f[j + 1]), seqs[j + 2])
      BY <3>1, <3>2, <3>3, AfterConcat
    <3> QED BY <2>4, <3>1, <3>4, <3>5, <3>6, <3>7
  <2>7. \A j \in Nat : j \in T
    <3> HIDE DEF T
    <3> QED BY <2>5, <2>6, Induction
  <2>8. AfterAll(start, f[n]) = Part(session, Named(n))
    <3>1. n - 1 \in Nat /\ (n - 1) + 1 = n /\ n \in 1 .. n
      BY <1>1, <1>3
    <3> QED BY <2>7, <3>1
  <2>9. Named(n) = Others
    BY OthersListed DEF n
  <2> QED BY <2>1, <2>8, <2>9 DEF seqs, start
<1> QED BY <1>2, <1>3

\* A client that has handled the whole greeting knows what the server knew
\* when it connected.
LEMMA AfterGreeting ==
  ASSUME NEW session \in Nat, session # 0, s_peers \in [Others -> Nat],
         n_vectors \in Nat
  PROVE  AfterAll(Part(session, {}), Announcement(session))
           = Part(session, Everyone)
<1> DEFINE f == FlattenSeq(There(session))
           v == Vectors(session, Me, Gen(Me), n_vectors)
<1>1. Gen(Me) = 0 /\ Me \in Int /\ Me \notin Others /\ Me \in Everyone
  BY ClientAssumption DEF Gen, Everyone
<1>2. f \in Seq(Message)
  BY FlattenAnnounces DEF Announces
<1>3. v \in Seq(Message)
  <2>1. Announces(v, session, {Me})
    BY <1>1, VectorsAnnounce
  <2> HIDE DEF v
  <2> QED BY <2>1 DEF Announces
<1>4. Announcement(session) = f \o v
  BY <1>1 DEF Announcement
<1>5. AfterAll(Part(session, {}), f) = Part(session, Others)
  BY AfterFlatten
<1>6. AfterAll(Part(session, Others), v) = Part(session, Others \cup {Me})
  BY <1>1, AfterPeer
<1> HIDE DEF f, v
<1>7. AfterAll(Part(session, {}), f \o v)
        = AfterAll(AfterAll(Part(session, {}), f), v)
  BY <1>2, <1>3, AfterConcat
<1> QED BY <1>4, <1>5, <1>6, <1>7 DEF Everyone

-----------------------------------------------------------------------------
(* The view once the unread messages about peers are handled is the        *)
(* server's; during the handshake these are the ones that follow it.       *)

Beyond(q, k) == SubSeq(q, k + 1, Len(q))

ViewInv ==
  conn = "live" => AfterAll(ClientView, Beyond(queue, Ahead)) = ServerView

LEMMA BeyondIs ==
  ASSUME NEW q \in Seq(Message), NEW k \in 0 .. Len(q)
  PROVE  /\ Beyond(q, k) \in Seq(Message)
         /\ Len(Beyond(q, k)) = Len(q) - k
         /\ \A i \in 1 .. Len(q) - k : Beyond(q, k)[i] = q[k + i]
<1>1. Len(q) \in Nat /\ k \in Nat /\ k <= Len(q)
  BY LenProperties
<1>2. \A i \in k + 1 .. Len(q) : q[i] \in Message
  BY <1>1, ElementOfSeq
<1>3. /\ Beyond(q, k) \in Seq(Message)
      /\ Len(Beyond(q, k)) = IF k + 1 <= Len(q)
                               THEN Len(q) - (k + 1) + 1 ELSE 0
      /\ \A i \in 1 .. Len(q) - (k + 1) + 1 :
           Beyond(q, k)[i] = q[(k + 1) + i - 1]
  <2>1. k + 1 \in Int /\ Len(q) \in Int
    BY <1>1
  <2> QED BY <1>2, <2>1, SubSeqProperties DEF Beyond
<1>4. \A i \in 1 .. Len(q) - k : (k + 1) + i - 1 = k + i
  BY <1>1
<1>5. /\ Len(q) - (k + 1) + 1 = Len(q) - k
      /\ ~(k + 1 <= Len(q)) => Len(q) - k = 0
  BY <1>1
<1>6. Len(Beyond(q, k)) = Len(q) - k
  BY <1>3, <1>5
<1>7. ASSUME NEW i \in 1 .. Len(q) - k PROVE Beyond(q, k)[i] = q[k + i]
  <2>1. i \in 1 .. Len(q) - (k + 1) + 1
    BY <1>5
  <2>2. Beyond(q, k)[i] = q[(k + 1) + i - 1]
    BY <1>3, <2>1
  <2> QED BY <1>4, <2>2
<1> QED BY <1>3, <1>6, <1>7

LEMMA BeyondConcat ==
  ASSUME NEW q \in Seq(Message), NEW r \in Seq(Message), NEW k \in 0 .. Len(q)
  PROVE  Beyond(q \o r, k) = Beyond(q, k) \o r
<1> DEFINE s == q \o r
           a == Beyond(s, k)
           b == Beyond(q, k)
           c == b \o r
<1>1. Len(q) \in Nat /\ Len(r) \in Nat /\ k \in Nat /\ k <= Len(q)
  BY LenProperties
<1>2. /\ s \in Seq(Message) /\ Len(s) = Len(q) + Len(r)
      /\ \A i \in 1 .. Len(q) + Len(r) :
           s[i] = IF i <= Len(q) THEN q[i] ELSE r[i - Len(q)]
  BY ConcatProperties
<1>3. /\ b \in Seq(Message) /\ Len(b) = Len(q) - k
      /\ \A i \in 1 .. Len(q) - k : b[i] = q[k + i]
  BY BeyondIs
<1> HIDE DEF s, b
<1>4. /\ a \in Seq(Message) /\ Len(a) = Len(s) - k
      /\ \A i \in 1 .. Len(s) - k : a[i] = s[k + i]
  <2>1. k \in 0 .. Len(s)
    BY <1>1, <1>2
  <2> QED BY <1>2, <2>1, BeyondIs
<1>5. /\ c \in Seq(Message) /\ Len(c) = Len(b) + Len(r)
      /\ \A i \in 1 .. Len(b) + Len(r) :
           c[i] = IF i <= Len(b) THEN b[i] ELSE r[i - Len(b)]
  BY <1>3, ConcatProperties
<1> HIDE DEF a, c
<1>6. Len(a) = Len(c)
  BY <1>1, <1>2, <1>3, <1>4, <1>5
<1>7. ASSUME NEW i \in 1 .. Len(a) PROVE a[i] = c[i]
  <2>1. /\ i \in 1 .. Len(s) - k /\ k + i \in 1 .. Len(q) + Len(r)
        /\ i \in 1 .. Len(b) + Len(r)
    BY <1>1, <1>2, <1>3, <1>4, <1>5, <1>6
  <2>2. a[i] = s[k + i]
    BY <1>4, <2>1
  <2>3. CASE k + i <= Len(q)
    <3>1. i <= Len(b) /\ i \in 1 .. Len(q) - k
      BY <1>1, <1>3, <2>1, <2>3
    <3> QED BY <1>2, <1>3, <1>5, <2>1, <2>2, <2>3, <3>1
  <2>4. CASE ~(k + i <= Len(q))
    <3>1. ~(i <= Len(b)) /\ (k + i) - Len(q) = i - Len(b)
      BY <1>1, <1>3, <2>1, <2>4
    <3> QED BY <1>2, <1>5, <2>1, <2>2, <2>4, <3>1
  <2> QED BY <2>3, <2>4
<1>8. a = c
  BY <1>4, <1>5, <1>6, <1>7, SeqEqual
<1> QED BY <1>8 DEF a, b, c, s

LEMMA BeyondTail ==
  ASSUME NEW q \in Seq(Message), q # <<>>, NEW k \in 1 .. Len(q)
  PROVE  Beyond(Tail(q), k - 1) = Beyond(q, k)
<1> DEFINE t == Tail(q)
           a == Beyond(t, k - 1)
           b == Beyond(q, k)
<1>1. Len(q) \in Nat /\ k \in 0 .. Len(q) /\ k \in Nat /\ k <= Len(q) /\ 1 <= k
  BY LenProperties
<1>2. /\ t \in Seq(Message) /\ Len(t) = Len(q) - 1
      /\ \A i \in 1 .. Len(t) : t[i] = q[i + 1]
  BY HeadTailProperties
<1> HIDE DEF t
<1>3. /\ b \in Seq(Message) /\ Len(b) = Len(q) - k
      /\ \A i \in 1 .. Len(q) - k : b[i] = q[k + i]
  BY <1>1, BeyondIs
<1>4. /\ a \in Seq(Message) /\ Len(a) = Len(t) - (k - 1)
      /\ \A i \in 1 .. Len(t) - (k - 1) : a[i] = t[(k - 1) + i]
  <2>1. k - 1 \in 0 .. Len(t)
    BY <1>1, <1>2
  <2> QED BY <1>2, <2>1, BeyondIs
<1> HIDE DEF a, b
<1>5. Len(a) = Len(b)
  BY <1>1, <1>2, <1>3, <1>4
<1>6. ASSUME NEW i \in 1 .. Len(a) PROVE a[i] = b[i]
  <2>1. /\ i \in 1 .. Len(t) - (k - 1) /\ i \in 1 .. Len(q) - k
        /\ (k - 1) + i \in 1 .. Len(t) /\ ((k - 1) + i) + 1 = k + i
    BY <1>1, <1>2, <1>3, <1>4, <1>5
  <2> QED BY <1>2, <1>3, <1>4, <2>1
<1>7. a = b
  BY <1>3, <1>4, <1>5, <1>6, SeqEqual
<1> QED BY <1>7 DEF a, b, t

LEMMA BeyondAll ==
  ASSUME NEW q \in Seq(Message)
  PROVE  Beyond(q, 0) = q
BY SubSeqFull DEF Beyond

LEMMA ServerViewIs ==
  ServerView = Part(connects, Everyone)
BY DEF ServerView, Part, Everyone, Gen

\* The queue reaches past the handshake as long as the server is there.
LEMMA AheadInQueue ==
  ASSUME ClientInv, conn = "live"
  PROVE  queue \in Seq(Message) /\ Ahead \in 0 .. Len(queue)
<1>1. queue \in Seq(Message) /\ Len(queue) >= Ahead
  BY DEF ClientInv, RecordsOK, QueueInv
<1>2. Ahead \in Nat
  BY DEF Ahead
<1> QED BY <1>1, <1>2, LenProperties

\* What is told is added to what the client will know.
LEMMA TellView ==
  ASSUME ClientInv, ViewInv, NEW msgs \in Seq(Message), conn = "live",
         queue' = queue \o msgs, UNCHANGED <<conn, pc, held>>,
         AfterAll(ServerView, msgs) = ServerView'
  PROVE  ViewInv'
<1>1. queue \in Seq(Message) /\ Ahead \in 0 .. Len(queue)
  BY AheadInQueue
<1>2. Ahead' = Ahead /\ ClientView' = ClientView
  BY DEF Ahead, ClientView, held
<1> DEFINE rest == Beyond(queue, Ahead)
<1>3. Beyond(queue', Ahead') = rest \o msgs
  BY <1>1, <1>2, BeyondConcat
<1>4. rest \in Seq(Message)
  BY <1>1, BeyondIs
<1>5. AfterAll(ClientView, rest) = ServerView
  BY DEF ViewInv
<1> HIDE DEF rest
<1>6. AfterAll(ClientView, rest \o msgs) = AfterAll(ServerView, msgs)
  BY <1>4, <1>5, AfterConcat
<1> QED BY <1>2, <1>3, <1>6 DEF ViewInv

LEMMA JoinsView ==
  ASSUME ClientInv, ViewInv, NEW p \in Others, PeerJoins(p)
  PROVE  ViewInv'
<1> SUFFICES ASSUME conn = "live" PROVE ViewInv'
  BY DEF PeerJoins, ViewInv
<1>1. /\ connects \in Nat /\ connects # 0 /\ joins \in Nat
      /\ n_vectors \in Nat /\ s_peers \in [Others -> Nat]
  <2>1. pc # "connect"
    BY DEF ClientInv, ConnectionInv
  <2> QED BY <2>1, ClientAssumption
          DEF ClientInv, RecordsOK, ConnectionInv, DoorbellTypeOK
<1>2. p \in Int /\ p \in Everyone /\ p # Me /\ joins + 1 \in Nat
  BY <1>1, ClientAssumption DEF Everyone
<1> DEFINE msgs == Vectors(connects, p, joins + 1, n_vectors)
           view == ServerView
<1>3. msgs \in Seq(Message)
  BY <1>1, <1>2 DEF Vectors, Message, Descriptor, Fd
<1>4. /\ view = [x \in Everyone |-> view[x]]
      /\ view[p] = <<>>
  BY <1>2 DEF ServerView, PeerJoins, Everyone
<1>5. ServerView' = WithVectors(view, connects, p, joins + 1, n_vectors)
  <2>1. /\ s_peers' = [s_peers EXCEPT ![p] = joins + 1]
        /\ UNCHANGED <<n_vectors, connects>>
    BY DEF PeerJoins
  <2>2. /\ s_peers'[p] = joins + 1 /\ s_peers'[p] # 0
        /\ \A x \in Others : x # p => s_peers'[x] = s_peers[x]
    BY <1>1, <2>1
  <2>3. \A x \in Everyone : x # p => ServerView'[x] = view[x]
    BY <2>1, <2>2 DEF ServerView, Everyone
  <2>4. ServerView'[p]
          = [i \in 1 .. n_vectors |-> Fd(connects, p, joins + 1, i - 1)]
    BY <1>2, <2>1, <2>2 DEF ServerView, Everyone
  <2>5. ServerView' = [x \in Everyone |-> ServerView'[x]]
    BY DEF ServerView, Everyone
  <2> DEFINE new == ServerView'
  <2> HIDE DEF new, view
  <2>6. /\ \A x \in Everyone : x # p => new[x] = view[x]
        /\ new[p]
             = [i \in 1 .. n_vectors |-> Fd(connects, p, joins + 1, i - 1)]
        /\ new = [x \in Everyone |-> new[x]]
    BY <2>3, <2>4, <2>5 DEF new
  <2>7. new = WithVectors(view, connects, p, joins + 1, n_vectors)
    BY <2>6 DEF WithVectors
  <2> QED BY <2>7 DEF new
<1> HIDE DEF view
<1>6. AfterAll(view, msgs)
        = WithVectors(view, connects, p, joins + 1, n_vectors)
  BY <1>1, <1>2, <1>4, AfterVectors
<1>7. /\ queue' = queue \o msgs
      /\ UNCHANGED <<conn, pc, held>>
  BY DEF PeerJoins, Tell
<1> HIDE DEF msgs
<1> QED BY <1>3, <1>5, <1>6, <1>7, TellView DEF view

LEMMA LeavesView ==
  ASSUME ClientInv, ViewInv, NEW p \in Others, PeerLeaves(p)
  PROVE  ViewInv'
<1> SUFFICES ASSUME conn = "live" PROVE ViewInv'
  BY DEF PeerLeaves, ViewInv
<1> DEFINE m == [index |-> p, fd |-> NoFd]
<1>1. p \in Int /\ p \in Everyone /\ p # Me
  BY ClientAssumption DEF Everyone
<1>2. <<m>> \in Seq(Message)
  BY <1>1 DEF Message, Descriptor, NoFd, Fd
<1>3. AfterAll(ServerView, <<m>>) = AfterMsg(ServerView, m)
  BY AfterOne
<1>4. AfterMsg(ServerView, m) = [ServerView EXCEPT ![p] = <<>>]
  BY DEF AfterMsg
<1>5. ServerView' = [ServerView EXCEPT ![p] = <<>>]
  <2>1. /\ s_peers' = [s_peers EXCEPT ![p] = 0]
        /\ s_peers \in [Others -> 0 .. MaxJoins]
        /\ UNCHANGED <<n_vectors, connects>>
    BY DEF PeerLeaves, ClientInv, DoorbellTypeOK
  <2>2. s_peers'[p] = 0 /\ \A x \in Others : x # p => s_peers'[x] = s_peers[x]
    BY <2>1
  <2>3. \A x \in Everyone : x # p => ServerView'[x] = ServerView[x]
    BY <2>1, <2>2 DEF ServerView, Everyone
  <2>4. ServerView'[p] = <<>>
    BY <1>1, <2>2 DEF ServerView, Everyone
  <2>5. /\ ServerView' = [x \in Everyone |-> ServerView'[x]]
        /\ ServerView = [x \in Everyone |-> ServerView[x]]
    BY DEF ServerView, Everyone
  <2> DEFINE new == ServerView'
             old == ServerView
  <2> HIDE DEF new, old
  <2>6. /\ \A x \in Everyone : x # p => new[x] = old[x]
        /\ new[p] = <<>>
        /\ new = [x \in Everyone |-> new[x]]
        /\ old = [x \in Everyone |-> old[x]]
    BY <2>3, <2>4, <2>5 DEF new, old
  <2>7. new = [old EXCEPT ![p] = <<>>]
    BY <1>1, <2>6
  <2> QED BY <2>7 DEF new, old
<1>6. queue' = queue \o <<m>> /\ UNCHANGED <<conn, pc, held>>
  BY DEF PeerLeaves, Tell
<1>7. AfterAll(ServerView, <<m>>) = ServerView'
  BY <1>3, <1>4, <1>5
<1> HIDE DEF m
<1> QED BY <1>2, <1>6, <1>7, TellView

\* What the server sends a new client is all there is to know.
LEMMA ConnectView ==
  ASSUME ClientInv, Connect
  PROVE  ViewInv'
<1> DEFINE s == connects + 1
<1>1. /\ s \in Nat /\ s # 0 /\ n_vectors \in Nat /\ s_peers \in [Others -> Nat]
  BY ClientAssumption DEF ClientInv, RecordsOK, DoorbellTypeOK
<1>2. /\ connects' = s /\ queue' = Greeting(s) /\ Ahead' = 3
      /\ UNCHANGED <<n_vectors, s_peers, local_vectors, peer_list>>
  BY DEF Connect, server, Ahead
<1>3. ClientView' = Part(s, {})
  <2>1. local_vectors = <<>> /\ DOMAIN peer_list = {}
    BY DEF Connect, ClientInv, ConnectionInv, Listening
  <2> QED BY <1>2, <2>1 DEF ClientView, Part, Everyone
<1>4. ServerView' = Part(s, Everyone)
  BY <1>2 DEF ServerView, Part, Everyone, Gen
<1> DEFINE g == Greeting(s)
           a == Announcement(s)
<1> HIDE DEF s
<1>5. /\ a \in Seq(Message) /\ g \in Seq(Message) /\ Len(g) = 3 + Len(a)
      /\ \A i \in 1 .. Len(a) : g[3 + i] = a[i]
  BY <1>1, GreetingHolds DEF Announces
<1>6. AfterAll(Part(s, {}), a) = Part(s, Everyone)
  BY <1>1, AfterGreeting
<1> HIDE DEF g, a
<1>7. Beyond(g, 3) = a
  <2>1. Len(a) \in Nat
    BY <1>5, LenProperties
  <2>2. 3 \in 0 .. Len(g) /\ Len(g) - 3 = Len(a)
    BY <1>5, <2>1
  <2>3. /\ Beyond(g, 3) \in Seq(Message) /\ Len(Beyond(g, 3)) = Len(g) - 3
        /\ \A i \in 1 .. Len(g) - 3 : Beyond(g, 3)[i] = g[3 + i]
    BY <1>5, <2>2, BeyondIs
  <2> QED BY <1>5, <2>2, <2>3, SeqEqual
<1> QED BY <1>2, <1>3, <1>4, <1>6, <1>7 DEF ViewInv, g

\* Reading the handshake leaves what follows it.
LEMMA HandshakeView ==
  ASSUME ClientInv, ViewInv, ReadVersion \/ ReadId \/ ReadShm
  PROVE  ViewInv'
<1> SUFFICES ASSUME conn = "live" PROVE ViewInv'
  BY DEF ReadVersion, ReadId, ReadShm, ViewInv
<1>1. /\ queue # <<>> /\ queue' = Tail(queue)
      /\ Ahead # 0 /\ Ahead' = Ahead - 1
      /\ UNCHANGED <<conn, connects, n_vectors, s_peers, local_vectors,
                     peer_list>>
  BY DEF ReadVersion, ReadId, ReadShm, HasMsg, Ahead, server, held
<1>2. queue \in Seq(Message) /\ Ahead \in 1 .. Len(queue)
  BY <1>1, AheadInQueue
<1>3. Beyond(queue', Ahead') = Beyond(queue, Ahead)
  BY <1>1, <1>2, BeyondTail
<1>4. ClientView' = ClientView /\ ServerView' = ServerView
  BY <1>1 DEF ClientView, ServerView
<1> QED BY <1>1, <1>3, <1>4 DEF ViewInv

\* Handling a message takes the view where AfterMsg says.
LEMMA MsgView ==
  ASSUME ClientInv, ViewInv, FreePeer \/ NewVector
  PROVE  ViewInv'
<1> SUFFICES ASSUME conn = "live" PROVE ViewInv'
  BY DEF FreePeer, NewVector, ViewInv
<1>1. /\ queue # <<>> /\ queue' = Tail(queue) /\ Ahead = 0 /\ Ahead' = 0
      /\ UNCHANGED <<conn, connects, n_vectors, s_peers>>
  BY DEF FreePeer, NewVector, HasMsg, Ahead, server
<1>2. queue \in Seq(Message) /\ queue' \in Seq(Message)
  BY <1>1, HeadTailProperties DEF ClientInv, RecordsOK
<1>3. ClientView' = AfterMsg(ClientView, msg)
  <2>1. CASE FreePeer
    BY <2>1, FreePeerStep DEF FreePeer, AfterMsg
  <2>2. CASE NewVector
    BY <2>2, NewVectorStep DEF NewVector, AfterMsg
  <2> QED BY <2>1, <2>2
<1>4. AfterAll(ClientView, queue) = AfterAll(ClientView', queue')
  BY <1>1, <1>2, <1>3, AfterFirst DEF msg
<1>5. ServerView' = ServerView
  BY <1>1 DEF ServerView
<1>6. Beyond(queue, Ahead) = queue /\ Beyond(queue', Ahead') = queue'
  BY <1>1, <1>2, BeyondAll
<1> QED BY <1>1, <1>4, <1>5, <1>6 DEF ViewInv

\* The steps that touch neither the records nor what is under way.
LEMMA OtherView ==
  ASSUME ClientInv, ViewInv,
         UNCHANGED <<conn, queue, held, n_vectors, s_peers, connects>>,
         Ahead' = Ahead
  PROVE  ViewInv'
<1>1. ClientView' = ClientView /\ ServerView' = ServerView
  BY DEF held, ClientView, ServerView
<1> QED BY <1>1 DEF ViewInv

\* without a connection there is nothing to follow
LEMMA NoConnectionView ==
  ASSUME conn' # "live" PROVE ViewInv'
BY DEF ViewInv

(* What the client knows and what is under way to it is what the server    *)
(* knows: no announcement is lost, doubled or taken for another peer's,    *)
(* also when a peer leaves and comes back under the same id.               *)
THEOREM ClientViewFollowsServer == DoorbellSpec => []ViewFollowsServer
<1>1. DoorbellInit => ViewInv
  BY DEF DoorbellInit, ViewInv
<1>2. ClientInv /\ ViewInv /\ [DoorbellNext]_doorbell_vars => ViewInv'
  <2> SUFFICES ASSUME ClientInv, ViewInv, [DoorbellNext]_doorbell_vars
               PROVE  ViewInv'
    OBVIOUS
  <2>1. CASE World
    <3>1. CASE ServerStarts
      <4>1. conn' # "live"
        BY <3>1 DEF ServerStarts, ClientInv, ServerInv
      <4> QED BY <4>1, NoConnectionView
    <3>2. CASE ServerStops
      <4>1. conn' # "live"
        BY <3>2 DEF ServerStops
      <4> QED BY <4>1, NoConnectionView
    <3>3. CASE \E p \in Others : PeerJoins(p) \/ PeerLeaves(p)
      BY <3>3, JoinsView, LeavesView
    <3>4. CASE \E v \in 0 .. n_vectors - 1 : PeerRings(v)
      BY <3>4, OtherView DEF PeerRings, server, Ahead
    <3> QED BY <2>1, <3>1, <3>2, <3>3, <3>4 DEF World
  <2>2. CASE Client
    <3>1. CASE Connect
      BY <3>1, ConnectView
    <3>2. CASE ReadVersion \/ ReadId \/ ReadShm
      BY <3>2, HandshakeView
    <3>3. CASE ConnectFails
      BY <3>3, NoConnectionView DEF ConnectFails
    <3>4. CASE Select \/ HandleStdin \/ HandleEvent
      <4>1. Ahead' = Ahead
        BY <3>4 DEF Select, HandleStdin, HandleEvent, Ahead
      <4> QED BY <3>4, <4>1, OtherView
              DEF Select, HandleStdin, HandleEvent, server
    <3>5. CASE FreePeer \/ NewVector
      BY <3>5, MsgView
    <3>6. CASE MsgFails \/ NoMemory
      BY <3>6, NoConnectionView DEF MsgFails, NoMemory, Close
    <3> QED BY <2>2, <3>1, <3>2, <3>3, <3>4, <3>5, <3>6 DEF Client
  <2>3. CASE UNCHANGED doorbell_vars
    BY <2>3, OtherView DEF doorbell_vars, server, Ahead
  <2> QED BY <2>1, <2>2, <2>3 DEF DoorbellNext
<1>3. ClientInv /\ ViewInv => ViewFollowsServer
  <2> SUFFICES ASSUME ClientInv, ViewInv, Listening, conn = "live"
               PROVE  AfterAll(ClientView, queue) = ServerView
    BY DEF ViewFollowsServer, AfterAll
  <2>1. Ahead = 0
    BY DEF Listening, Ahead
  <2>2. Beyond(queue, 0) = queue
    BY BeyondAll DEF ClientInv, RecordsOK
  <2> QED BY <2>1, <2>2 DEF ViewInv
<1> QED BY <1>1, <1>2, <1>3, ClientInvariant, PTL DEF DoorbellSpec
=============================================================================
