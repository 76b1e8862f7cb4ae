----------------------------- MODULE TickProofs -----------------------------
(***************************************************************************)
(* Proofs about a turn of the main loop, for any connections, positions    *)
(* and numbers of packets.  The loops of the systems over the messages of  *)
(* a tick and over queues are folds; what they preserve is an instance of  *)
(* Folding for each of them.  The inductive invariant TInv says how the    *)
(* runtime of a connection, the stage of its client and what is queued for *)
(* it go together (Life), which batches of chunks are under way (Batch),   *)
(* who shows whom (Seen), and where the positions (At) and the digs (Dug)  *)
(* that clients sent are at each point of a tick.                          *)
(***************************************************************************)
EXTENDS Tick, FiniteSetTheorems, SequenceTheorems, TLAPS

Chunks == {"ChunkBatchStart", "MapChunk", "ChunkBatchFinished"}
Kinds  == PlayKinds \cup {"FinishConfiguration", "Login"}
Packet == [kind : Kinds, who : Conns \cup {0}, pos : Int]
Stages == {"new", "login", "configured", "play", "closed"}
Clients ==
  [stage : Stages, shown : [Conns -> Int \cup {Unseen}], batches : Nat, early : SUBSET PlayKinds]

Entered(c) == \E i \in 1 .. Len(enters) : enters[i] = c

Typed ==
  /\ pc \in 1 .. 9
  /\ rt \in [Conns -> {"none", "Login", "Configuration", "Play"}]
  /\ DOMAIN instance = Bound /\ \A c \in Bound : instance[c] \in Int
  /\ unsynced \subseteq Bound
  /\ urgent \in [Conns -> Seq(Packet)] /\ normal \in [Conns -> Seq(Packet)]
  /\ packets \in Seq(Conns \X {"dig", "place"}) /\ actions \in Seq(Conns \X {"dig", "place"})
  /\ enters \in Seq(Conns) /\ quits \in Seq(Conns) /\ raws \in Seq(Conns \X Positions)
  /\ dispatched \in [Conns -> Nat] /\ dug \in [Conns -> Nat]
  /\ client \in [Conns -> Clients]
  /\ reported \in [Conns -> Positions]

\* What no system has written yet in this tick, and what it leaves behind.
Unwritten ==
  /\ pc <= 2 => actions = <<>>
  /\ pc <= 7 => moves = <<>>
  /\ pc = 9 => enters = <<>> /\ raws = <<>> /\ moves = <<>> /\ actions = <<>>

\* The runtime of a connection, its client and what is queued for it agree.
Life(c) ==
  /\ rt[c] = "none" => client[c].stage \in {"new", "closed"} /\ urgent[c] = <<>> /\ normal[c] = <<>>
  /\ rt[c] = "Login" => client[c].stage = "login" /\ urgent[c] = <<>>
  /\ rt[c] = "Configuration" =>
       \/ client[c].stage = "login" /\ urgent[c] = <<Plain("FinishConfiguration")>>
       \/ client[c].stage = "configured" /\ urgent[c] = <<>>
  /\ rt[c] = "Play" /\ Entered(c) =>
       /\ client[c].stage = "configured" 
       /\ urgent[c] # <<>> /\ urgent[c][1] = Plain("Login")
       /\ \A i \in 2 .. Len(urgent[c]) : urgent[c][i].kind \in Chunks \cup {"SpawnEntity"}
  /\ rt[c] = "Play" /\ ~Entered(c) =>
       /\ client[c].stage = "play"
       /\ \A i \in 1 .. Len(urgent[c]) : urgent[c][i].kind \in Chunks \cup {"SpawnEntity"}
  /\ Entered(c) => rt[c] = "Play" \/ client[c].stage = "closed"
  /\ \A i \in 1 .. Len(normal[c]) : normal[c][i].kind = "WindowItems"
  /\ \A i \in 1 .. Len(quits) : quits[i] = c => client[c].stage = "closed"

Once == \A i, j \in 1 .. Len(enters) : enters[i] = enters[j] => i = j

\* Position i of a queue ends a batch.
Ends(q, i) == q[i].kind = "ChunkBatchFinished"
OneBatch(q) == \E i \in 1 .. Len(q) : Ends(q, i) /\ \A j \in 1 .. Len(q) : Ends(q, j) => j = i
NoBatch(q) == \A i \in 1 .. Len(q) : ~Ends(q, i)

Batch(c) ==
  /\ client[c].early \subseteq {"WindowItems"}
  /\ rt[c] = "Play" /\ ~Entered(c) => client[c].batches = 1
  /\ rt[c] # "none" /\ (rt[c] # "Play" \/ Entered(c)) => client[c].batches = 0
  /\ client[c].stage = "new" => client[c].batches = 0
  /\ client[c].batches \in {0, 1}
  /\ IF rt[c] = "Play" /\ Entered(c) /\ pc > 3 THEN OneBatch(urgent[c]) ELSE NoBatch(urgent[c])

Spawned(q, b) == \E i \in 1 .. Len(q) : q[i].kind = "SpawnEntity" /\ q[i].who = b

\* Who shows whom, at once or when its queue is flushed.
Seen ==
  \A a, b \in Playing : a # b =>
    /\ ~Entered(a) /\ ~Entered(b) => client[a].shown[b] # Unseen
    /\ (Entered(a) \/ Entered(b)) /\ pc > 4 => Spawned(urgent[a], b)

\* The last of the first n movements of c in this tick is p.
Latest(c, p, n) ==
  \E i \in 1 .. n : raws[i] = <<c, p>> /\ \A j \in i + 1 .. n : raws[j][1] # c
Still(c, n) == \A i \in 1 .. n : raws[i][1] # c

\* At or below q, but through no ground.
Below(p, q) == p <= q /\ \A g \in Ground : g <= q => g <= p

At(c) ==
  /\ c \in Bound =>
       \/ IF pc <= 7 THEN Latest(c, reported[c], Len(raws)) ELSE instance[c] = reported[c]
       \/ Still(c, Len(raws)) /\ Below(instance[c], reported[c])
  /\ client[c].stage = "new" => Still(c, Len(raws)) /\ reported[c] = Origin

Pending(c) == dispatched[c] + Digs(packets, c) + (IF pc <= 5 THEN Digs(actions, c) ELSE 0)

Dug(c) ==
  /\ Pending(c) <= dug[c]
  /\ client[c].stage # "closed" => Pending(c) = dug[c]
  /\ client[c].stage = "new" => dug[c] = 0

TInv ==
  /\ Typed /\ Unwritten /\ Once /\ Seen
  /\ \A c \in Conns : Life(c) /\ Batch(c) /\ At(c) /\ Dug(c)

----------------------------------------------------------------------------
(* Systems, connections and queues *)

\* The systems of the model in their order.
LEMMA Turns ==
  ASSUME pc \in 1 .. 9
  PROVE  /\ Runs("network_receive") <=> pc = 1
         /\ Runs("packet_action_system") <=> pc = 2
         /\ Runs("chunk_send") <=> pc = 3
         /\ Runs("entity_sync") <=> pc = 4
         /\ Runs("block_interaction_validator") <=> pc = 5
         /\ Runs("inventory_sync") <=> pc = 6
         /\ Runs("player_input") <=> pc = 7
         /\ Runs("network_send") <=> pc = 8
         /\ InstancesRun <=> pc = 9
<1>1. pc = 1 \/ pc = 2 \/ pc = 3 \/ pc = 4 \/ pc = 5 \/ pc = 6 \/ pc = 7 \/ pc = 8 \/ pc = 9
  OBVIOUS
<1>2. /\ DOMAIN Order = 1 .. 8 /\ Len(Order) = 8
      /\ Order[1] = "network_receive" /\ Order[2] = "packet_action_system"
      /\ Order[3] = "chunk_send" /\ Order[4] = "entity_sync"
      /\ Order[5] = "block_interaction_validator" /\ Order[6] = "inventory_sync"
      /\ Order[7] = "player_input" /\ Order[8] = "network_send"
  BY OrderAssumption
<1> QED BY <1>1, <1>2 DEF Runs, InstancesRun

LEMMA Connections ==
  /\ Playing \subseteq Bound /\ Bound \subseteq Conns
  /\ \A c \in Conns : c \in Bound <=> rt[c] # "none"
  /\ \A c \in Conns : c \in Playing <=> rt[c] = "Play"
  /\ 0 \notin Conns
  BY ConnsAssumption DEF Playing, Bound

\* The packets the systems queue.
LEMMA Packets ==
  /\ \A k \in Kinds : Plain(k) \in Packet /\ Plain(k).kind = k
  /\ Chunks \subseteq Kinds /\ "SpawnEntity" \in Kinds /\ "WindowItems" \in Kinds
  /\ Typed => \A d \in Bound :
       Show(d) \in Packet /\ Show(d).kind = "SpawnEntity" /\ Show(d).who = d
<1>1. \A k \in Kinds : Plain(k) \in Packet /\ Plain(k).kind = k
  BY DEF Plain, Packet
<1>2. Chunks \subseteq Kinds /\ "SpawnEntity" \in Kinds /\ "WindowItems" \in Kinds
  BY DEF Chunks, Kinds, PlayKinds
<1>3. ASSUME Typed, NEW d \in Bound
      PROVE  Show(d) \in Packet /\ Show(d).kind = "SpawnEntity" /\ Show(d).who = d
  <2>1. instance[d] \in Int /\ d \in Conns
    BY <1>3, PositionsAssumption, Connections DEF Typed
  <2> QED BY <1>2, <2>1 DEF Show, Packet
<1> QED BY <1>1, <1>2, <1>3

\* r is q with packets of kinds K behind it.
Extends(r, q, K) ==
  /\ r \in Seq(Packet) /\ Len(q) <= Len(r)
  /\ \A i \in 1 .. Len(q) : r[i] = q[i]
  /\ \A i \in 1 .. Len(r) : i > Len(q) => r[i].kind \in K

LEMMA ExtendsSelf ==
  ASSUME NEW q \in Seq(Packet), NEW K
  PROVE  Extends(q, q, K) /\ Len(q) \in Nat
  BY LenProperties DEF Extends

LEMMA ExtendsConcat ==
  ASSUME NEW q \in Seq(Packet), NEW r, NEW K, Extends(r, q, K),
         NEW s \in Seq(Packet), \A i \in 1 .. Len(s) : s[i].kind \in K
  PROVE  /\ Extends(r \o s, q, K) /\ Extends(r \o s, r, K)
         /\ Len(r \o s) = Len(r) + Len(s) /\ Len(r) \in Nat /\ Len(s) \in Nat
         /\ \A i \in 1 .. Len(r) : (r \o s)[i] = r[i]
         /\ \A i \in 1 .. Len(s) : (r \o s)[Len(r) + i] = s[i]
<1>1. /\ r \in Seq(Packet) /\ Len(q) \in Nat /\ Len(r) \in Nat /\ Len(s) \in Nat /\ Len(q) <= Len(r)
      /\ \A i \in 1 .. Len(q) : r[i] = q[i]
      /\ \A i \in 1 .. Len(r) : i > Len(q) => r[i].kind \in K
  BY LenProperties DEF Extends
<1> DEFINE t == r \o s
<1>2. /\ t \in Seq(Packet) /\ Len(t) = Len(r) + Len(s)
      /\ \A i \in 1 .. Len(t) : t[i] = IF i <= Len(r) THEN r[i] ELSE s[i - Len(r)]
  BY <1>1, ConcatProperties
<1> HIDE DEF t
<1>3. /\ \A i \in 1 .. Len(r) : t[i] = r[i]
      /\ \A i \in 1 .. Len(t) : i > Len(r) => i - Len(r) \in 1 .. Len(s) /\ t[i] = s[i - Len(r)]
  BY <1>1, <1>2
<1>4. \A i \in 1 .. Len(s) : t[Len(r) + i] = s[i]
  BY <1>1, <1>2
<1>5. \A i \in 1 .. Len(t) : i > Len(r) => t[i].kind \in K
  BY <1>3
<1>6. ASSUME NEW i \in 1 .. Len(t), i > Len(q)
      PROVE  t[i].kind \in K
  <2>1. CASE i > Len(r)
    BY <1>5, <2>1
  <2>2. CASE ~(i > Len(r))
    <3>1. i \in 1 .. Len(r)
      BY <1>1, <1>2, <2>2
    <3>2. t[i] = r[i] /\ r[i].kind \in K
      BY <1>1, <1>3, <1>6, <3>1
    <3> QED BY <3>2
  <2> QED BY <2>1, <2>2
<1>7. \A i \in 1 .. Len(q) : t[i] = q[i]
  BY <1>1, <1>3
<1> QED BY <1>1, <1>2, <1>3, <1>4, <1>5, <1>6, <1>7 DEF Extends, t

LEMMA ExtendsAppend ==
  ASSUME NEW q \in Seq(Packet), NEW r, NEW K, Extends(r, q, K),
         NEW p \in Packet, p.kind \in K
  PROVE  /\ Extends(Append(r, p), q, K) /\ Extends(Append(r, p), r, K)
         /\ Len(Append(r, p)) = Len(r) + 1 /\ Append(r, p)[Len(r) + 1] = p
<1>1. /\ r \in Seq(Packet) /\ Len(q) \in Nat /\ Len(r) \in Nat /\ Len(q) <= Len(r)
      /\ \A i \in 1 .. Len(q) : r[i] = q[i]
      /\ \A i \in 1 .. Len(r) : i > Len(q) => r[i].kind \in K
  BY LenProperties DEF Extends
<1> DEFINE t == Append(r, p)
<1>2. /\ t \in Seq(Packet) /\ Len(t) = Len(r) + 1 /\ t[Len(r) + 1] = p
      /\ \A i \in 1 .. Len(r) : t[i] = r[i]
  BY <1>1, AppendProperties
<1> HIDE DEF t
<1>3. \A i \in 1 .. Len(t) : i \in 1 .. Len(r) \/ i = Len(r) + 1
  BY <1>1, <1>2
<1>4. \A i \in 1 .. Len(t) : i > Len(r) => t[i].kind \in K
  BY <1>1, <1>2, <1>3
<1>5. \A i \in 1 .. Len(t) : i > Len(q) => t[i].kind \in K
  BY <1>1, <1>2, <1>3
<1>6. \A i \in 1 .. Len(q) : t[i] = q[i]
  BY <1>1, <1>2
<1>7. Len(r) <= Len(t) /\ Len(q) <= Len(t)
  BY <1>1, <1>2
<1>8. Extends(t, q, K) /\ Extends(t, r, K)
  BY <1>2, <1>4, <1>5, <1>6, <1>7 DEF Extends
<1> QED BY <1>2, <1>8 DEF t

LEMMA ExtendsTransitive ==
  ASSUME NEW q \in Seq(Packet), NEW r, NEW t, NEW K, Extends(r, q, K), Extends(t, r, K)
  PROVE  Extends(t, q, K)
<1>1. /\ r \in Seq(Packet) /\ t \in Seq(Packet)
      /\ Len(q) \in Nat /\ Len(r) \in Nat /\ Len(t) \in Nat /\ Len(q) <= Len(r) /\ Len(r) <= Len(t)
  BY LenProperties DEF Extends
<1>2. ASSUME NEW i \in 1 .. Len(q)
      PROVE  t[i] = q[i]
  BY <1>1 DEF Extends
<1>3. ASSUME NEW i \in 1 .. Len(t), i > Len(q)
      PROVE  t[i].kind \in K
  <2>1. CASE i <= Len(r)
    BY <1>1, <1>3, <2>1 DEF Extends
  <2>2. CASE i > Len(r)
    BY <1>1, <1>3, <2>2 DEF Extends
  <2> QED BY <1>1, <2>1, <2>2
<1> QED BY <1>1, <1>2, <1>3 DEF Extends

\* What a queue shows it goes on showing.
LEMMA SpawnedExtends ==
  ASSUME NEW q \in Seq(Packet), NEW r, NEW K, Extends(r, q, K), NEW b, Spawned(q, b)
  PROVE  Spawned(r, b)
<1>1. PICK i \in 1 .. Len(q) : q[i].kind = "SpawnEntity" /\ q[i].who = b
  BY DEF Spawned
<1>2. r \in Seq(Packet) /\ Len(q) \in Nat /\ Len(r) \in Nat /\ i \in 1 .. Len(r) /\ r[i] = q[i]
  BY LenProperties DEF Extends
<1> QED BY <1>1, <1>2 DEF Spawned

\* Packets that end no batch leave the batches alone.
LEMMA BatchesExtend ==
  ASSUME NEW q \in Seq(Packet), NEW r, NEW K, Extends(r, q, K), "ChunkBatchFinished" \notin K
  PROVE  (OneBatch(q) => OneBatch(r)) /\ (NoBatch(q) => NoBatch(r))
<1>1. /\ Len(q) \in Nat /\ Len(r) \in Nat /\ Len(q) <= Len(r)
      /\ \A i \in 1 .. Len(q) : i \in 1 .. Len(r) /\ (Ends(r, i) <=> Ends(q, i))
      /\ \A i \in 1 .. Len(r) : i \in 1 .. Len(q) \/ ~Ends(r, i)
  <2>1. r \in Seq(Packet) /\ Len(q) \in Nat /\ Len(r) \in Nat /\ Len(q) <= Len(r)
    BY LenProperties DEF Extends
  <2> QED BY <2>1 DEF Extends, Ends
<1> QED BY <1>1 DEF OneBatch, NoBatch

----------------------------------------------------------------------------
(* What the loops of the systems do *)

\* All elements of a finite set, in some order.
LEMMA SetInSequence ==
  ASSUME NEW S, IsFiniteSet(S)
  PROVE  /\ SetToSeq(S) \in Seq(S)
         /\ \A x \in S : \E i \in 1 .. Len(SetToSeq(S)) : SetToSeq(S)[i] = x
<1> DEFINE n == Cardinality(S)
<1>1. n \in Nat /\ \E f : f \in Bijection(1 .. n, S)
  BY FS_CardinalityType, FS_NatBijection DEF ExistsBijection
<1>2. PICK f : f \in Bijection(1 .. n, S)
  BY <1>1
<1>3. f \in [1 .. n -> S] /\ IsInjective(f)
  BY <1>2 DEF Bijection, Injection, IsInjective
<1>4. PICK g : g = SetToSeq(S)
  OBVIOUS
<1>5. g \in [1 .. n -> S] /\ IsInjective(g)
  BY <1>3, <1>4 DEF SetToSeq
<1>6. g \in Seq(S) /\ Len(g) = n
  BY <1>1, <1>5, IsASeq, LenProperties
<1>7. IsFiniteSet(1 .. n) /\ Cardinality(1 .. n) = n
  BY <1>1, FS_Interval
<1> DEFINE R == {g[i] : i \in 1 .. n}
<1>8. g \in Bijection(1 .. n, R)
  BY <1>5 DEF Bijection, Injection, Surjection, IsInjective
<1>9. Cardinality(R) = n /\ IsFiniteSet(R)
  <2> HIDE DEF R, n
  <2>1. ExistsBijection(1 .. n, R)
    BY <1>8 DEF ExistsBijection
  <2> QED BY <1>7, <2>1, FS_Bijection
<1>10. R \subseteq S
  BY <1>5
<1>11. R = S
  BY <1>9, <1>10, FS_Subset
<1> QED BY <1>4, <1>6, <1>11

\* The digs of c among the first n of a line.
FirstDigs(q, c, n) == Cardinality({i \in 1 .. n : q[i] = <<c, "dig">>})

LEMMA FirstDigsStep ==
  ASSUME NEW q, NEW c, NEW n \in Nat
  PROVE  /\ FirstDigs(q, c, n) \in Nat /\ FirstDigs(q, c, 0) = 0
         /\ FirstDigs(q, c, n + 1) = FirstDigs(q, c, n) + (IF q[n + 1] = <<c, "dig">> THEN 1 ELSE 0)
<1> DEFINE S == {i \in 1 .. n : q[i] = <<c, "dig">>}
           T == {i \in 1 .. n + 1 : q[i] = <<c, "dig">>}
<1>1. IsFiniteSet(S)
  <2>1. IsFiniteSet(1 .. n)
    BY FS_Interval
  <2> QED BY <2>1, FS_Subset
<1>2. Cardinality(S) \in Nat
  BY <1>1, FS_CardinalityType
<1>3. Cardinality(T) = Cardinality(S) + (IF q[n + 1] = <<c, "dig">> THEN 1 ELSE 0)
  <2>1. CASE q[n + 1] = <<c, "dig">>
    <3>1. T = S \cup {n + 1} /\ n + 1 \notin S
      BY <2>1
    <3> HIDE DEF S, T
    <3> QED BY <1>1, <2>1, <3>1, FS_AddElement
  <2>2. CASE q[n + 1] # <<c, "dig">>
    <3>1. T = S
      BY <2>2
    <3> HIDE DEF S, T
    <3> QED BY <1>2, <2>2, <3>1
  <2> QED BY <2>1, <2>2
<1>4. FirstDigs(q, c, n) = Cardinality(S) /\ FirstDigs(q, c, n + 1) = Cardinality(T)
  BY DEF FirstDigs
<1>5. FirstDigs(q, c, 0) = 0
  <2>1. {i \in 1 .. 0 : q[i] = <<c, "dig">>} = {}
    OBVIOUS
  <2> QED BY <2>1, FS_EmptySet DEF FirstDigs
<1> HIDE DEF S, T
<1> QED BY <1>2, <1>3, <1>4, <1>5

LEMMA DigsFacts ==
  ASSUME NEW X, NEW q \in Seq(X), NEW c
  PROVE  /\ Digs(q, c) = FirstDigs(q, c, Len(q)) /\ Digs(q, c) \in Nat /\ Digs(<<>>, c) = 0
         /\ \A x \in X : Digs(Append(q, x), c) = Digs(q, c) + (IF x = <<c, "dig">> THEN 1 ELSE 0)
<1>1. Len(q) \in Nat /\ DOMAIN q = 1 .. Len(q)
  BY LenProperties
<1>2. Digs(q, c) = FirstDigs(q, c, Len(q))
  BY <1>1 DEF Digs, FirstDigs
<1>3. ASSUME NEW x \in X
      PROVE  Digs(Append(q, x), c) = Digs(q, c) + (IF x = <<c, "dig">> THEN 1 ELSE 0)
  <2> DEFINE t == Append(q, x)
             n == Len(q)
  <2>1. /\ t \in Seq(X) /\ DOMAIN t = 1 .. n + 1 /\ t[n + 1] = x
        /\ \A i \in 1 .. n : t[i] = q[i]
    <3>1. t \in Seq(X) /\ Len(t) = n + 1 /\ t[n + 1] = x /\ \A i \in 1 .. n : t[i] = q[i]
      BY <1>1, AppendProperties
    <3> QED BY <3>1, LenProperties
  <2> HIDE DEF t
  <2>2. FirstDigs(t, c, n) = FirstDigs(q, c, n)
    <3>1. {i \in 1 .. n : t[i] = <<c, "dig">>} = {i \in 1 .. n : q[i] = <<c, "dig">>}
      BY <2>1
    <3> QED BY <3>1 DEF FirstDigs
  <2>3. Digs(t, c) = FirstDigs(t, c, n + 1)
    BY <2>1 DEF Digs, FirstDigs
  <2>4. FirstDigs(t, c, n + 1) = FirstDigs(t, c, n) + (IF t[n + 1] = <<c, "dig">> THEN 1 ELSE 0)
    BY <1>1, FirstDigsStep
  <2>5. Digs(t, c) = Digs(q, c) + (IF x = <<c, "dig">> THEN 1 ELSE 0)
    BY <1>2, <2>1, <2>2, <2>3, <2>4
  <2> QED BY <2>5 DEF t
<1>4. Digs(<<>>, c) = 0
  <2>1. {i \in DOMAIN <<>> : <<>>[i] = <<c, "dig">>} = {}
    OBVIOUS
  <2> QED BY <2>1, FS_EmptySet DEF Digs
<1> QED BY <1>1, <1>2, <1>3, <1>4, FirstDigsStep

\* packet_action passes on the digs of those that are still connected.
Acts == Conns \X {"dig", "place"}
PassIn(a, p, z) == Pass(a, p)
Passed(a, n, z) ==
  a \in Seq(Acts) /\ \A c \in Conns : Digs(a, c) = IF c \in z[1] THEN FirstDigs(z[2], c, n) ELSE 0
Passing == INSTANCE Folding WITH Op <- PassIn, P <- Passed

LEMMA PassesDigs ==
  ASSUME packets \in Seq(Acts), actions = <<>>
  PROVE  LET a == FoldLeft(Pass, actions, packets)
         IN  /\ a \in Seq(Acts)
             /\ \A c \in Conns : Digs(a, c) = IF c \in Bound THEN Digs(packets, c) ELSE 0
<1> DEFINE z == <<Bound, packets>>
           a == FoldLeft(Pass, actions, packets)
<1>1. a = Passing!OverSeq(actions, packets, z)
  BY DEF FoldLeft, Passing!OverSeq, MapThenFoldSet, Passing!MapThenFoldSet, Max, Passing!Largest, PassIn
<1>2. Passed(actions, 0, z)
  <2>1. actions \in Seq(Acts)
    BY EmptySeq
  <2>2. \A c \in Conns : Digs(actions, c) = 0 /\ FirstDigs(packets, c, 0) = 0
    BY DigsFacts, FirstDigsStep
  <2> QED BY <2>1, <2>2 DEF Passed
<1>3. ASSUME NEW b, NEW i \in 1 .. Len(packets), Passed(b, i - 1, z)
      PROVE  Passed(PassIn(b, packets[i], z), i, z)
  <2>1. packets[i] \in Acts /\ i - 1 \in Nat /\ (i - 1) + 1 = i /\ Len(packets) \in Nat
    BY LenProperties, ElementOfSeq
  <2>2. b \in Seq(Acts) /\ \A c \in Conns : Digs(b, c) = IF c \in Bound THEN FirstDigs(packets, c, i - 1) ELSE 0
    BY <1>3 DEF Passed
  <2>3. PICK p \in Acts : p = packets[i]
    BY <2>1
  <2>4. \A c \in Conns : FirstDigs(packets, c, i)
                           = FirstDigs(packets, c, i - 1) + (IF p = <<c, "dig">> THEN 1 ELSE 0)
    <3>1. PICK k \in Nat : k = i - 1 /\ i = k + 1
      BY <2>1
    <3>2. \A c \in Conns : FirstDigs(packets, c, k + 1)
                             = FirstDigs(packets, c, k) + (IF packets[k + 1] = <<c, "dig">> THEN 1 ELSE 0)
      BY FirstDigsStep
    <3> QED BY <2>3, <3>1, <3>2
  <2>5. \A c \in Conns : FirstDigs(packets, c, i - 1) \in Nat
    BY <2>1, FirstDigsStep
  <2>6. p[1] \in Conns /\ \A c \in Conns : p = <<c, "dig">> => c = p[1]
    BY DEF Acts
  <2>7. CASE p[1] \in Bound
    <3>1. PassIn(b, packets[i], z) = Append(b, p)
      BY <2>3, <2>7 DEF PassIn, Pass
    <3>2. /\ Append(b, p) \in Seq(Acts)
          /\ \A c \in Conns : Digs(Append(b, p), c) = Digs(b, c) + (IF p = <<c, "dig">> THEN 1 ELSE 0)
      BY <2>2, DigsFacts, AppendProperties
    <3>3. \A c \in Conns : Digs(Append(b, p), c) = IF c \in Bound THEN FirstDigs(packets, c, i) ELSE 0
      <4> SUFFICES ASSUME NEW c \in Conns
                   PROVE Digs(Append(b, p), c) = IF c \in Bound THEN FirstDigs(packets, c, i) ELSE 0
        OBVIOUS
      <4>1. CASE c \in Bound
        BY <2>2, <2>4, <3>2, <4>1
      <4>2. CASE c \notin Bound
        BY <2>2, <2>6, <2>7, <3>2, <4>2
      <4> QED BY <4>1, <4>2
    <3> QED BY <3>1, <3>2, <3>3 DEF Passed
  <2>8. CASE p[1] \notin Bound
    <3>1. PassIn(b, packets[i], z) = b
      BY <2>3, <2>8 DEF PassIn, Pass
    <3>2. \A c \in Conns : c \in Bound => FirstDigs(packets, c, i) = FirstDigs(packets, c, i - 1)
      BY <2>4, <2>5, <2>6, <2>8
    <3> QED BY <2>2, <3>1, <3>2 DEF Passed
  <2> QED BY <2>7, <2>8
<1> HIDE DEF a, z
<1>4. Passed(a, Len(packets), z)
  BY <1>1, <1>2, <1>3, Passing!OverSeqInduction
<1>5. \A c \in Conns : Digs(packets, c) = FirstDigs(packets, c, Len(packets))
  BY DigsFacts
<1> QED BY <1>4, <1>5 DEF Passed, a, z

\* chunk_send queues one batch for each player that has entered and is still there.
ChunkIn(a, c, z) == SendBatch(a, c)
SentTo(a, n, z) ==
  /\ a \in [Conns -> Seq(Packet)]
  /\ \A d \in Conns :
       /\ Extends(a[d], urgent[d], Chunks)
       /\ d \notin Playing => a[d] = urgent[d]
       /\ NoBatch(urgent[d]) =>
            IF d \in Bound /\ \E i \in 1 .. n : enters[i] = d THEN OneBatch(a[d]) ELSE NoBatch(a[d])
Sending == INSTANCE Folding WITH Op <- ChunkIn, P <- SentTo

LEMMA BatchAdded ==
  ASSUME NEW q \in Seq(Packet), NEW r, Extends(r, q, Chunks)
  PROVE  LET t == r \o <<Plain("ChunkBatchStart"), Plain("MapChunk"), Plain("ChunkBatchFinished")>>
         IN  Extends(t, q, Chunks) /\ (NoBatch(r) => OneBatch(t))
<1> DEFINE s == <<Plain("ChunkBatchStart"), Plain("MapChunk"), Plain("ChunkBatchFinished")>>
           t == r \o s
<1>1. /\ s \in Seq(Packet) /\ Len(s) = 3 /\ \A i \in 1 .. 3 : s[i].kind \in Chunks
      /\ s[1].kind = "ChunkBatchStart" /\ s[2].kind = "MapChunk" /\ s[3].kind = "ChunkBatchFinished"
  <2>1. Plain("ChunkBatchStart") \in Packet /\ Plain("MapChunk") \in Packet
        /\ Plain("ChunkBatchFinished") \in Packet
    BY Packets DEF Chunks
  <2>2. s \in Seq(Packet) /\ Len(s) = 3
    BY <2>1
  <2> QED BY <2>2 DEF Plain, Chunks
<1> HIDE DEF s
<1>2. /\ Extends(t, q, Chunks) /\ Len(t) = Len(r) + 3 /\ Len(r) \in Nat
      /\ \A i \in 1 .. Len(r) : t[i] = r[i]
      /\ \A i \in 1 .. 3 : t[Len(r) + i] = s[i]
  <2>1. /\ Extends(t, q, Chunks) /\ Len(t) = Len(r) + Len(s) /\ Len(r) \in Nat
        /\ \A i \in 1 .. Len(r) : t[i] = r[i]
        /\ \A i \in 1 .. Len(s) : t[Len(r) + i] = s[i]
    <3>1. \A i \in 1 .. Len(s) : s[i].kind \in Chunks
      BY <1>1
    <3>2. PICK u \in Seq(Packet) : u = s
      BY <1>1
    <3>3. PICK v : v = r \o u
      OBVIOUS
    <3>4. v = t
      BY <3>2, <3>3
    <3>5. /\ Extends(v, q, Chunks) /\ Len(v) = Len(r) + Len(u) /\ Len(r) \in Nat
          /\ \A i \in 1 .. Len(r) : v[i] = r[i]
          /\ \A i \in 1 .. Len(u) : v[Len(r) + i] = u[i]
      BY <3>1, <3>2, <3>3, ExtendsConcat
    <3> HIDE DEF t
    <3> QED BY <3>2, <3>4, <3>5
  <2> QED BY <1>1, <2>1
<1> HIDE DEF t
<1>3. ASSUME NoBatch(r)
      PROVE  OneBatch(t)
  <2>1. ASSUME NEW j \in 1 .. Len(t), Ends(t, j)
        PROVE  j = Len(r) + 3
    <3>1. j \in 1 .. Len(r) \/ j = Len(r) + 1 \/ j = Len(r) + 2 \/ j = Len(r) + 3
      BY <1>2
    <3>2. j \notin 1 .. Len(r)
      BY <1>2, <1>3, <2>1 DEF NoBatch, Ends
    <3>3. j # Len(r) + 1 /\ j # Len(r) + 2
      BY <1>1, <1>2, <2>1 DEF Ends
    <3> QED BY <3>1, <3>2, <3>3
  <2>2. Len(r) + 3 \in 1 .. Len(t) /\ Ends(t, Len(r) + 3)
    BY <1>1, <1>2 DEF Ends
  <2> QED BY <2>1, <2>2 DEF OneBatch
<1> QED BY <1>2, <1>3 DEF t, s

\* Who has entered and is still there is in play.
LEMMA EnteredPlays ==
  ASSUME Typed, NEW c \in Bound, Life(c), Entered(c)
  PROVE  c \in Playing
<1>1. c \in Conns /\ rt[c] \in {"Login", "Configuration", "Play"}
  BY DEF Bound, Typed
<1>2. rt[c] # "Play" => client[c].stage # "closed"
  BY <1>1 DEF Life
<1>3. rt[c] = "Play"
  BY <1>2 DEF Life
<1> QED BY <1>1, <1>3, Connections

LEMMA SendsBatches ==
  ASSUME Typed, Once, \A c \in Conns : Life(c)
  PROVE  SentTo(FoldLeft(SendBatch, urgent, enters), Len(enters), 0)
<1> DEFINE a == FoldLeft(SendBatch, urgent, enters)
<1>1. a = Sending!OverSeq(urgent, enters, 0)
  BY DEF FoldLeft, Sending!OverSeq, MapThenFoldSet, Sending!MapThenFoldSet, Max, Sending!Largest, ChunkIn
<1> HIDE DEF a
<1>2. /\ enters \in Seq(Conns) /\ urgent \in [Conns -> Seq(Packet)] /\ DOMAIN instance = Bound
  BY DEF Typed
<1>3. SentTo(urgent, 0, 0)
  BY <1>2, ExtendsSelf DEF SentTo
<1>4. ASSUME NEW b, NEW i \in 1 .. Len(enters), SentTo(b, i - 1, 0)
      PROVE  SentTo(ChunkIn(b, enters[i], 0), i, 0)
  <2>1. enters[i] \in Conns /\ Len(enters) \in Nat /\ i \in Nat
    BY <1>2, LenProperties, ElementOfSeq
  <2>2. PICK c \in Conns : c = enters[i]
    BY <2>1
  <2>3. \A j \in 1 .. i : j \in 1 .. i - 1 \/ j = i
    BY <2>1
  <2>4. \A j \in 1 .. i - 1 : j \in 1 .. i /\ j \in 1 .. Len(enters) /\ j # i
    BY <2>1
  <2>5. \A j \in 1 .. i - 1 : enters[j] # c
    BY <2>2, <2>4 DEF Once
  <2>6. b \in [Conns -> Seq(Packet)]
    BY <1>4 DEF SentTo
  <2>7. CASE c \notin Bound
    <3>1. ChunkIn(b, enters[i], 0) = b
      BY <1>2, <2>2, <2>7 DEF ChunkIn, SendBatch
    <3>2. \A d \in Bound : (\E j \in 1 .. i : enters[j] = d) <=> (\E j \in 1 .. i - 1 : enters[j] = d)
      BY <2>2, <2>3, <2>4, <2>7
    <3> QED BY <1>4, <3>1, <3>2 DEF SentTo
  <2>8. CASE c \in Bound
    <3> DEFINE x == b[c] \o <<Plain("ChunkBatchStart"), Plain("MapChunk"), Plain("ChunkBatchFinished")>>
    <3>1. ChunkIn(b, enters[i], 0) = [b EXCEPT ![c] = x]
      BY <1>2, <2>2, <2>8 DEF ChunkIn, SendBatch
    <3>2. c \in Playing
      <4>1. Entered(c)
        BY <2>2 DEF Entered
      <4> QED BY <2>8, <4>1, EnteredPlays
    <3>3. Extends(x, urgent[c], Chunks) /\ (NoBatch(b[c]) => OneBatch(x))
      <4>1. Extends(b[c], urgent[c], Chunks) /\ urgent[c] \in Seq(Packet)
        BY <1>2, <1>4 DEF SentTo
      <4> QED BY <4>1, BatchAdded
    <3>4. NoBatch(urgent[c]) => OneBatch(x)
      BY <1>4, <2>5, <3>3 DEF SentTo
    <3> HIDE DEF x
    <3>5. x \in Seq(Packet)
      BY <3>3 DEF Extends
    <3>6. PICK w : w = [b EXCEPT ![c] = x]
      OBVIOUS
    <3>7. w \in [Conns -> Seq(Packet)] /\ w[c] = x /\ \A d \in Conns : d # c => w[d] = b[d]
      BY <2>6, <3>5, <3>6
    <3>8. ASSUME NEW d \in Conns
          PROVE  /\ Extends(w[d], urgent[d], Chunks)
                 /\ d \notin Playing => w[d] = urgent[d]
                 /\ NoBatch(urgent[d]) =>
                      IF d \in Bound /\ \E j \in 1 .. i : enters[j] = d THEN OneBatch(w[d]) ELSE NoBatch(w[d])
      <4>1. CASE d = c
        <5>1. d \in Bound /\ \E j \in 1 .. i : enters[j] = d
          BY <2>1, <2>2, <2>8, <4>1
        <5> QED BY <3>2, <3>3, <3>4, <3>7, <4>1, <5>1
      <4>2. CASE d # c
        <5>1. (\E j \in 1 .. i : enters[j] = d) <=> (\E j \in 1 .. i - 1 : enters[j] = d)
          BY <2>2, <2>3, <2>4, <4>2
        <5> QED BY <1>4, <3>7, <4>2, <5>1 DEF SentTo
      <4> QED BY <4>1, <4>2
    <3> QED BY <3>1, <3>6, <3>7, <3>8 DEF SentTo
  <2> QED BY <2>7, <2>8
<1>5. SentTo(a, Len(enters), 0)
  BY <1>1, <1>2, <1>3, <1>4, Sending!OverSeqInduction
<1> QED BY <1>5 DEF a

\* entity_sync shows the player that enters and those that are there to each other.
LEMMA ShowsOthers ==
  ASSUME Typed, NEW c
  PROVE  \E s \in Seq(Packet) :
           /\ s = [i \in DOMAIN Others(c, Bound) |-> Show(Others(c, Bound)[i])]
           /\ \A i \in 1 .. Len(s) : s[i].kind \in {"SpawnEntity"}
           /\ \A b \in Bound : b # c => Spawned(s, b)
<1>1. PICK o : o = Others(c, Bound)
  OBVIOUS
<1>2. o \in Seq(Bound \ {c}) /\ \A x \in Bound \ {c} : \E i \in 1 .. Len(o) : o[i] = x
  <2>1. IsFiniteSet(Bound \ {c})
    BY ConnsAssumption, Connections, FS_Subset
  <2> QED BY <1>1, <2>1, SetInSequence DEF Others
<1>3. Len(o) \in Nat /\ DOMAIN o = 1 .. Len(o) /\ \A i \in 1 .. Len(o) : o[i] \in Bound
  BY <1>2, LenProperties, ElementOfSeq
<1>4. PICK s : s = [i \in 1 .. Len(o) |-> Show(o[i])]
  OBVIOUS
<1>5. \A i \in 1 .. Len(o) : s[i] \in Packet /\ s[i].kind = "SpawnEntity" /\ s[i].who = o[i]
  BY <1>3, <1>4, Packets
<1>6. s \in Seq(Packet) /\ Len(s) = Len(o)
  <2>1. s \in [1 .. Len(o) -> Packet]
    BY <1>4, <1>5
  <2> QED BY <1>3, <2>1, IsASeq, LenProperties
<1>7. \A b \in Bound : b # c => Spawned(s, b)
  BY <1>2, <1>5, <1>6 DEF Spawned
<1> QED BY <1>1, <1>3, <1>4, <1>5, <1>6, <1>7

LEMMA EnterSyncShows ==
  ASSUME Typed, NEW c \in Playing, NEW b \in [Conns -> Seq(Packet)]
  PROVE  LET w == EnterSync(b, c)
         IN  /\ w \in [Conns -> Seq(Packet)]
             /\ \A d \in Conns : Extends(w[d], b[d], {"SpawnEntity"}) /\ (d \notin Playing => w[d] = b[d])
             /\ \A y \in Playing : y # c => Spawned(w[c], y) /\ Spawned(w[y], c)
<1>1. PICK s \in Seq(Packet) :
           /\ s = [i \in DOMAIN Others(c, Bound) |-> Show(Others(c, Bound)[i])]
           /\ \A i \in 1 .. Len(s) : s[i].kind \in {"SpawnEntity"}
           /\ \A x \in Bound : x # c => Spawned(s, x)
  BY ShowsOthers
<1>2. PICK p \in Packet : p = Show(c) /\ p.kind = "SpawnEntity" /\ p.who = c
  BY Packets, Connections
<1>3. c \in Conns /\ c \in DOMAIN instance
  BY Connections DEF Typed
<1>4. PICK w : w = EnterSync(b, c)
  OBVIOUS
<1>5. \A d \in Conns : w[d] = IF d = c THEN b[d] \o s
                              ELSE IF d \in Playing THEN Append(b[d], p) ELSE b[d]
  BY <1>1, <1>2, <1>3, <1>4 DEF EnterSync
<1>6. \A d \in Conns : b[d] \in Seq(Packet) /\ Extends(b[d], b[d], {"SpawnEntity"})
  BY ExtendsSelf
<1>7. ASSUME NEW d \in Conns
      PROVE  Extends(w[d], b[d], {"SpawnEntity"}) /\ (d \notin Playing => w[d] = b[d])
  <2>1. CASE d = c
    <3>1. PICK r \in Seq(Packet) : r = b[d] /\ Extends(r, r, {"SpawnEntity"})
      BY <1>6
    <3>2. Extends(r \o s, r, {"SpawnEntity"})
      BY <1>1, <3>1, ExtendsConcat
    <3>3. w[d] = r \o s
      BY <1>5, <2>1, <3>1
    <3> QED BY <2>1, <3>1, <3>2, <3>3
  <2>2. CASE d # c /\ d \in Playing
    BY <1>2, <1>5, <1>6, <2>2, ExtendsAppend
  <2>3. CASE d # c /\ d \notin Playing
    BY <1>5, <1>6, <2>3
  <2> QED BY <2>1, <2>2, <2>3
<1>8. w \in [Conns -> Seq(Packet)]
  <2>1. w = [d \in Conns |-> w[d]]
    BY <1>3, <1>4 DEF EnterSync
  <2>2. \A d \in Conns : w[d] \in Seq(Packet)
    BY <1>7 DEF Extends
  <2> QED BY <2>1, <2>2
<1>9. ASSUME NEW y \in Playing, y # c
      PROVE  Spawned(w[c], y) /\ Spawned(w[y], c)
  <2>1. y \in Conns /\ y \in Bound
    BY Connections
  <2>2. Spawned(w[c], y)
    <3>1. PICK i \in 1 .. Len(s) : s[i].kind = "SpawnEntity" /\ s[i].who = y
      BY <1>1, <1>9, <2>1 DEF Spawned
    <3>2. PICK r \in Seq(Packet) : r = b[c]
      BY <1>3
    <3>3. PICK v : v = r \o s
      OBVIOUS
    <3>4. /\ Len(v) = Len(r) + Len(s) /\ Len(r) \in Nat /\ Len(s) \in Nat
          /\ v[Len(r) + i] = s[i]
      BY <1>1, <1>3, <1>6, <3>2, <3>3, ExtendsConcat
    <3>5. Len(r) + i \in 1 .. Len(v)
      BY <3>4
    <3>6. w[c] = v
      BY <1>3, <1>5, <3>2, <3>3
    <3> QED BY <3>1, <3>4, <3>5, <3>6 DEF Spawned
  <2>3. Spawned(w[y], c)
    <3>1. PICK r \in Seq(Packet) : r = b[y]
      BY <2>1
    <3>2. w[y] = Append(r, p)
      BY <1>5, <1>9, <2>1, <3>1
    <3>3. Len(w[y]) = Len(r) + 1 /\ w[y][Len(r) + 1] = p /\ Len(r) \in Nat
      BY <3>2, AppendProperties, LenProperties
    <3>4. Len(r) + 1 \in 1 .. Len(w[y])
      BY <3>3
    <3> QED BY <1>2, <3>3, <3>4 DEF Spawned
  <2> QED BY <2>2, <2>3
<1> QED BY <1>4, <1>7, <1>8, <1>9

EnterIn(a, c, z) == EnterSync(a, c)
Welcomed(a, n, z) ==
  /\ a \in [Conns -> Seq(Packet)]
  /\ \A d \in Conns :
       Extends(a[d], urgent[d], {"SpawnEntity"}) /\ (d \notin Playing => a[d] = urgent[d])
  /\ \A x, y \in Playing :
       x # y /\ (\E i \in 1 .. n : enters[i] = x \/ enters[i] = y) => Spawned(a[x], y)
Welcoming == INSTANCE Folding WITH Op <- EnterIn, P <- Welcomed

LEMMA WelcomesAll ==
  ASSUME Typed, \A c \in Conns : Life(c)
  PROVE  Welcomed(FoldLeft(EnterSync, urgent, enters), Len(enters), 0)
<1> DEFINE a == FoldLeft(EnterSync, urgent, enters)
<1>1. a = Welcoming!OverSeq(urgent, enters, 0)
  BY DEF FoldLeft, Welcoming!OverSeq, MapThenFoldSet, Welcoming!MapThenFoldSet, Max, Welcoming!Largest, EnterIn
<1> HIDE DEF a
<1>2. /\ enters \in Seq(Conns) /\ urgent \in [Conns -> Seq(Packet)] /\ DOMAIN instance = Bound
  BY DEF Typed
<1>3. Welcomed(urgent, 0, 0)
  BY <1>2, ExtendsSelf DEF Welcomed
<1>4. ASSUME NEW b, NEW i \in 1 .. Len(enters), Welcomed(b, i - 1, 0)
      PROVE  Welcomed(EnterIn(b, enters[i], 0), i, 0)
  <2>1. enters[i] \in Conns /\ Len(enters) \in Nat /\ i \in Nat
    BY <1>2, LenProperties, ElementOfSeq
  <2>2. PICK c \in Conns : c = enters[i]
    BY <2>1
  <2>3. \A j \in 1 .. i : j \in 1 .. i - 1 \/ j = i
    BY <2>1
  <2>4. /\ b \in [Conns -> Seq(Packet)]
        /\ \A d \in Conns :
             Extends(b[d], urgent[d], {"SpawnEntity"}) /\ (d \notin Playing => b[d] = urgent[d])
        /\ \A x, y \in Playing :
             x # y /\ (\E j \in 1 .. i - 1 : enters[j] = x \/ enters[j] = y) => Spawned(b[x], y)
    BY <1>4 DEF Welcomed
  <2>5. CASE c \notin Bound
    <3>1. EnterIn(b, enters[i], 0) = b
      BY <1>2, <2>2, <2>5 DEF EnterIn, EnterSync
    <3>2. c \notin Playing
      BY <2>5, Connections
    <3>3. \A x, y \in Playing : (\E j \in 1 .. i : enters[j] = x \/ enters[j] = y)
                                  => (\E j \in 1 .. i - 1 : enters[j] = x \/ enters[j] = y)
      BY <2>2, <2>3, <3>2
    <3> QED BY <2>4, <3>1, <3>3 DEF Welcomed
  <2>6. CASE c \in Bound
    <3>1. c \in Playing
      <4>1. Entered(c)
        BY <2>2 DEF Entered
      <4> QED BY <2>6, <4>1, EnteredPlays
    <3>2. PICK w : w = EnterSync(b, c)
      OBVIOUS
    <3>3. /\ w \in [Conns -> Seq(Packet)]
          /\ \A d \in Conns : Extends(w[d], b[d], {"SpawnEntity"}) /\ (d \notin Playing => w[d] = b[d])
          /\ \A y \in Playing : y # c => Spawned(w[c], y) /\ Spawned(w[y], c)
      BY <2>4, <3>1, <3>2, EnterSyncShows
    <3>4. EnterIn(b, enters[i], 0) = w
      BY <2>2, <3>2 DEF EnterIn
    <3>5. \A d \in Conns :
            Extends(w[d], urgent[d], {"SpawnEntity"}) /\ (d \notin Playing => w[d] = urgent[d])
      <4> TAKE d \in Conns
      <4>1. Extends(w[d], b[d], {"SpawnEntity"}) /\ Extends(b[d], urgent[d], {"SpawnEntity"})
            /\ urgent[d] \in Seq(Packet)
        BY <1>2, <2>4, <3>3
      <4>2. Extends(w[d], urgent[d], {"SpawnEntity"})
        BY <4>1, ExtendsTransitive
      <4> QED BY <2>4, <3>3, <4>2
    <3>6. ASSUME NEW x \in Playing, NEW y \in Playing, x # y,
                 NEW j \in 1 .. i, enters[j] = x \/ enters[j] = y
          PROVE  Spawned(w[x], y)
      <4>1. CASE j = i
        BY <2>2, <3>3, <3>6, <4>1
      <4>2. CASE j \in 1 .. i - 1
        <5>1. Spawned(b[x], y)
          BY <2>4, <3>6, <4>2
        <5>2. x \in Conns /\ Extends(w[x], b[x], {"SpawnEntity"}) /\ b[x] \in Seq(Packet)
          BY <2>4, <3>3, Connections
        <5> QED BY <5>1, <5>2, SpawnedExtends
      <4> QED BY <2>3, <4>1, <4>2
    <3> QED BY <3>3, <3>4, <3>5, <3>6 DEF Welcomed
  <2> QED BY <2>5, <2>6
<1>5. Welcomed(a, Len(enters), 0)
  BY <1>1, <1>2, <1>3, <1>4, Welcoming!OverSeqInduction
<1> QED BY <1>5 DEF a

\* Those that have left are no longer there, and moves are written after they are
\* read: entity_sync removes and moves nobody.
LEMMA ClosedIsUnbound ==
  ASSUME Typed, NEW c \in Conns, Life(c), client[c].stage = "closed"
  PROVE  c \notin Bound
<1>1. rt[c] \in {"none", "Login", "Configuration", "Play"}
  BY DEF Typed
<1>2. rt[c] = "none"
  BY <1>1 DEF Life
<1> QED BY <1>2, Connections

QuitIn(a, c, z) == QuitSync(a, c)
Unchanged(a, n, z) == a = z
Removing == INSTANCE Folding WITH Op <- QuitIn, P <- Unchanged

LEMMA RemovesNobody ==
  ASSUME Typed, \A c \in Conns : Life(c), NEW u
  PROVE  FoldLeft(QuitSync, u, quits) = u
<1> DEFINE a == FoldLeft(QuitSync, u, quits)
<1>1. a = Removing!OverSeq(u, quits, u)
  BY DEF FoldLeft, Removing!OverSeq, MapThenFoldSet, Removing!MapThenFoldSet, Max, Removing!Largest, QuitIn
<1> HIDE DEF a
<1>2. quits \in Seq(Conns) /\ DOMAIN instance = Bound
  BY DEF Typed
<1>3. ASSUME NEW b, NEW i \in 1 .. Len(quits), Unchanged(b, i - 1, u)
      PROVE  Unchanged(QuitIn(b, quits[i], u), i, u)
  <2>1. PICK c \in Conns : c = quits[i]
    BY <1>2, ElementOfSeq
  <2>2. client[c].stage = "closed"
    BY <2>1 DEF Life
  <2>3. c \notin Bound
    BY <2>2, ClosedIsUnbound
  <2> QED BY <1>2, <1>3, <2>1, <2>3 DEF QuitIn, QuitSync, Unchanged
<1>4. Unchanged(u, 0, u)
  BY DEF Unchanged
<1>5. Unchanged(a, Len(quits), u)
  BY <1>1, <1>2, <1>3, <1>4, Removing!OverSeqInduction
<1> QED BY <1>5 DEF a, Unchanged

MoveIn(a, c, z) == MoveSync(a, c)
Moving == INSTANCE Folding WITH Op <- MoveIn, P <- Unchanged

LEMMA MovesNobody ==
  ASSUME moves = <<>>, NEW u
  PROVE  FoldLeft(MoveSync, u, SetToSeq(Conns)) = u
<1> DEFINE a == FoldLeft(MoveSync, u, SetToSeq(Conns))
<1>1. PICK o : o = SetToSeq(Conns)
  OBVIOUS
<1>2. o \in Seq(Conns)
  BY <1>1, ConnsAssumption, SetInSequence
<1>3. FoldLeft(MoveSync, u, o) = Moving!OverSeq(u, o, u)
  BY DEF FoldLeft, Moving!OverSeq, MapThenFoldSet, Moving!MapThenFoldSet, Max, Moving!Largest, MoveIn
<1>4. \A b, c : MoveSync(b, c) = b
  <2> TAKE b, c
  <2>1. {i \in DOMAIN moves : moves[i].who = c} = {}
    OBVIOUS
  <2> QED BY <2>1 DEF MoveSync
<1>5. \A b : \A i \in 1 .. Len(o) : Unchanged(b, i - 1, u) => Unchanged(MoveIn(b, o[i], u), i, u)
  BY <1>4 DEF MoveIn, Unchanged
<1>6. Unchanged(u, 0, u)
  BY DEF Unchanged
<1>7. Unchanged(Moving!OverSeq(u, o, u), Len(o), u)
  BY <1>2, <1>5, <1>6, Moving!OverSeqInduction
<1> QED BY <1>1, <1>3, <1>7 DEF Unchanged

\* player_input moves each player where it last said it is.
ApplyIn(a, r, z) == Apply(a, r)
Applied(a, n, z) ==
  /\ DOMAIN a.at = Bound
  /\ \A c \in Bound :
       a.at[c] \in Int /\ (Latest(c, a.at[c], n) \/ (Still(c, n) /\ a.at[c] = instance[c]))
Applying == INSTANCE Folding WITH Op <- ApplyIn, P <- Applied

LEMMA AppliesAll ==
  ASSUME Typed
  PROVE  Applied(FoldLeft(Apply, [at |-> instance, moves |-> moves], raws), Len(raws), 0)
<1> DEFINE s == [at |-> instance, moves |-> moves]
           a == FoldLeft(Apply, s, raws)
<1>1. a = Applying!OverSeq(s, raws, 0)
  BY DEF FoldLeft, Applying!OverSeq, MapThenFoldSet, Applying!MapThenFoldSet, Max, Applying!Largest, ApplyIn
<1>2. raws \in Seq(Conns \X Positions) /\ DOMAIN instance = Bound /\ \A c \in Bound : instance[c] \in Int
  BY DEF Typed
<1>3. Applied(s, 0, 0)
  BY <1>2 DEF Applied, Still
<1> HIDE DEF a, s
<1>4. ASSUME NEW b, NEW i \in 1 .. Len(raws), Applied(b, i - 1, 0)
      PROVE  Applied(ApplyIn(b, raws[i], 0), i, 0)
  <2>1. PICK r \in Conns \X Positions : r = raws[i]
    BY <1>2, ElementOfSeq
  <2>2. r = <<r[1], r[2]>> /\ r[1] \in Conns /\ r[2] \in Positions
    OBVIOUS
  <2>3. Len(raws) \in Nat /\ i \in Nat /\ i \in 1 .. i
    BY <1>2, LenProperties
  <2>4. \A j \in 1 .. i : j \in 1 .. i - 1 \/ j = i
    BY <2>3
  <2>5. \A j \in 1 .. i - 1 : j \in 1 .. i
    BY <2>3
  <2>6. ASSUME NEW c \in Bound, NEW p, c # r[1],
               Latest(c, p, i - 1) \/ (Still(c, i - 1) /\ p = instance[c])
        PROVE  Latest(c, p, i) \/ (Still(c, i) /\ p = instance[c])
    <3>1. CASE Latest(c, p, i - 1)
      <4>1. PICK k \in 1 .. i - 1 : raws[k] = <<c, p>> /\ \A j \in k + 1 .. i - 1 : raws[j][1] # c
        BY <3>1 DEF Latest
      <4>2. k \in 1 .. i
        BY <2>5
      <4>3. \A j \in k + 1 .. i : j \in k + 1 .. i - 1 \/ j = i
        BY <2>3
      <4>4. \A j \in k + 1 .. i : raws[j][1] # c
        BY <2>1, <2>6, <4>1, <4>3
      <4> QED BY <4>1, <4>2, <4>4 DEF Latest
    <3>2. CASE Still(c, i - 1) /\ p = instance[c]
      BY <2>1, <2>4, <2>6, <3>2 DEF Still
    <3> QED BY <2>6, <3>1, <3>2
  <2>7. /\ DOMAIN b.at = Bound
        /\ \A c \in Bound : /\ b.at[c] \in Int
                            /\ Latest(c, b.at[c], i - 1) \/ (Still(c, i - 1) /\ b.at[c] = instance[c])
    BY <1>4 DEF Applied
  <2>8. CASE r[1] \notin Bound
    <3>1. ApplyIn(b, raws[i], 0) = b
      BY <2>1, <2>8 DEF ApplyIn, Apply
    <3> QED BY <2>6, <2>7, <2>8, <3>1 DEF Applied
  <2>9. CASE r[1] \in Bound
    <3>1. PICK w : w = ApplyIn(b, raws[i], 0)
      OBVIOUS
    <3>2. w.at = [b.at EXCEPT ![r[1]] = r[2]]
      BY <2>1, <2>9, <3>1 DEF ApplyIn, Apply
    <3>3. DOMAIN w.at = Bound /\ w.at[r[1]] = r[2] /\ \A c \in Bound : c # r[1] => w.at[c] = b.at[c]
      BY <2>7, <2>9, <3>2
    <3>4. Latest(r[1], r[2], i)
      <4>1. \A j \in i + 1 .. i : FALSE
        BY <2>3
      <4>2. raws[i] = <<r[1], r[2]>>
        BY <2>1, <2>2
      <4> QED BY <2>3, <4>1, <4>2 DEF Latest
    <3>5. ASSUME NEW c \in Bound
          PROVE  /\ w.at[c] \in Int
                 /\ Latest(c, w.at[c], i) \/ (Still(c, i) /\ w.at[c] = instance[c])
      <4>1. CASE c = r[1]
        BY <2>2, <3>3, <3>4, <4>1, PositionsAssumption
      <4>2. CASE c # r[1]
        BY <2>6, <2>7, <3>3, <4>2
      <4> QED BY <4>1, <4>2
    <3> QED BY <3>1, <3>3, <3>5 DEF Applied
  <2> QED BY <2>8, <2>9
<1>5. Applied(a, Len(raws), 0)
  BY <1>1, <1>2, <1>3, <1>4, Applying!OverSeqInduction
<1> QED BY <1>5 DEF a, s

\* What a client makes of one packet that is queued for it.
Took(w, m, p) ==
  /\ w \in Clients
  /\ w.stage = IF p.kind = "FinishConfiguration" THEN "configured"
               ELSE IF p.kind = "Login" THEN "play" ELSE m.stage
  /\ w.early = m.early \/ w.early = m.early \cup {"WindowItems"}
  /\ \A b \in Conns : w.shown[b] = IF p.kind = "SpawnEntity" /\ p.who = b THEN p.pos ELSE m.shown[b]
  /\ w.batches = IF p.kind = "ChunkBatchFinished" THEN m.batches + 1 ELSE m.batches

LEMMA GetOne ==
  ASSUME NEW m \in Clients, NEW p \in Packet, p.kind \notin {"PlayerRemove", "RelEntityMove"},
         p.kind \in Chunks \cup {"SpawnEntity"} => m.stage = "play"
  PROVE  Took(Get(m, p), m, p)
<1>1. PICK w : w = Get(m, p)
  OBVIOUS
<1>2. /\ m.stage \in Stages /\ m.shown \in [Conns -> Int \cup {Unseen}] /\ m.batches \in Nat
      /\ m.early \in SUBSET PlayKinds
      /\ p.kind \in Kinds /\ p.who \in Conns \cup {0} /\ p.pos \in Int
  BY DEF Clients, Packet
<1>3. \/ p.kind = "FinishConfiguration" \/ p.kind = "Login" \/ p.kind = "WindowItems"
      \/ p.kind = "SpawnEntity" \/ p.kind = "ChunkBatchStart" \/ p.kind = "MapChunk"
      \/ p.kind = "ChunkBatchFinished"
  BY <1>2 DEF Kinds, PlayKinds
<1> SUFFICES Took(w, m, p)
  BY <1>1
<1>4. CASE p.kind = "FinishConfiguration"
  <2>1. w = [m EXCEPT !.stage = "configured"]
    BY <1>1, <1>4 DEF Get
  <2>2. w \in Clients
    BY <1>2, <2>1 DEF Clients, Stages
  <2>3. \A b \in Conns : w.shown[b] = m.shown[b]
    BY <1>2, <2>1 DEF Clients
  <2> QED BY <1>2, <1>4, <2>1, <2>2, <2>3 DEF Took, Clients
<1>5. CASE p.kind = "Login"
  <2>1. w = [m EXCEPT !.stage = "play"]
    BY <1>1, <1>5 DEF Get
  <2>2. w \in Clients
    BY <1>2, <2>1 DEF Clients, Stages
  <2>3. \A b \in Conns : w.shown[b] = m.shown[b]
    BY <1>2, <2>1 DEF Clients
  <2> QED BY <1>2, <1>5, <2>1, <2>2, <2>3 DEF Took, Clients
<1>6. CASE p.kind = "WindowItems"
  <2>1. w = m \/ w = [m EXCEPT !.early = @ \cup {"WindowItems"}]
    BY <1>1, <1>6 DEF Get
  <2>2. w \in Clients
    BY <1>2, <2>1 DEF Clients, PlayKinds
  <2>3. \A b \in Conns : w.shown[b] = m.shown[b]
    BY <1>2, <2>1 DEF Clients
  <2> QED BY <1>2, <1>6, <2>1, <2>2, <2>3 DEF Took, Clients
<1>7. CASE p.kind = "SpawnEntity"
  <2>1. w = [m EXCEPT !.shown = [m.shown EXCEPT ![p.who] = p.pos]]
    BY <1>1, <1>7 DEF Get
  <2>2. PICK f : f = [m.shown EXCEPT ![p.who] = p.pos]
    OBVIOUS
  <2>3. f \in [Conns -> Int \cup {Unseen}] /\ \A b \in Conns : f[b] = IF p.who = b THEN p.pos ELSE m.shown[b]
    BY <1>2, <2>2
  <2>4. w = [m EXCEPT !.shown = f]
    BY <2>1, <2>2
  <2>5. w \in Clients /\ w.shown = f
    BY <1>2, <2>3, <2>4 DEF Clients
  <2> QED BY <1>2, <1>7, <2>3, <2>4, <2>5 DEF Took, Clients
<1>8. CASE p.kind = "ChunkBatchStart" \/ p.kind = "MapChunk"
  <2>1. w = m
    BY <1>1, <1>8 DEF Get, Chunks
  <2>2. w \in Clients
    BY <1>2, <2>1 DEF Clients
  <2>3. \A b \in Conns : w.shown[b] = m.shown[b]
    BY <1>2, <2>1 DEF Clients
  <2> QED BY <1>2, <1>8, <2>1, <2>2, <2>3 DEF Took, Clients
<1>9. CASE p.kind = "ChunkBatchFinished"
  <2>1. w = [m EXCEPT !.batches = m.batches + 1]
    BY <1>1, <1>9 DEF Get, Chunks
  <2>2. PICK k \in Nat : k = m.batches + 1
    BY <1>2
  <2>3. w = [m EXCEPT !.batches = k]
    BY <2>1, <2>2
  <2>4. w \in Clients /\ w.batches = k
    BY <1>2, <2>3 DEF Clients
  <2>5. \A b \in Conns : w.shown[b] = m.shown[b]
    BY <1>2, <2>3 DEF Clients
  <2> QED BY <1>2, <1>9, <2>2, <2>3, <2>4, <2>5 DEF Took, Clients
<1> QED BY <1>3, <1>4, <1>5, <1>6, <1>7, <1>8, <1>9

\* A queue that a client at stage s may be sent: nothing of play before Login, and
\* only its first packet changes the stage.
Orderly(q, s) ==
  /\ q \in Seq(Packet)
  /\ \A i \in 1 .. Len(q) :
       /\ q[i].kind \notin {"PlayerRemove", "RelEntityMove"}
       /\ q[i].kind \in {"FinishConfiguration", "Login"} => i = 1
       /\ q[i].kind \in Chunks \cup {"SpawnEntity"} => q[1].kind = "Login" \/ (s = "play" /\ q[1].kind # "FinishConfiguration")

StageAfter(q, s, n) ==
  IF n = 0 THEN s
  ELSE IF q[1].kind = "FinishConfiguration" THEN "configured"
  ELSE IF q[1].kind = "Login" THEN "play" ELSE s

GetIn(m, p, z) == Get(m, p)
Got(m, n, z) ==
  /\ m \in Clients /\ m.stage = StageAfter(z[1], z[2].stage, n) /\ m.early \subseteq {"WindowItems"}
  /\ \A b \in Conns :
       z[2].shown[b] # Unseen \/ (\E i \in 1 .. n : z[1][i].kind = "SpawnEntity" /\ z[1][i].who = b)
         => m.shown[b] # Unseen
  /\ (\A i \in 1 .. n : ~Ends(z[1], i)) => m.batches = z[2].batches
  /\ \A k \in 1 .. n :
       Ends(z[1], k) /\ (\A j \in 1 .. n : Ends(z[1], j) => j = k) => m.batches = z[2].batches + 1
Getting == INSTANCE Folding WITH Op <- GetIn, P <- Got

LEMMA GetsAll ==
  ASSUME NEW m \in Clients, NEW q, Orderly(q, m.stage), m.early \subseteq {"WindowItems"}
  PROVE  Got(FoldLeft(Get, m, q), Len(q), <<q, m>>)
<1>1. PICK z : z = <<q, m>>
  OBVIOUS
<1>2. PICK a : a = FoldLeft(Get, m, q)
  OBVIOUS
<1>3. a = Getting!OverSeq(m, q, z)
  BY <1>2 DEF FoldLeft, Getting!OverSeq, MapThenFoldSet, Getting!MapThenFoldSet, Max, Getting!Largest, GetIn
<1>4. q \in Seq(Packet) /\ Len(q) \in Nat /\ z[1] = q /\ z[2] = m
  BY <1>1, LenProperties DEF Orderly
<1>5. Got(m, 0, z)
  BY <1>4 DEF Got, StageAfter
<1>6. ASSUME NEW b, NEW i \in 1 .. Len(q), Got(b, i - 1, z)
      PROVE  Got(GetIn(b, q[i], z), i, z)
  <2>1. PICK p \in Packet : p = q[i]
    BY <1>4, ElementOfSeq
  <2>2. /\ i \in Nat /\ i # 0 /\ (i - 1 = 0 <=> i = 1) /\ 1 \in 1 .. Len(q)
        /\ \A j \in 1 .. i : j \in 1 .. i - 1 \/ j = i
        /\ \A j \in 1 .. i - 1 : j \in 1 .. i /\ j # i
        /\ i \in 1 .. i
    BY <1>4
  <2>3. /\ b \in Clients /\ b.stage = StageAfter(q, m.stage, i - 1) /\ b.early \subseteq {"WindowItems"}
        /\ \A x \in Conns :
             m.shown[x] # Unseen \/ (\E j \in 1 .. i - 1 : q[j].kind = "SpawnEntity" /\ q[j].who = x)
               => b.shown[x] # Unseen
        /\ (\A j \in 1 .. i - 1 : ~Ends(q, j)) => b.batches = m.batches
        /\ \A k \in 1 .. i - 1 :
             Ends(q, k) /\ (\A j \in 1 .. i - 1 : Ends(q, j) => j = k) => b.batches = m.batches + 1
    BY <1>4, <1>6 DEF Got
  <2>4. /\ p.kind \notin {"PlayerRemove", "RelEntityMove"}
        /\ p.kind \in {"FinishConfiguration", "Login"} => i = 1
        /\ p.kind \in Chunks \cup {"SpawnEntity"} => q[1].kind = "Login" \/ (m.stage = "play" /\ q[1].kind # "FinishConfiguration")
    BY <2>1 DEF Orderly
  <2>5. p.kind \in Chunks \cup {"SpawnEntity"} => b.stage = "play"
    <3>1. CASE i = 1
      BY <2>1, <2>2, <2>3, <2>4, <3>1 DEF StageAfter, Chunks
    <3>2. CASE i # 1
      BY <2>2, <2>3, <2>4, <3>2 DEF StageAfter
    <3> QED BY <3>1, <3>2
  <2>6. PICK w : w = Get(b, p)
    OBVIOUS
  <2>7. /\ w \in Clients
        /\ w.stage = IF p.kind = "FinishConfiguration" THEN "configured"
                     ELSE IF p.kind = "Login" THEN "play" ELSE b.stage
        /\ w.early = b.early \/ w.early = b.early \cup {"WindowItems"}
        /\ \A x \in Conns : w.shown[x] = IF p.kind = "SpawnEntity" /\ p.who = x THEN p.pos ELSE b.shown[x]
        /\ w.batches = IF p.kind = "ChunkBatchFinished" THEN b.batches + 1 ELSE b.batches
    BY <2>3, <2>4, <2>5, <2>6, GetOne DEF Took
  <2>8. w.stage = StageAfter(q, m.stage, i)
    <3>1. CASE i = 1
      BY <2>1, <2>2, <2>3, <2>7, <3>1 DEF StageAfter
    <3>2. CASE i # 1
      BY <2>2, <2>3, <2>4, <2>7, <3>2 DEF StageAfter
    <3> QED BY <3>1, <3>2
  <2>9. ASSUME NEW x \in Conns,
               m.shown[x] # Unseen \/ (\E j \in 1 .. i : q[j].kind = "SpawnEntity" /\ q[j].who = x)
        PROVE  w.shown[x] # Unseen
    <3>1. CASE p.kind = "SpawnEntity" /\ p.who = x
      <4>1. p.pos \in Int
        BY DEF Packet
      <4> QED BY <2>7, <3>1, <4>1, UnseenAssumption
    <3>2. CASE ~(p.kind = "SpawnEntity" /\ p.who = x)
      <4>1. w.shown[x] = b.shown[x]
        BY <2>7, <3>2
      <4>2. m.shown[x] # Unseen \/ (\E j \in 1 .. i - 1 : q[j].kind = "SpawnEntity" /\ q[j].who = x)
        BY <2>1, <2>2, <2>9, <3>2
      <4> QED BY <2>3, <4>1, <4>2
    <3> QED BY <3>1, <3>2
  <2>10. Ends(q, i) <=> p.kind = "ChunkBatchFinished"
    BY <2>1 DEF Ends
  <2>11. ASSUME \A j \in 1 .. i : ~Ends(q, j)
         PROVE  w.batches = m.batches
    BY <2>2, <2>3, <2>7, <2>10, <2>11
  <2>12. ASSUME NEW k \in 1 .. i, Ends(q, k), \A j \in 1 .. i : Ends(q, j) => j = k
         PROVE  w.batches = m.batches + 1
    <3>1. CASE k = i
      <4>1. \A j \in 1 .. i - 1 : ~Ends(q, j)
        BY <2>2, <2>12, <3>1
      <4> QED BY <2>3, <2>7, <2>10, <2>12, <3>1, <4>1
    <3>2. CASE k # i
      <4>1. k \in 1 .. i - 1 /\ ~Ends(q, i) /\ \A j \in 1 .. i - 1 : Ends(q, j) => j = k
        BY <2>2, <2>12, <3>2
      <4> QED BY <2>3, <2>7, <2>10, <2>12, <4>1
    <3> QED BY <3>1, <3>2
  <2>13. GetIn(b, q[i], z) = w
    BY <2>1, <2>6 DEF GetIn
  <2>14. w.early \subseteq {"WindowItems"}
    BY <2>3, <2>7
  <2> QED BY <1>4, <2>7, <2>8, <2>9, <2>11, <2>12, <2>13, <2>14 DEF Got
<1>7. Got(a, Len(q), z)
  BY <1>3, <1>4, <1>5, <1>6, Getting!OverSeqInduction
<1> QED BY <1>1, <1>2, <1>7

----------------------------------------------------------------------------
(* What a step leaves alone *)

LEMMA LifeFrame ==
  ASSUME NEW c \in Conns, Life(c), rt'[c] = rt[c], client'[c].stage = client[c].stage,
         urgent'[c] = urgent[c], normal'[c] = normal[c], Entered(c)' <=> Entered(c),
         \A i \in 1 .. Len(quits') : quits'[i] = c => \E j \in 1 .. Len(quits) : quits[j] = c
  PROVE  Life(c)'
<1>1. \A i \in 1 .. Len(quits') : quits'[i] = c => client'[c].stage = "closed"
  BY DEF Life
<1> QED BY <1>1 DEF Life

LEMMA BatchFrame ==
  ASSUME NEW c \in Conns, Batch(c), rt'[c] = rt[c], client'[c].stage = client[c].stage,
         client'[c].batches = client[c].batches, client'[c].early = client[c].early,
         Entered(c)' <=> Entered(c),
         OneBatch(urgent[c]) => OneBatch(urgent[c])', NoBatch(urgent[c]) => NoBatch(urgent[c])',
         (pc > 3)' <=> pc > 3
  PROVE  Batch(c)'
  BY DEF Batch

LEMMA AtFrame ==
  ASSUME NEW c \in Conns, At(c), c \in Bound' => c \in Bound, client'[c].stage = client[c].stage,
         c \in Bound' => instance'[c] = instance[c], reported'[c] = reported[c], raws' = raws, (pc <= 7)' <=> pc <= 7
  PROVE  At(c)'
  BY DEF At, Latest, Still

LEMMA DugFrame ==
  ASSUME NEW c \in Conns, Dug(c), client'[c].stage = client[c].stage, dispatched'[c] = dispatched[c],
         packets' = packets, actions' = actions, dug'[c] = dug[c], (pc <= 5)' <=> pc <= 5
  PROVE  Dug(c)'
  BY DEF Dug, Pending, Digs

\* A client at another stage.
LEMMA StagedFacts ==
  ASSUME Typed, NEW c \in Conns, NEW s \in Stages
  PROVE  /\ Staged(c, s) \in [Conns -> Clients] /\ Staged(c, s)[c].stage = s
         /\ \A d \in Conns : /\ Staged(c, s)[d].shown = client[d].shown
                             /\ Staged(c, s)[d].batches = client[d].batches
                             /\ Staged(c, s)[d].early = client[d].early
                             /\ d # c => Staged(c, s)[d].stage = client[d].stage
<1>1. client \in [Conns -> Clients]
  BY DEF Typed
<1>2. PICK m : m = [client[c] EXCEPT !.stage = s]
  OBVIOUS
<1>3. /\ m \in Clients /\ m.stage = s /\ m.shown = client[c].shown
      /\ m.batches = client[c].batches /\ m.early = client[c].early
  BY <1>1, <1>2 DEF Clients
<1>4. Staged(c, s) = [client EXCEPT ![c] = m]
  BY <1>2 DEF Staged
<1> QED BY <1>1, <1>3, <1>4

LEMMA EnteredAppend ==
  ASSUME Typed, NEW c \in Conns, enters' = Append(enters, c)
  PROVE  /\ enters' \in Seq(Conns) /\ \A d : Entered(d)' <=> (Entered(d) \/ d = c)
         /\ Once /\ ~Entered(c) => Once'
<1>1. enters \in Seq(Conns) /\ Len(enters) \in Nat
  BY LenProperties DEF Typed
<1>2. /\ enters' \in Seq(Conns) /\ Len(enters') = Len(enters) + 1 /\ enters'[Len(enters) + 1] = c
      /\ \A i \in 1 .. Len(enters) : enters'[i] = enters[i]
  BY <1>1, AppendProperties
<1>3. \A i \in 1 .. Len(enters') : i \in 1 .. Len(enters) \/ i = Len(enters) + 1
  BY <1>1, <1>2
<1>4. Len(enters) + 1 \in 1 .. Len(enters') /\ \A i \in 1 .. Len(enters) : i \in 1 .. Len(enters')
  BY <1>1, <1>2
<1>5. ASSUME NEW d
      PROVE  Entered(d)' <=> (Entered(d) \/ d = c)
  BY <1>2, <1>3, <1>4 DEF Entered
<1>6. ASSUME Once, ~Entered(c)
      PROVE  Once'
  BY <1>2, <1>3, <1>6 DEF Once, Entered
<1> QED BY <1>2, <1>5, <1>6

\* Who has no runtime, is not bound to enter, and has nothing queued.
LEMMA NewIsUnbound ==
  ASSUME Typed, NEW c \in Conns, Life(c), client[c].stage = "new"
  PROVE  rt[c] = "none" /\ urgent[c] = <<>> /\ normal[c] = <<>> /\ ~Entered(c)
<1>1. rt[c] \in {"none", "Login", "Configuration", "Play"}
  BY DEF Typed
<1>2. rt[c] # "Login" /\ rt[c] # "Configuration" /\ rt[c] # "Play"
  BY DEF Life
<1> QED BY <1>1, <1>2 DEF Life

\* Chunks and players behind what is queued for those in play.
LEMMA LongerLives ==
  ASSUME Typed, NEW c \in Conns, Life(c), rt' = rt, client' = client, normal' = normal, quits' = quits,
         enters' = enters, NEW K \in SUBSET (Chunks \cup {"SpawnEntity"}),
         Extends(urgent'[c], urgent[c], K), c \notin Playing => urgent'[c] = urgent[c]
  PROVE  Life(c)'
<1>1. Entered(c)' <=> Entered(c)
  BY DEF Entered
<1>2. CASE rt[c] # "Play"
  <2>1. urgent'[c] = urgent[c]
    BY <1>2 DEF Playing
  <2> QED BY <1>1, <2>1, LifeFrame
<1>3. CASE rt[c] = "Play"
  <2>1. PICK q, r : q = urgent[c] /\ r = urgent'[c]
    OBVIOUS
  <2>2. /\ q \in Seq(Packet) /\ r \in Seq(Packet) /\ Len(q) \in Nat /\ Len(r) \in Nat /\ Len(q) <= Len(r)
        /\ \A i \in 1 .. Len(q) : r[i] = q[i]
        /\ \A i \in 1 .. Len(r) : i > Len(q) => r[i].kind \in Chunks \cup {"SpawnEntity"}
    BY <2>1, LenProperties DEF Typed, Extends
  <2>3. /\ \A i \in 1 .. Len(normal[c]) : normal[c][i].kind = "WindowItems"
        /\ \A i \in 1 .. Len(quits) : quits[i] = c => client[c].stage = "closed"
    BY DEF Life
  <2>4. CASE Entered(c)
    <3>1. /\ client[c].stage = "configured" /\ q # <<>> /\ q[1] = Plain("Login")
          /\ \A i \in 2 .. Len(q) : q[i].kind \in Chunks \cup {"SpawnEntity"}
      BY <1>3, <2>1, <2>4 DEF Life
    <3>2. Len(q) >= 1
      BY <2>2, <3>1, EmptySeq
    <3>3. r # <<>> /\ r[1] = Plain("Login")
      BY <2>2, <3>1, <3>2
    <3>4. \A i \in 2 .. Len(r) : i \in 2 .. Len(q) \/ i > Len(q)
      BY <2>2
    <3>5. \A i \in 2 .. Len(r) : r[i].kind \in Chunks \cup {"SpawnEntity"}
      BY <2>2, <3>1, <3>2, <3>4
    <3> QED BY <1>1, <1>3, <2>1, <2>3, <2>4, <3>1, <3>3, <3>5 DEF Life
  <2>5. CASE ~Entered(c)
    <3>1. client[c].stage = "play" /\ \A i \in 1 .. Len(q) : q[i].kind \in Chunks \cup {"SpawnEntity"}
      BY <1>3, <2>1, <2>5 DEF Life
    <3>2. \A i \in 1 .. Len(r) : i \in 1 .. Len(q) \/ i > Len(q)
      BY <2>2
    <3>3. \A i \in 1 .. Len(r) : r[i].kind \in Chunks \cup {"SpawnEntity"}
      BY <2>2, <3>1, <3>2
    <3> QED BY <1>1, <1>3, <2>1, <2>3, <2>5, <3>1, <3>3 DEF Life
  <2> QED BY <2>4, <2>5
<1> QED BY <1>2, <1>3

----------------------------------------------------------------------------
(* network_receive *)

LEMMA HelloPreserves ==
  ASSUME TInv, pc = 1, UNCHANGED <<pc, dispatched>>, NEW c \in Conns, Hello(c)
  PROVE  TInv'
<1>1. /\ Typed /\ Unwritten /\ Once /\ Seen
      /\ \A d \in Conns : Life(d) /\ Batch(d) /\ At(d) /\ Dug(d)
  BY DEF TInv
<1>2. /\ client[c].stage = "new" /\ rt' = [rt EXCEPT ![c] = "Login"]
      /\ instance' = [d \in DOMAIN instance \cup {c} |-> IF d = c THEN Origin ELSE instance[d]]
      /\ unsynced' = unsynced \cup {c} /\ client' = Staged(c, "login")
      /\ urgent' = urgent /\ normal' = normal /\ packets' = packets /\ reported' = reported /\ dug' = dug
      /\ enters' = enters /\ quits' = quits /\ raws' = raws /\ moves' = moves /\ actions' = actions
      /\ pc' = pc /\ dispatched' = dispatched
  BY DEF Hello, messages
<1>3. /\ client' \in [Conns -> Clients] /\ client'[c].stage = "login"
      /\ \A d \in Conns : /\ client'[d].shown = client[d].shown /\ client'[d].batches = client[d].batches
                          /\ client'[d].early = client[d].early
                          /\ d # c => client'[d].stage = client[d].stage
  <2>1. "login" \in Stages
    BY DEF Stages
  <2> QED BY <1>1, <1>2, <2>1, StagedFacts
<1>4. rt[c] = "none" /\ urgent[c] = <<>> /\ normal[c] = <<>> /\ ~Entered(c)
  BY <1>1, <1>2, NewIsUnbound
<1>5. /\ rt' \in [Conns -> {"none", "Login", "Configuration", "Play"}] /\ rt'[c] = "Login"
      /\ \A d \in Conns : d # c => rt'[d] = rt[d]
  BY <1>1, <1>2 DEF Typed
<1>6. Bound' = Bound \cup {c} /\ Playing' = Playing /\ c \notin Playing /\ \A d : Entered(d)' <=> Entered(d)
  BY <1>2, <1>4, <1>5 DEF Bound, Playing, Entered
<1>7. Typed'
  <2>1. DOMAIN instance' = Bound' /\ \A d \in Bound' : instance'[d] \in Int
    BY <1>1, <1>2, <1>6, PositionsAssumption DEF Typed
  <2>2. unsynced' \subseteq Bound'
    BY <1>1, <1>2, <1>6 DEF Typed
  <2> QED BY <1>1, <1>2, <1>3, <1>5, <2>1, <2>2 DEF Typed
<1>8. Unwritten' /\ Once'
  BY <1>1, <1>2 DEF Unwritten, Once
<1>9. Seen'
  BY <1>1, <1>2, <1>3, <1>6, Connections DEF Seen
<1>10. ASSUME NEW d \in Conns, d # c
       PROVE  Life(d)' /\ Batch(d)' /\ At(d)' /\ Dug(d)'
  <2>1. Life(d)'
    BY <1>1, <1>2, <1>3, <1>5, <1>6, <1>10, LifeFrame
  <2>2. Batch(d)'
    BY <1>1, <1>2, <1>3, <1>5, <1>6, <1>10, BatchFrame
  <2>3. At(d)'
    <3>1. d \in Bound' <=> d \in Bound
      BY <1>6, <1>10
    <3>2. d \in Bound => instance'[d] = instance[d]
      BY <1>1, <1>2, <1>10 DEF Typed
    <3> QED BY <1>1, <1>2, <1>3, <1>10, <3>1, <3>2, AtFrame
  <2>4. Dug(d)'
    BY <1>1, <1>2, <1>3, <1>10, DugFrame
  <2> QED BY <2>1, <2>2, <2>3, <2>4
<1>11. Life(c)'
  <2>1. \A i \in 1 .. Len(quits) : quits[i] # c
    BY <1>1, <1>2 DEF Life
  <2>2. \A i \in 1 .. Len(normal[c]) : normal[c][i].kind = "WindowItems"
    BY <1>1 DEF Life
  <2> QED BY <1>2, <1>3, <1>4, <1>5, <1>6, <2>1, <2>2 DEF Life
<1>12. Batch(c)'
  <2>1. client[c].batches = 0 /\ client[c].early \subseteq {"WindowItems"} /\ NoBatch(urgent[c])
    BY <1>1, <1>2, <1>4 DEF Batch
  <2> QED BY <1>2, <1>3, <1>5, <1>6, <2>1 DEF Batch, NoBatch, Ends
<1>13. At(c)'
  <2>1. Still(c, Len(raws)) /\ reported[c] = Origin
    BY <1>1, <1>2 DEF At
  <2>2. instance'[c] = Origin /\ Still(c, Len(raws))'
    BY <1>2, <2>1 DEF Still
  <2>3. Below(instance'[c], reported'[c])
    <3>1. Origin \in Int /\ instance'[c] = Origin /\ reported'[c] = Origin
      BY <1>2, <2>1, <2>2, PositionsAssumption
    <3>2. Origin <= Origin
      BY <3>1
    <3> QED BY <3>1, <3>2 DEF Below
  <2> QED BY <1>2, <1>3, <2>1, <2>2, <2>3 DEF At
<1>14. Dug(c)'
  <2>1. Pending(c)' = Pending(c)
    BY <1>2 DEF Pending, Digs
  <2> QED BY <1>1, <1>2, <1>3, <2>1 DEF Dug
<1> QED BY <1>7, <1>8, <1>9, <1>10, <1>11, <1>12, <1>13, <1>14 DEF TInv

LEMMA ConfigurePreserves ==
  ASSUME TInv, pc = 1, UNCHANGED <<pc, dispatched>>, NEW c \in Conns, Configure(c)
  PROVE  TInv'
<1>1. /\ Typed /\ Unwritten /\ Once /\ Seen
      /\ \A d \in Conns : Life(d) /\ Batch(d) /\ At(d) /\ Dug(d)
  BY DEF TInv
<1>2. /\ rt[c] = "Login" /\ rt' = [rt EXCEPT ![c] = "Configuration"]
      /\ urgent' = [urgent EXCEPT ![c] = Append(urgent[c], Plain("FinishConfiguration"))]
      /\ instance' = instance /\ unsynced' = unsynced /\ normal' = normal /\ packets' = packets
      /\ client' = client /\ reported' = reported /\ dug' = dug
      /\ enters' = enters /\ quits' = quits /\ raws' = raws /\ moves' = moves /\ actions' = actions
      /\ pc' = pc /\ dispatched' = dispatched
  BY DEF Configure, messages, outside
<1>3. urgent[c] = <<>> /\ client[c].stage = "login" /\ ~Entered(c)
  BY <1>1, <1>2 DEF Life
<1>4. Plain("FinishConfiguration") \in Packet /\ Plain("FinishConfiguration").kind = "FinishConfiguration"
  BY Packets DEF Kinds
<1>5. /\ urgent' \in [Conns -> Seq(Packet)] /\ urgent'[c] = <<Plain("FinishConfiguration")>>
      /\ \A d \in Conns : d # c => urgent'[d] = urgent[d]
  <2>1. PICK q : q = Append(urgent[c], Plain("FinishConfiguration"))
    OBVIOUS
  <2>2. q = <<Plain("FinishConfiguration")>> /\ q \in Seq(Packet)
    BY <1>3, <1>4, <2>1
  <2>3. urgent' = [urgent EXCEPT ![c] = q] /\ urgent \in [Conns -> Seq(Packet)]
    BY <1>1, <1>2, <2>1 DEF Typed
  <2> QED BY <2>2, <2>3
<1>6. /\ rt' \in [Conns -> {"none", "Login", "Configuration", "Play"}] /\ rt'[c] = "Configuration"
      /\ \A d \in Conns : d # c => rt'[d] = rt[d]
  BY <1>1, <1>2 DEF Typed
<1>7. Bound' = Bound /\ Playing' = Playing /\ \A d : Entered(d)' <=> Entered(d)
  BY <1>2, <1>6 DEF Bound, Playing, Entered
<1>8. Typed'
  BY <1>1, <1>2, <1>5, <1>6, <1>7 DEF Typed
<1>9. Unwritten' /\ Once'
  BY <1>1, <1>2 DEF Unwritten, Once
<1>10. Seen'
  BY <1>1, <1>2, <1>7, Connections DEF Seen
<1>11. ASSUME NEW d \in Conns
       PROVE  At(d)' /\ Dug(d)'
  BY <1>1, <1>2, <1>7, AtFrame, DugFrame
<1>12. ASSUME NEW d \in Conns, d # c
       PROVE  Life(d)' /\ Batch(d)'
  <2>1. Life(d)'
    BY <1>1, <1>2, <1>5, <1>6, <1>7, <1>12, LifeFrame
  <2>2. Batch(d)'
    BY <1>1, <1>2, <1>5, <1>6, <1>7, <1>12, BatchFrame
  <2> QED BY <2>1, <2>2
<1>13. Life(c)'
  BY <1>1, <1>2, <1>3, <1>5, <1>6, <1>7 DEF Life
<1>14. Batch(c)'
  <2>1. client[c].batches = 0 /\ client[c].early \subseteq {"WindowItems"}
    BY <1>1, <1>2 DEF Batch
  <2>2. Len(urgent'[c]) = 1 /\ urgent'[c][1].kind = "FinishConfiguration"
    BY <1>4, <1>5
  <2>3. NoBatch(urgent[c])'
    BY <2>2 DEF NoBatch, Ends
  <2> QED BY <1>2, <1>3, <1>6, <1>7, <2>1, <2>3 DEF Batch
<1> QED BY <1>8, <1>9, <1>10, <1>11, <1>12, <1>13, <1>14 DEF TInv

LEMMA FinishConfigurationPreserves ==
  ASSUME TInv, pc = 1, UNCHANGED <<pc, dispatched>>, NEW c \in Conns, FinishConfiguration(c)
  PROVE  TInv'
<1>1. /\ Typed /\ Unwritten /\ Once /\ Seen
      /\ \A d \in Conns : Life(d) /\ Batch(d) /\ At(d) /\ Dug(d)
  BY DEF TInv
<1>2. /\ client[c].stage = "configured" /\ rt[c] = "Configuration" /\ rt' = [rt EXCEPT ![c] = "Play"]
      /\ urgent' = [urgent EXCEPT ![c] = Append(urgent[c], Plain("Login"))] /\ enters' = Append(enters, c)
      /\ instance' = instance /\ unsynced' = unsynced /\ normal' = normal /\ packets' = packets
      /\ client' = client /\ reported' = reported /\ dug' = dug
      /\ quits' = quits /\ raws' = raws /\ moves' = moves /\ actions' = actions
      /\ pc' = pc /\ dispatched' = dispatched
  BY DEF FinishConfiguration, outside
<1>3. urgent[c] = <<>> /\ ~Entered(c)
  BY <1>1, <1>2 DEF Life
<1>4. Plain("Login") \in Packet /\ Plain("Login").kind = "Login"
  BY Packets DEF Kinds
<1>5. /\ urgent' \in [Conns -> Seq(Packet)] /\ urgent'[c] = <<Plain("Login")>>
      /\ \A d \in Conns : d # c => urgent'[d] = urgent[d]
  <2>1. PICK q : q = Append(urgent[c], Plain("Login"))
    OBVIOUS
  <2>2. q = <<Plain("Login")>> /\ q \in Seq(Packet)
    BY <1>3, <1>4, <2>1
  <2>3. urgent' = [urgent EXCEPT ![c] = q] /\ urgent \in [Conns -> Seq(Packet)]
    BY <1>1, <1>2, <2>1 DEF Typed
  <2> QED BY <2>2, <2>3
<1>6. /\ rt' \in [Conns -> {"none", "Login", "Configuration", "Play"}] /\ rt'[c] = "Play"
      /\ \A d \in Conns : d # c => rt'[d] = rt[d]
  BY <1>1, <1>2 DEF Typed
<1>7. Bound' = Bound /\ Playing' = Playing \cup {c}
  BY <1>2, <1>6 DEF Bound, Playing
<1>8. /\ enters' \in Seq(Conns) /\ \A d : Entered(d)' <=> (Entered(d) \/ d = c)
      /\ Once'
  BY <1>1, <1>2, <1>3, EnteredAppend
<1>9. Typed'
  BY <1>1, <1>2, <1>5, <1>6, <1>7, <1>8 DEF Typed
<1>10. Unwritten'
  BY <1>1, <1>2 DEF Unwritten
<1>11. Seen'
  <2>1. ASSUME NEW a \in Playing', NEW b \in Playing', a # b, ~Entered(a)', ~Entered(b)'
        PROVE  client'[a].shown[b] # Unseen
    BY <1>1, <1>2, <1>7, <1>8, <2>1 DEF Seen
  <2> QED BY <1>2, <2>1 DEF Seen
<1>12. ASSUME NEW d \in Conns
       PROVE  At(d)' /\ Dug(d)'
  BY <1>1, <1>2, <1>7, AtFrame, DugFrame
<1>13. ASSUME NEW d \in Conns, d # c
       PROVE  Life(d)' /\ Batch(d)'
  <2>1. Life(d)'
    BY <1>1, <1>2, <1>5, <1>6, <1>8, <1>13, LifeFrame
  <2>2. Batch(d)'
    BY <1>1, <1>2, <1>5, <1>6, <1>8, <1>13, BatchFrame
  <2> QED BY <2>1, <2>2
<1>14. Len(urgent'[c]) = 1 /\ urgent'[c][1] = Plain("Login") /\ urgent'[c] # <<>>
  BY <1>5
<1>15. Life(c)'
  <2>1. \A i \in 2 .. Len(urgent'[c]) : FALSE
    BY <1>14
  <2>2. /\ \A i \in 1 .. Len(normal[c]) : normal[c][i].kind = "WindowItems"
        /\ \A i \in 1 .. Len(quits) : quits[i] # c
    BY <1>1, <1>2 DEF Life
  <2> QED BY <1>2, <1>6, <1>8, <1>14, <2>1, <2>2 DEF Life
<1>16. Batch(c)'
  <2>1. client[c].batches = 0 /\ client[c].early \subseteq {"WindowItems"}
    BY <1>1, <1>2 DEF Batch
  <2>2. NoBatch(urgent[c])'
    BY <1>4, <1>14 DEF NoBatch, Ends
  <2> QED BY <1>2, <1>6, <1>8, <2>1, <2>2 DEF Batch
<1> QED BY <1>8, <1>9, <1>10, <1>11, <1>12, <1>13, <1>15, <1>16 DEF TInv

LEMMA PlayerPositionPreserves ==
  ASSUME TInv, pc = 1, UNCHANGED <<pc, dispatched>>,
         NEW c \in Conns, NEW p \in Positions, PlayerPosition(c, p)
  PROVE  TInv'
<1>1. /\ Typed /\ Unwritten /\ Once /\ Seen
      /\ \A d \in Conns : Life(d) /\ Batch(d) /\ At(d) /\ Dug(d)
  BY DEF TInv
<1>2. /\ client[c].stage = "play" /\ raws' = Append(raws, <<c, p>>) /\ reported' = [reported EXCEPT ![c] = p]
      /\ rt' = rt /\ instance' = instance /\ unsynced' = unsynced /\ urgent' = urgent /\ normal' = normal
      /\ packets' = packets /\ client' = client /\ dug' = dug
      /\ enters' = enters /\ quits' = quits /\ moves' = moves /\ actions' = actions
      /\ pc' = pc /\ dispatched' = dispatched
  BY DEF PlayerPosition, InPlay, server
<1>3. /\ reported' \in [Conns -> Positions] /\ reported'[c] = p
      /\ \A d \in Conns : d # c => reported'[d] = reported[d]
  BY <1>1, <1>2 DEF Typed
<1>4. /\ raws' \in Seq(Conns \X Positions) /\ Len(raws) \in Nat /\ Len(raws') = Len(raws) + 1
      /\ raws'[Len(raws) + 1] = <<c, p>> /\ \A i \in 1 .. Len(raws) : raws'[i] = raws[i]
  <2>1. raws \in Seq(Conns \X Positions) /\ <<c, p>> \in Conns \X Positions
    BY <1>1 DEF Typed
  <2> QED BY <1>2, <2>1, AppendProperties, LenProperties
<1>5. Bound' = Bound /\ Playing' = Playing /\ \A d : Entered(d)' <=> Entered(d)
  BY <1>2 DEF Bound, Playing, Entered
<1>6. Typed'
  BY <1>1, <1>2, <1>3, <1>4, <1>5 DEF Typed
<1>7. Unwritten' /\ Once' /\ Seen'
  BY <1>1, <1>2, <1>5 DEF Unwritten, Once, Seen
<1>8. ASSUME NEW d \in Conns
      PROVE  Life(d)' /\ Batch(d)' /\ Dug(d)'
  BY <1>1, <1>2, <1>5, LifeFrame, BatchFrame, DugFrame
<1>9. \A i \in 1 .. Len(raws') : i \in 1 .. Len(raws) \/ i = Len(raws) + 1
  BY <1>4
<1>10. ASSUME NEW d \in Conns, d # c
       PROVE  At(d)'
  <2>1. Still(d, Len(raws)) => Still(d, Len(raws))'
    BY <1>4, <1>9, <1>10 DEF Still
  <2>2. ASSUME NEW q, Latest(d, q, Len(raws))
        PROVE  Latest(d, q, Len(raws))'
    <3>1. PICK k \in 1 .. Len(raws) : raws[k] = <<d, q>> /\ \A j \in k + 1 .. Len(raws) : raws[j][1] # d
      BY <2>2 DEF Latest
    <3>2. k \in 1 .. Len(raws') /\ raws'[k] = <<d, q>>
      BY <1>4, <3>1
    <3>3. \A j \in k + 1 .. Len(raws') : j \in k + 1 .. Len(raws) \/ j = Len(raws) + 1
      BY <1>4
    <3>4. \A j \in k + 1 .. Len(raws) : raws'[j] = raws[j]
      BY <1>4
    <3>5. ASSUME NEW j \in k + 1 .. Len(raws')
          PROVE  raws'[j][1] # d
      <4>1. CASE j \in k + 1 .. Len(raws)
        BY <3>1, <3>4, <4>1
      <4>2. CASE j = Len(raws) + 1
        BY <1>4, <1>10, <4>2
      <4> QED BY <3>3, <4>1, <4>2
    <3> QED BY <3>2, <3>5 DEF Latest
  <2>3. PICK q : q = reported[d]
    OBVIOUS
  <2>4. reported'[d] = q /\ (Latest(d, q, Len(raws)) => Latest(d, q, Len(raws))')
    BY <1>3, <1>10, <2>2, <2>3
  <2>5. Latest(d, q, Len(raws))' <=> Latest(d, reported[d], Len(raws))'
    BY <2>4
  <2> HIDE DEF Latest
  <2>6. d \in Bound => Latest(d, reported[d], Len(raws))'
                       \/ (Still(d, Len(raws))' /\ Below(instance'[d], reported'[d]))
    BY <1>1, <1>2, <1>3, <1>10, <2>1, <2>3, <2>4, <2>5 DEF At
  <2>7. client[d].stage = "new" => Still(d, Len(raws))' /\ reported'[d] = Origin
    BY <1>1, <1>3, <1>10, <2>1 DEF At
  <2> QED BY <1>2, <1>5, <2>6, <2>7 DEF At
<1>11. At(c)'
  <2>1. Latest(c, reported[c], Len(raws))'
    <3>1. \A j \in (Len(raws) + 1) + 1 .. Len(raws) + 1 : FALSE
      BY <1>4
    <3>2. Len(raws) + 1 \in 1 .. Len(raws')
      BY <1>4
    <3> QED BY <1>3, <1>4, <3>1, <3>2 DEF Latest
  <2> QED BY <1>2, <2>1 DEF At
<1> QED BY <1>6, <1>7, <1>8, <1>10, <1>11 DEF TInv

LEMMA ActPreserves ==
  ASSUME TInv, pc = 1, UNCHANGED <<pc, dispatched>>,
         NEW c \in Conns, NEW kind \in {"dig", "place"}, Act(c, kind)
  PROVE  TInv'
<1>1. /\ Typed /\ Unwritten /\ Once /\ Seen
      /\ \A d \in Conns : Life(d) /\ Batch(d) /\ At(d) /\ Dug(d)
  BY DEF TInv
<1>2. /\ client[c].stage = "play" /\ packets' = Append(packets, <<c, kind>>)
      /\ dug' = (IF kind = "dig" THEN [dug EXCEPT ![c] = dug[c] + 1] ELSE dug)
      /\ rt' = rt /\ instance' = instance /\ unsynced' = unsynced /\ urgent' = urgent /\ normal' = normal
      /\ client' = client /\ reported' = reported
      /\ enters' = enters /\ quits' = quits /\ raws' = raws /\ moves' = moves /\ actions' = actions
      /\ pc' = pc /\ dispatched' = dispatched
  BY DEF Act, InPlay, messages
<1>3. packets \in Seq(Acts) /\ actions \in Seq(Acts) /\ <<c, kind>> \in Acts
  BY <1>1 DEF Typed, Acts
<1>4. packets' \in Seq(Conns \X {"dig", "place"})
  BY <1>2, <1>3, AppendProperties DEF Acts
<1>5. /\ dug' \in [Conns -> Nat]
      /\ \A d \in Conns : dug'[d] = IF kind = "dig" /\ d = c THEN dug[d] + 1 ELSE dug[d]
  <2>1. dug \in [Conns -> Nat]
    BY <1>1 DEF Typed
  <2>2. PICK k \in Nat : k = dug[c] + 1
    BY <2>1
  <2>3. CASE kind = "dig"
    <3>1. dug' = [dug EXCEPT ![c] = k]
      BY <1>2, <2>2, <2>3
    <3> QED BY <2>1, <2>2, <2>3, <3>1
  <2>4. CASE kind # "dig"
    BY <1>2, <2>1, <2>4
  <2> QED BY <2>3, <2>4
<1>6. Bound' = Bound /\ Playing' = Playing /\ \A d : Entered(d)' <=> Entered(d)
  BY <1>2 DEF Bound, Playing, Entered
<1>7. Typed'
  BY <1>1, <1>2, <1>4, <1>5, <1>6 DEF Typed
<1>8. Unwritten' /\ Once' /\ Seen'
  BY <1>1, <1>2, <1>6 DEF Unwritten, Once, Seen
<1>9. ASSUME NEW d \in Conns
      PROVE  Life(d)' /\ Batch(d)' /\ At(d)'
  BY <1>1, <1>2, <1>6, LifeFrame, BatchFrame, AtFrame
<1>10. ASSUME NEW d \in Conns
       PROVE  Dug(d)'
  <2>1. Digs(packets', d) = Digs(packets, d) + (IF kind = "dig" /\ d = c THEN 1 ELSE 0)
    <3>1. Digs(packets', d) = Digs(packets, d) + (IF <<c, kind>> = <<d, "dig">> THEN 1 ELSE 0)
      BY <1>2, <1>3, DigsFacts
    <3>2. <<c, kind>> = <<d, "dig">> <=> kind = "dig" /\ d = c
      OBVIOUS
    <3> QED BY <3>1, <3>2
  <2>2. Digs(packets, d) \in Nat /\ Digs(actions, d) \in Nat /\ dispatched[d] \in Nat /\ dug[d] \in Nat
    BY <1>1, <1>3, DigsFacts DEF Typed
  <2>3. Pending(d)' = dispatched[d] + Digs(packets', d) + (IF pc <= 5 THEN Digs(actions, d) ELSE 0)
    BY <1>2 DEF Pending, Digs
  <2>4. PICK k \in Nat : k = IF pc <= 5 THEN Digs(actions, d) ELSE 0
    BY <2>2
  <2>5. Pending(d)' = Pending(d) + (IF kind = "dig" /\ d = c THEN 1 ELSE 0) /\ Pending(d) \in Nat
    <3>1. Pending(d) = dispatched[d] + Digs(packets, d) + k
      BY <2>4 DEF Pending
    <3>2. CASE kind = "dig" /\ d = c
      BY <2>1, <2>2, <2>3, <2>4, <3>1, <3>2
    <3>3. CASE ~(kind = "dig" /\ d = c)
      BY <2>1, <2>2, <2>3, <2>4, <3>1, <3>3
    <3> QED BY <3>2, <3>3
  <2>6. client[d].stage = "new" => d # c
    BY <1>2
  <2>7. CASE kind = "dig" /\ d = c
    BY <1>1, <1>2, <1>5, <2>2, <2>5, <2>6, <2>7 DEF Dug
  <2>8. CASE ~(kind = "dig" /\ d = c)
    BY <1>1, <1>2, <1>5, <2>2, <2>5, <2>6, <2>8 DEF Dug
  <2> QED BY <2>7, <2>8
<1> QED BY <1>7, <1>8, <1>9, <1>10 DEF TInv

LEMMA ClosedPreserves ==
  ASSUME TInv, pc = 1, UNCHANGED <<pc, dispatched>>, NEW c \in Conns, Closed(c)
  PROVE  TInv'
<1>1. /\ Typed /\ Unwritten /\ Once /\ Seen
      /\ \A d \in Conns : Life(d) /\ Batch(d) /\ At(d) /\ Dug(d)
  BY DEF TInv
<1>2. /\ rt' = [rt EXCEPT ![c] = "none"] /\ instance' = [d \in DOMAIN instance \ {c} |-> instance[d]]
      /\ unsynced' = unsynced \ {c} /\ quits' = Append(quits, c)
      /\ urgent' = [urgent EXCEPT ![c] = <<>>] /\ normal' = [normal EXCEPT ![c] = <<>>]
      /\ client' = Staged(c, "closed")
      /\ packets' = packets /\ reported' = reported /\ dug' = dug
      /\ enters' = enters /\ raws' = raws /\ moves' = moves /\ actions' = actions
      /\ pc' = pc /\ dispatched' = dispatched
  BY DEF Closed
<1>3. /\ client' \in [Conns -> Clients] /\ client'[c].stage = "closed"
      /\ \A d \in Conns : /\ client'[d].shown = client[d].shown /\ client'[d].batches = client[d].batches
                          /\ client'[d].early = client[d].early
                          /\ d # c => client'[d].stage = client[d].stage
  <2>1. "closed" \in Stages
    BY DEF Stages
  <2> QED BY <1>1, <1>2, <2>1, StagedFacts
<1>4. /\ rt' \in [Conns -> {"none", "Login", "Configuration", "Play"}] /\ rt'[c] = "none"
      /\ \A d \in Conns : d # c => rt'[d] = rt[d]
  BY <1>1, <1>2 DEF Typed
<1>5. /\ urgent' \in [Conns -> Seq(Packet)] /\ normal' \in [Conns -> Seq(Packet)]
      /\ urgent'[c] = <<>> /\ normal'[c] = <<>>
      /\ \A d \in Conns : d # c => urgent'[d] = urgent[d] /\ normal'[d] = normal[d]
  <2>1. PICK q \in Seq(Packet) : q = <<>>
    BY EmptySeq
  <2>2. urgent' = [urgent EXCEPT ![c] = q] /\ normal' = [normal EXCEPT ![c] = q]
        /\ urgent \in [Conns -> Seq(Packet)] /\ normal \in [Conns -> Seq(Packet)]
    BY <1>1, <1>2, <2>1 DEF Typed
  <2> QED BY <2>1, <2>2
<1>6. Bound' = Bound \ {c} /\ Playing' = Playing \ {c} /\ \A d : Entered(d)' <=> Entered(d)
  BY <1>2, <1>4 DEF Bound, Playing, Entered
<1>7. /\ quits' \in Seq(Conns) /\ Len(quits) \in Nat /\ Len(quits') = Len(quits) + 1
      /\ quits'[Len(quits) + 1] = c /\ \A i \in 1 .. Len(quits) : quits'[i] = quits[i]
  <2>1. quits \in Seq(Conns)
    BY <1>1 DEF Typed
  <2> QED BY <1>2, <2>1, AppendProperties, LenProperties
<1>8. Typed'
  <2>1. DOMAIN instance' = Bound' /\ \A d \in Bound' : instance'[d] \in Int
    BY <1>1, <1>2, <1>6 DEF Typed
  <2>2. unsynced' \subseteq Bound'
    BY <1>1, <1>2, <1>6 DEF Typed
  <2> QED BY <1>1, <1>2, <1>3, <1>4, <1>5, <1>7, <2>1, <2>2 DEF Typed
<1>9. Unwritten' /\ Once'
  BY <1>1, <1>2 DEF Unwritten, Once
<1>10. Seen'
  <2>1. \A a \in Playing' : a \in Playing /\ a # c /\ a \in Conns
    BY <1>6, Connections
  <2> QED BY <1>1, <1>2, <1>3, <1>6, <2>1 DEF Seen
<1>11. ASSUME NEW d \in Conns, d # c
       PROVE  Life(d)' /\ Batch(d)' /\ At(d)' /\ Dug(d)'
  <2>1. \A i \in 1 .. Len(quits') : quits'[i] = d => \E j \in 1 .. Len(quits) : quits[j] = d
    <3>1. \A i \in 1 .. Len(quits') : i \in 1 .. Len(quits) \/ i = Len(quits) + 1
      BY <1>7
    <3> QED BY <1>7, <1>11, <3>1
  <2>2. Life(d)'
    <3>1. /\ Life(d) /\ rt'[d] = rt[d] /\ client'[d].stage = client[d].stage
          /\ urgent'[d] = urgent[d] /\ normal'[d] = normal[d] /\ (Entered(d)' <=> Entered(d))
      BY <1>1, <1>3, <1>4, <1>5, <1>6, <1>11
    <3> QED BY <2>1, <3>1, LifeFrame
  <2>3. Batch(d)'
    <3>1. /\ Batch(d) /\ rt'[d] = rt[d] /\ urgent'[d] = urgent[d] /\ (Entered(d)' <=> Entered(d))
          /\ client'[d].stage = client[d].stage /\ client'[d].batches = client[d].batches
          /\ client'[d].early = client[d].early
      BY <1>1, <1>3, <1>4, <1>5, <1>6, <1>11
    <3>2. (OneBatch(urgent[d]) => OneBatch(urgent[d])') /\ (NoBatch(urgent[d]) => NoBatch(urgent[d])')
      BY <3>1 DEF OneBatch, NoBatch, Ends
    <3> QED BY <1>2, <3>1, <3>2, BatchFrame
  <2>4. At(d)'
    <3>1. d \in Bound' <=> d \in Bound
      BY <1>6, <1>11
    <3>2. d \in Bound => instance'[d] = instance[d]
      BY <1>1, <1>2, <1>11 DEF Typed
    <3> QED BY <1>1, <1>2, <1>3, <1>11, <3>1, <3>2, AtFrame
  <2>5. Dug(d)'
    BY <1>1, <1>2, <1>3, <1>11, DugFrame
  <2> QED BY <2>2, <2>3, <2>4, <2>5
<1>12. Life(c)'
  BY <1>3, <1>4, <1>5 DEF Life
<1>13. Batch(c)'
  <2>1. client[c].batches \in {0, 1} /\ client[c].early \subseteq {"WindowItems"}
    BY <1>1 DEF Batch
  <2>2. NoBatch(urgent[c])'
    BY <1>5 DEF NoBatch
  <2> QED BY <1>3, <1>4, <2>1, <2>2 DEF Batch
<1>14. At(c)'
  BY <1>3, <1>6 DEF At
<1>15. Dug(c)'
  <2>1. Pending(c)' = Pending(c)
    BY <1>2 DEF Pending, Digs
  <2> QED BY <1>1, <1>2, <1>3, <2>1 DEF Dug
<1> QED BY <1>8, <1>9, <1>10, <1>11, <1>12, <1>13, <1>14, <1>15 DEF TInv

LEMMA NetworkReceivePreserves ==
  ASSUME TInv, NetworkReceive
  PROVE  TInv'
<1>1. pc = 1 /\ UNCHANGED <<pc, dispatched>>
  BY Turns DEF NetworkReceive, TInv, Typed
<1>2. PICK c \in Conns :
        \/ Hello(c) \/ Configure(c) \/ FinishConfiguration(c)
        \/ \E p \in Positions : PlayerPosition(c, p)
        \/ \E k \in {"dig", "place"} : Act(c, k)
        \/ Closed(c)
  BY DEF NetworkReceive
<1> QED BY <1>1, <1>2, HelloPreserves, ConfigurePreserves, FinishConfigurationPreserves,
           PlayerPositionPreserves, ActPreserves, ClosedPreserves

----------------------------------------------------------------------------
(* The systems that follow *)

LEMMA ReceiveEndsPreserves ==
  ASSUME TInv, ReceiveEnds
  PROVE  TInv'
<1>1. /\ Typed /\ Unwritten /\ Once /\ Seen
      /\ \A d \in Conns : Life(d) /\ Batch(d) /\ At(d) /\ Dug(d)
  BY DEF TInv
<1>2. /\ pc = 1 /\ pc' = 2
      /\ rt' = rt /\ instance' = instance /\ unsynced' = unsynced /\ urgent' = urgent /\ normal' = normal
      /\ packets' = packets /\ client' = client /\ reported' = reported /\ dug' = dug
      /\ enters' = enters /\ quits' = quits /\ raws' = raws /\ moves' = moves /\ actions' = actions
      /\ dispatched' = dispatched
  BY <1>1, Turns DEF ReceiveEnds, Advance, server, messages, outside, Typed
<1>3. Bound' = Bound /\ Playing' = Playing /\ \A d : Entered(d)' <=> Entered(d)
  BY <1>2 DEF Bound, Playing, Entered
<1>4. Typed'
  BY <1>1, <1>2, <1>3 DEF Typed
<1>5. Unwritten' /\ Once' /\ Seen'
  BY <1>1, <1>2, <1>3 DEF Unwritten, Once, Seen
<1>6. ASSUME NEW d \in Conns
      PROVE  Life(d)' /\ Batch(d)' /\ At(d)' /\ Dug(d)'
  BY <1>1, <1>2, <1>3, LifeFrame, BatchFrame, AtFrame, DugFrame
<1> QED BY <1>4, <1>5, <1>6 DEF TInv

LEMMA PacketActionPreserves ==
  ASSUME TInv, PacketAction
  PROVE  TInv'
<1>1. /\ Typed /\ Unwritten /\ Once /\ Seen
      /\ \A d \in Conns : Life(d) /\ Batch(d) /\ At(d) /\ Dug(d)
  BY DEF TInv
<1>2. /\ pc = 2 /\ pc' = 3 /\ actions' = FoldLeft(Pass, actions, packets) /\ packets' = <<>>
      /\ rt' = rt /\ instance' = instance /\ unsynced' = unsynced /\ urgent' = urgent /\ normal' = normal
      /\ client' = client /\ reported' = reported /\ dug' = dug
      /\ enters' = enters /\ quits' = quits /\ raws' = raws /\ moves' = moves
      /\ dispatched' = dispatched
  BY <1>1, Turns DEF PacketAction, Advance, outside, Typed
<1>3. Bound' = Bound /\ Playing' = Playing /\ \A d : Entered(d)' <=> Entered(d)
  BY <1>2 DEF Bound, Playing, Entered
<1>4. /\ actions = <<>> /\ packets \in Seq(Acts) /\ actions' \in Seq(Acts)
      /\ \A c \in Conns : Digs(actions', c) = IF c \in Bound THEN Digs(packets, c) ELSE 0
  <2>1. actions = <<>> /\ packets \in Seq(Acts)
    BY <1>1, <1>2 DEF Unwritten, Typed, Acts
  <2> QED BY <1>2, <2>1, PassesDigs
<1>5. packets' \in Seq(Acts)
  BY <1>2, EmptySeq
<1>6. Typed'
  BY <1>1, <1>2, <1>3, <1>4, <1>5 DEF Typed, Acts
<1>7. Unwritten' /\ Once' /\ Seen'
  BY <1>1, <1>2, <1>3 DEF Unwritten, Once, Seen
<1>8. ASSUME NEW d \in Conns
      PROVE  Life(d)' /\ Batch(d)' /\ At(d)'
  BY <1>1, <1>2, <1>3, LifeFrame, BatchFrame, AtFrame
<1>9. ASSUME NEW d \in Conns
      PROVE  Dug(d)'
  <2>1. Digs(packets, d) \in Nat /\ Digs(<<>>, d) = 0 /\ dispatched[d] \in Nat /\ dug[d] \in Nat
    BY <1>1, <1>4, DigsFacts DEF Typed
  <2>2. Pending(d) = dispatched[d] + Digs(packets, d)
    BY <1>2, <1>4, <2>1 DEF Pending
  <2>3. Pending(d)' = dispatched[d] + Digs(packets', d) + Digs(actions', d)
    BY <1>2 DEF Pending, Digs
  <2>4. PICK k : k = Digs(actions', d)
    OBVIOUS
  <2>5. Pending(d)' = dispatched[d] + k
    BY <1>2, <1>4, <2>1, <2>3, <2>4
  <2>6. k = IF d \in Bound THEN Digs(packets, d) ELSE 0
    BY <1>4, <2>4
  <2>7. CASE d \in Bound
    BY <1>1, <1>2, <2>1, <2>2, <2>5, <2>6, <2>7 DEF Dug
  <2>8. CASE d \notin Bound
    <3>1. rt[d] = "none"
      BY <2>8 DEF Bound
    <3>2. client[d].stage = "new" \/ client[d].stage = "closed"
      BY <1>1, <3>1 DEF Life
    <3>3. client[d].stage = "new" => dispatched[d] + Digs(packets, d) = 0 /\ dug[d] = 0
      BY <1>1, <2>1, <2>2 DEF Dug
    <3>4. Pending(d)' = dispatched[d]
      BY <2>1, <2>5, <2>6, <2>8
    <3> QED BY <1>1, <1>2, <2>1, <2>2, <3>2, <3>3, <3>4 DEF Dug
  <2> QED BY <2>7, <2>8
<1> QED BY <1>6, <1>7, <1>8, <1>9 DEF TInv

LEMMA ChunkSendPreserves ==
  ASSUME TInv, ChunkSend
  PROVE  TInv'
<1>1. /\ Typed /\ Unwritten /\ Once /\ Seen
      /\ \A d \in Conns : Life(d) /\ Batch(d) /\ At(d) /\ Dug(d)
  BY DEF TInv
<1>2. /\ pc = 3 /\ pc' = 4 /\ urgent' = FoldLeft(SendBatch, urgent, enters)
      /\ rt' = rt /\ instance' = instance /\ unsynced' = unsynced /\ normal' = normal
      /\ packets' = packets /\ client' = client /\ reported' = reported /\ dug' = dug
      /\ enters' = enters /\ quits' = quits /\ raws' = raws /\ moves' = moves /\ actions' = actions
      /\ dispatched' = dispatched
  BY <1>1, Turns DEF ChunkSend, Advance, messages, outside, Typed
<1>3. Bound' = Bound /\ Playing' = Playing /\ \A d : Entered(d)' <=> Entered(d)
  BY <1>2 DEF Bound, Playing, Entered
<1>4. SentTo(urgent', Len(enters), 0)
  BY <1>1, <1>2, SendsBatches
<1>5. /\ urgent' \in [Conns -> Seq(Packet)]
      /\ \A d \in Conns :
           /\ Extends(urgent'[d], urgent[d], Chunks)
           /\ d \notin Playing => urgent'[d] = urgent[d]
           /\ NoBatch(urgent[d]) =>
                IF d \in Bound /\ Entered(d) THEN OneBatch(urgent'[d]) ELSE NoBatch(urgent'[d])
  BY <1>4 DEF SentTo, Entered
<1>6. Typed'
  <2>1. urgent' \in [Conns -> Seq(Packet)]
    BY <1>5
  <2> QED BY <1>1, <1>2, <1>3, <2>1 DEF Typed
<1>7. Unwritten' /\ Once' /\ Seen'
  BY <1>1, <1>2, <1>3 DEF Unwritten, Once, Seen
<1>8. ASSUME NEW d \in Conns
      PROVE  At(d)' /\ Dug(d)'
  BY <1>1, <1>2, <1>3, AtFrame, DugFrame
<1>9. ASSUME NEW d \in Conns
      PROVE  Life(d)'
  BY <1>1, <1>2, <1>3, <1>5, LongerLives
<1>10. ASSUME NEW d \in Conns
       PROVE  Batch(d)'
  <2>1. NoBatch(urgent[d])
    BY <1>1, <1>2 DEF Batch
  <2>2. IF d \in Bound /\ Entered(d) THEN OneBatch(urgent'[d]) ELSE NoBatch(urgent'[d])
    BY <1>5, <2>1
  <2>3. rt[d] = "Play" => d \in Bound
    BY DEF Bound
  <2>4. Entered(d) /\ rt[d] # "Play" => d \notin Bound
    BY <1>1, EnteredPlays, Connections
  <2>5. IF rt[d] = "Play" /\ Entered(d) THEN OneBatch(urgent'[d]) ELSE NoBatch(urgent'[d])
    BY <2>2, <2>3, <2>4
  <2>6. (OneBatch(urgent[d])' <=> OneBatch(urgent'[d])) /\ (NoBatch(urgent[d])' <=> NoBatch(urgent'[d]))
    BY DEF OneBatch, NoBatch, Ends
  <2> QED BY <1>1, <1>2, <1>3, <2>5, <2>6 DEF Batch
<1> QED BY <1>6, <1>7, <1>8, <1>9, <1>10 DEF TInv

LEMMA EntitySyncPreserves ==
  ASSUME TInv, EntitySync
  PROVE  TInv'
<1>1. /\ Typed /\ Unwritten /\ Once /\ Seen
      /\ \A d \in Conns : Life(d) /\ Batch(d) /\ At(d) /\ Dug(d)
  BY DEF TInv
<1>2. /\ pc = 4 /\ pc' = 5
      /\ urgent' = FoldLeft(QuitSync, FoldLeft(EnterSync, urgent, enters), quits)
      /\ normal' = FoldLeft(MoveSync, normal, SetToSeq(Conns))
      /\ rt' = rt /\ instance' = instance /\ unsynced' = unsynced
      /\ packets' = packets /\ client' = client /\ reported' = reported /\ dug' = dug
      /\ enters' = enters /\ quits' = quits /\ raws' = raws /\ moves' = moves /\ actions' = actions
      /\ dispatched' = dispatched
  BY <1>1, Turns DEF EntitySync, Advance, messages, outside, Typed
<1>3. Bound' = Bound /\ Playing' = Playing /\ \A d : Entered(d)' <=> Entered(d)
  BY <1>2 DEF Bound, Playing, Entered
<1>4. normal' = normal
  <2>1. moves = <<>>
    BY <1>1, <1>2 DEF Unwritten
  <2> QED BY <1>2, <2>1, MovesNobody
<1>5. urgent' = FoldLeft(EnterSync, urgent, enters)
  BY <1>1, <1>2, RemovesNobody
<1>6. Welcomed(urgent', Len(enters), 0)
  BY <1>1, <1>5, WelcomesAll
<1>7. /\ urgent' \in [Conns -> Seq(Packet)]
      /\ \A d \in Conns :
           Extends(urgent'[d], urgent[d], {"SpawnEntity"}) /\ (d \notin Playing => urgent'[d] = urgent[d])
      /\ \A x, y \in Playing : x # y /\ (Entered(x) \/ Entered(y)) => Spawned(urgent'[x], y)
  BY <1>6 DEF Welcomed, Entered
<1>8. Typed'
  BY <1>1, <1>2, <1>3, <1>4, <1>7 DEF Typed
<1>9. Unwritten' /\ Once'
  BY <1>1, <1>2, <1>3 DEF Unwritten, Once
<1>10. Seen'
  <2>1. \A x, y : Spawned(urgent[x], y)' <=> Spawned(urgent'[x], y)
    BY DEF Spawned
  <2> QED BY <1>1, <1>2, <1>3, <1>7, <2>1 DEF Seen
<1>11. ASSUME NEW d \in Conns
       PROVE  At(d)' /\ Dug(d)'
  BY <1>1, <1>2, <1>3, AtFrame, DugFrame
<1>12. ASSUME NEW d \in Conns
       PROVE  Life(d)'
  BY <1>1, <1>2, <1>3, <1>4, <1>7, LongerLives
<1>13. ASSUME NEW d \in Conns
       PROVE  Batch(d)'
  <2>1. (OneBatch(urgent[d]) => OneBatch(urgent'[d])) /\ (NoBatch(urgent[d]) => NoBatch(urgent'[d]))
    <3>1. urgent[d] \in Seq(Packet) /\ Extends(urgent'[d], urgent[d], {"SpawnEntity"})
      BY <1>1, <1>7 DEF Typed
    <3>2. "ChunkBatchFinished" \notin {"SpawnEntity"}
      OBVIOUS
    <3> QED BY <3>1, <3>2, BatchesExtend
  <2>2. (OneBatch(urgent[d])' <=> OneBatch(urgent'[d])) /\ (NoBatch(urgent[d])' <=> NoBatch(urgent'[d]))
    BY DEF OneBatch, NoBatch, Ends
  <2> QED BY <1>1, <1>2, <1>3, <2>1, <2>2, BatchFrame
<1> QED BY <1>8, <1>9, <1>10, <1>11, <1>12, <1>13 DEF TInv

LEMMA BlockInteractionValidatorPreserves ==
  ASSUME TInv, BlockInteractionValidator
  PROVE  TInv'
<1>1. /\ Typed /\ Unwritten /\ Once /\ Seen
      /\ \A d \in Conns : Life(d) /\ Batch(d) /\ At(d) /\ Dug(d)
  BY DEF TInv
<1>2. /\ pc = 5 /\ pc' = 6 /\ dispatched' = [c \in Conns |-> dispatched[c] + Digs(actions, c)]
      /\ rt' = rt /\ instance' = instance /\ unsynced' = unsynced /\ urgent' = urgent /\ normal' = normal
      /\ packets' = packets /\ client' = client /\ reported' = reported /\ dug' = dug
      /\ enters' = enters /\ quits' = quits /\ raws' = raws /\ moves' = moves /\ actions' = actions
  BY <1>1, Turns DEF BlockInteractionValidator, Advance, server, messages, outside, Typed
<1>3. Bound' = Bound /\ Playing' = Playing /\ \A d : Entered(d)' <=> Entered(d)
  BY <1>2 DEF Bound, Playing, Entered
<1>4. \A d \in Conns : Digs(actions, d) \in Nat /\ dispatched[d] \in Nat
                       /\ Digs(packets, d) \in Nat
  BY <1>1, DigsFacts DEF Typed
<1>5. dispatched' \in [Conns -> Nat]
  BY <1>2, <1>4
<1>6. Typed'
  BY <1>1, <1>2, <1>3, <1>5 DEF Typed
<1>7. Unwritten' /\ Once' /\ Seen'
  BY <1>1, <1>2, <1>3 DEF Unwritten, Once, Seen
<1>8. ASSUME NEW d \in Conns
      PROVE  Life(d)' /\ Batch(d)' /\ At(d)'
  BY <1>1, <1>2, <1>3, LifeFrame, BatchFrame, AtFrame
<1>9. ASSUME NEW d \in Conns
      PROVE  Dug(d)'
  <2>1. Pending(d) = dispatched[d] + Digs(packets, d) + Digs(actions, d)
    BY <1>2 DEF Pending
  <2>2. Pending(d)' = dispatched'[d] + Digs(packets, d) + 0
    BY <1>2 DEF Pending, Digs
  <2>3. dispatched'[d] = dispatched[d] + Digs(actions, d)
    BY <1>2
  <2>4. Pending(d)' = Pending(d)
    BY <1>4, <2>1, <2>2, <2>3
  <2> QED BY <1>1, <1>2, <2>4 DEF Dug
<1> QED BY <1>6, <1>7, <1>8, <1>9 DEF TInv

LEMMA InventorySyncPreserves ==
  ASSUME TInv, InventorySync
  PROVE  TInv'
<1>1. /\ Typed /\ Unwritten /\ Once /\ Seen
      /\ \A d \in Conns : Life(d) /\ Batch(d) /\ At(d) /\ Dug(d)
  BY DEF TInv
<1>2. /\ pc = 6 /\ pc' = 7
      /\ normal' = [c \in Conns |->
           IF c \in unsynced THEN Append(normal[c], Plain("WindowItems")) ELSE normal[c]]
      /\ unsynced' = {}
      /\ rt' = rt /\ instance' = instance /\ urgent' = urgent
      /\ packets' = packets /\ client' = client /\ reported' = reported /\ dug' = dug
      /\ enters' = enters /\ quits' = quits /\ raws' = raws /\ moves' = moves /\ actions' = actions
      /\ dispatched' = dispatched
  BY <1>1, Turns DEF InventorySync, Advance, messages, outside, Typed
<1>3. Bound' = Bound /\ Playing' = Playing /\ \A d : Entered(d)' <=> Entered(d)
  BY <1>2 DEF Bound, Playing, Entered
<1>4. \A d \in Conns : normal'[d] \in Seq(Packet) /\ (d \notin Bound => normal'[d] = normal[d])
                       /\ \A i \in 1 .. Len(normal'[d]) : normal'[d][i].kind = "WindowItems"
  <2> TAKE d \in Conns
  <2>1. PICK p \in Packet : p = Plain("WindowItems") /\ p.kind = "WindowItems"
    BY Packets
  <2>2. PICK q \in Seq(Packet) : q = normal[d] /\ \A i \in 1 .. Len(q) : q[i].kind = "WindowItems"
    BY <1>1 DEF Typed, Life
  <2>3. CASE d \in unsynced
    <3>1. normal'[d] = Append(q, p) /\ d \in Bound
      BY <1>1, <1>2, <2>1, <2>2, <2>3 DEF Typed
    <3>2. PICK r : r = Append(q, p)
      OBVIOUS
    <3>3. /\ r \in Seq(Packet) /\ Len(r) = Len(q) + 1 /\ Len(q) \in Nat /\ r[Len(q) + 1] = p
          /\ \A i \in 1 .. Len(q) : r[i] = q[i]
      BY <3>2, AppendProperties, LenProperties
    <3>4. \A i \in 1 .. Len(r) : i \in 1 .. Len(q) \/ i = Len(q) + 1
      BY <3>3
    <3> QED BY <2>1, <2>2, <3>1, <3>2, <3>3, <3>4
  <2>4. CASE d \notin unsynced
    BY <1>2, <2>2, <2>4
  <2> QED BY <2>3, <2>4
<1>5. normal' \in [Conns -> Seq(Packet)]
  BY <1>2, <1>4
<1>6. Typed'
  BY <1>1, <1>2, <1>3, <1>5 DEF Typed
<1>7. Unwritten' /\ Once' /\ Seen'
  BY <1>1, <1>2, <1>3 DEF Unwritten, Once, Seen
<1>8. ASSUME NEW d \in Conns
      PROVE  Batch(d)' /\ At(d)' /\ Dug(d)'
  BY <1>1, <1>2, <1>3, BatchFrame, AtFrame, DugFrame
<1>9. ASSUME NEW d \in Conns
      PROVE  Life(d)'
  <2>1. rt[d] = "none" => normal'[d] = normal[d]
    BY <1>4 DEF Bound
  <2> QED BY <1>1, <1>2, <1>3, <1>4, <2>1 DEF Life
<1> QED BY <1>6, <1>7, <1>8, <1>9 DEF TInv

LEMMA OneLatest ==
  ASSUME Typed, NEW c, NEW p, NEW q, Latest(c, p, Len(raws))
  PROVE  (Latest(c, q, Len(raws)) => p = q) /\ ~Still(c, Len(raws))
<1>1. PICK i \in 1 .. Len(raws) : raws[i] = <<c, p>> /\ \A k \in i + 1 .. Len(raws) : raws[k][1] # c
  BY DEF Latest
<1>2. raws \in Seq(Conns \X Positions) /\ Len(raws) \in Nat /\ raws[i][1] = c
  BY <1>1, LenProperties DEF Typed
<1>3. ASSUME Latest(c, q, Len(raws))
      PROVE  p = q
  <2>1. PICK j \in 1 .. Len(raws) : raws[j] = <<c, q>> /\ \A k \in j + 1 .. Len(raws) : raws[k][1] # c
    BY <1>3 DEF Latest
  <2>2. raws[j][1] = c
    BY <2>1
  <2>3. ~(j > i) /\ ~(i > j)
    BY <1>1, <1>2, <2>1, <2>2
  <2>4. i = j
    BY <1>2, <2>3
  <2> QED BY <1>1, <2>1, <2>4
<1> QED BY <1>2, <1>3 DEF Still

LEMMA PlayerInputPreserves ==
  ASSUME TInv, PlayerInput
  PROVE  TInv'
<1>1. /\ Typed /\ Unwritten /\ Once /\ Seen
      /\ \A d \in Conns : Life(d) /\ Batch(d) /\ At(d) /\ Dug(d)
  BY DEF TInv
<1>2. PICK s : s = FoldLeft(Apply, [at |-> instance, moves |-> moves], raws)
  OBVIOUS
<1>3. /\ pc = 7 /\ pc' = 8 /\ instance' = s.at
      /\ rt' = rt /\ unsynced' = unsynced /\ urgent' = urgent /\ normal' = normal
      /\ packets' = packets /\ client' = client /\ reported' = reported /\ dug' = dug
      /\ enters' = enters /\ quits' = quits /\ raws' = raws /\ actions' = actions
      /\ dispatched' = dispatched
  BY <1>1, <1>2, Turns DEF PlayerInput, Advance, outside, Typed
<1>4. Bound' = Bound /\ Playing' = Playing /\ \A d : Entered(d)' <=> Entered(d)
  BY <1>3 DEF Bound, Playing, Entered
<1>5. Applied(s, Len(raws), 0)
  BY <1>1, <1>2, AppliesAll
<1>6. /\ DOMAIN s.at = Bound
      /\ \A c \in Bound :
           s.at[c] \in Int
           /\ (Latest(c, s.at[c], Len(raws)) \/ (Still(c, Len(raws)) /\ s.at[c] = instance[c]))
  BY <1>5 DEF Applied
<1>7. Typed'
  <2>1. DOMAIN instance' = Bound' /\ \A c \in Bound' : instance'[c] \in Int
    BY <1>3, <1>4, <1>6
  <2> QED BY <1>1, <1>3, <1>4, <2>1 DEF Typed
<1>8. Unwritten' /\ Once' /\ Seen'
  BY <1>1, <1>3, <1>4 DEF Unwritten, Once, Seen
<1>9. ASSUME NEW d \in Conns
      PROVE  Life(d)' /\ Batch(d)' /\ Dug(d)'
  BY <1>1, <1>3, <1>4, LifeFrame, BatchFrame, DugFrame
<1>10. ASSUME NEW c \in Conns
       PROVE  At(c)'
  <2>1. ASSUME c \in Bound
        PROVE  \/ instance'[c] = reported[c]
               \/ Still(c, Len(raws)) /\ Below(instance'[c], reported[c])
    <3>1. Latest(c, reported[c], Len(raws)) \/ (Still(c, Len(raws)) /\ Below(instance[c], reported[c]))
      BY <1>1, <1>3, <2>1 DEF At
    <3>2. Latest(c, s.at[c], Len(raws)) \/ (Still(c, Len(raws)) /\ s.at[c] = instance[c])
      BY <1>6, <2>1
    <3>3. CASE Latest(c, reported[c], Len(raws))
      BY <1>1, <1>3, <3>2, <3>3, OneLatest
    <3>4. CASE Still(c, Len(raws)) /\ Below(instance[c], reported[c])
      <4>1. ~Latest(c, s.at[c], Len(raws))
        BY <1>1, <3>4, OneLatest
      <4> QED BY <1>3, <3>2, <3>4, <4>1
    <3> QED BY <3>1, <3>3, <3>4
  <2>2. client[c].stage = "new" => Still(c, Len(raws)) /\ reported[c] = Origin
    BY <1>1 DEF At
  <2>3. Still(c, Len(raws)) => Still(c, Len(raws))'
    BY <1>3 DEF Still
  <2> QED BY <1>3, <1>4, <2>1, <2>2, <2>3 DEF At
<1> QED BY <1>7, <1>8, <1>9, <1>10 DEF TInv

\* What a client is sent at the end of a tick suits the stage that it is at.
LEMMA FlushedQueue ==
  ASSUME Typed, NEW c \in Conns, Life(c)
  PROVE  \E q : /\ q = urgent[c] \o normal[c] /\ Orderly(q, client[c].stage)
                /\ Extends(q, urgent[c], {"WindowItems"}) /\ urgent[c] \in Seq(Packet)
                /\ StageAfter(q, client[c].stage, Len(q)) =
                     CASE rt[c] = "none" -> client[c].stage
                       [] rt[c] = "Login" -> "login"
                       [] rt[c] = "Configuration" -> "configured"
                       [] rt[c] = "Play" -> "play"
<1>1. PICK u \in Seq(Packet), n \in Seq(Packet) : u = urgent[c] /\ n = normal[c]
  BY DEF Typed
<1>2. PICK q : q = u \o n
  OBVIOUS
<1>3. \A i \in 1 .. Len(n) : n[i].kind \in {"WindowItems"}
  BY <1>1 DEF Life
<1>4. Extends(u, u, {"WindowItems"})
  BY ExtendsSelf
<1>5. Extends(q, u, {"WindowItems"}) /\ Len(q) = Len(u) + Len(n)
  BY <1>2, <1>3, <1>4, ExtendsConcat
<1>6. /\ q \in Seq(Packet) /\ Len(u) \in Nat /\ Len(n) \in Nat /\ Len(q) \in Nat /\ Len(u) <= Len(q)
      /\ \A i \in 1 .. Len(u) : q[i] = u[i]
      /\ \A i \in 1 .. Len(q) : i > Len(u) => q[i].kind = "WindowItems"
      /\ \A i \in 1 .. Len(q) : i \in 1 .. Len(u) \/ i > Len(u)
  BY <1>5, LenProperties DEF Extends
<1>7. (u = <<>> <=> Len(u) = 0) /\ (n = <<>> <=> Len(n) = 0)
  BY <1>6, EmptySeq
<1> DEFINE s == client[c].stage
           Good(t) == Orderly(q, s) /\ StageAfter(q, s, Len(q)) = t
<1>8. ASSUME Len(u) = 0
      PROVE  Good(s)
  <2>1. \A i \in 1 .. Len(q) : q[i].kind = "WindowItems"
    BY <1>6, <1>8
  <2>2. Orderly(q, s)
    BY <1>6, <2>1 DEF Orderly, Chunks
  <2>3. Len(q) = 0 \/ q[1].kind = "WindowItems"
    BY <1>6, <2>1
  <2> QED BY <2>2, <2>3 DEF StageAfter
<1>9. CASE rt[c] = "none"
  <2>1. Good(s)
    BY <1>1, <1>7, <1>8, <1>9 DEF Life
  <2> QED BY <1>1, <1>2, <1>5, <1>9, <2>1
<1>10. CASE rt[c] = "Login"
  <2>1. s = "login" /\ Good(s)
    BY <1>1, <1>7, <1>8, <1>10 DEF Life
  <2> QED BY <1>1, <1>2, <1>5, <1>10, <2>1
<1>11. CASE rt[c] = "Configuration"
  <2>1. Good("configured")
    <3>1. CASE s = "configured" /\ u = <<>>
      BY <1>7, <1>8, <3>1
    <3>2. CASE s = "login" /\ u = <<Plain("FinishConfiguration")>>
      <4>1. Len(u) = 1 /\ u[1].kind = "FinishConfiguration"
        BY <3>2 DEF Plain
      <4>2. q[1].kind = "FinishConfiguration" /\ Len(q) # 0
        BY <1>6, <4>1
      <4>3. \A i \in 1 .. Len(q) : i = 1 \/ q[i].kind = "WindowItems"
        BY <1>6, <4>1
      <4>4. Orderly(q, s)
        BY <1>6, <4>2, <4>3 DEF Orderly, Chunks
      <4> QED BY <4>2, <4>4 DEF StageAfter
    <3> QED BY <1>1, <1>11, <3>1, <3>2 DEF Life
  <2> QED BY <1>1, <1>2, <1>5, <1>11, <2>1
<1>12. CASE rt[c] = "Play"
  <2>1. Good("play")
    <3>1. CASE Entered(c)
      <4>1. /\ u # <<>> /\ u[1] = Plain("Login")
            /\ \A i \in 2 .. Len(u) : u[i].kind \in Chunks \cup {"SpawnEntity"}
        BY <1>1, <1>12, <3>1 DEF Life
      <4>2. Len(u) >= 1 /\ u[1].kind = "Login"
        BY <1>6, <1>7, <4>1 DEF Plain
      <4>3. q[1].kind = "Login" /\ Len(q) # 0
        BY <1>6, <4>2
      <4>4. \A i \in 1 .. Len(q) : i = 1 \/ i \in 2 .. Len(u) \/ q[i].kind = "WindowItems"
        BY <1>6
      <4>5. \A i \in 1 .. Len(q) : i = 1 \/ q[i].kind \in Chunks \cup {"SpawnEntity", "WindowItems"}
        BY <1>6, <4>1, <4>4
      <4>6. Orderly(q, s)
        BY <1>6, <4>3, <4>5 DEF Orderly, Chunks
      <4> QED BY <4>3, <4>6 DEF StageAfter
    <3>2. CASE ~Entered(c)
      <4>1. s = "play" /\ \A i \in 1 .. Len(u) : u[i].kind \in Chunks \cup {"SpawnEntity"}
        BY <1>1, <1>12, <3>2 DEF Life
      <4>2. \A i \in 1 .. Len(q) : q[i].kind \in Chunks \cup {"SpawnEntity", "WindowItems"}
        BY <1>6, <4>1
      <4>3. Len(q) = 0 \/ q[1].kind \in Chunks \cup {"SpawnEntity", "WindowItems"}
        BY <1>6, <4>2
      <4>4. Orderly(q, s)
        <5>1. \A i \in 1 .. Len(q) : /\ q[i].kind \notin {"PlayerRemove", "RelEntityMove"}
                                     /\ q[i].kind \notin {"FinishConfiguration", "Login"}
          BY <4>2 DEF Chunks
        <5>2. \A i \in 1 .. Len(q) : 1 \in 1 .. Len(q)
          BY <1>6
        <5>3. \A i \in 1 .. Len(q) : q[1].kind # "FinishConfiguration"
          BY <5>1, <5>2
        <5> QED BY <1>6, <4>1, <5>1, <5>3 DEF Orderly
      <4>5. Len(q) = 0 \/ (q[1].kind # "FinishConfiguration" /\ q[1].kind # "Login")
        BY <4>3 DEF Chunks
      <4>6. StageAfter(q, s, Len(q)) = s
        BY <4>5 DEF StageAfter
      <4> QED BY <4>1, <4>4, <4>6
    <3> QED BY <3>1, <3>2
  <2> QED BY <1>1, <1>2, <1>5, <1>12, <2>1
<1> QED BY <1>9, <1>10, <1>11, <1>12 DEF Typed

LEMMA NetworkSendPreserves ==
  ASSUME TInv, NetworkSend
  PROVE  TInv'
<1>1. /\ Typed /\ Unwritten /\ Once /\ Seen
      /\ \A d \in Conns : Life(d) /\ Batch(d) /\ At(d) /\ Dug(d)
  BY DEF TInv
<1>2. /\ pc = 8 /\ pc' = 9
      /\ client' = [c \in Conns |-> FoldLeft(Get, client[c], urgent[c] \o normal[c])]
      /\ urgent' = [c \in Conns |-> <<>>] /\ normal' = [c \in Conns |-> <<>>]
      /\ enters' = <<>> /\ quits' = <<>> /\ raws' = <<>> /\ moves' = <<>> /\ actions' = <<>>
      /\ rt' = rt /\ instance' = instance /\ unsynced' = unsynced /\ packets' = packets
      /\ dispatched' = dispatched /\ reported' = reported /\ dug' = dug
  BY <1>1, Turns DEF NetworkSend, Advance, Typed
<1>3. Bound' = Bound /\ Playing' = Playing /\ \A d : ~Entered(d)'
  BY <1>2 DEF Bound, Playing, Entered
<1>4. ASSUME NEW c \in Conns
      PROVE  \E q : /\ Extends(q, urgent[c], {"WindowItems"}) /\ urgent[c] \in Seq(Packet)
                    /\ Got(client'[c], Len(q), <<q, client[c]>>)
                    /\ client'[c].stage =
                         CASE rt[c] = "none" -> client[c].stage
                           [] rt[c] = "Login" -> "login"
                           [] rt[c] = "Configuration" -> "configured"
                           [] rt[c] = "Play" -> "play"
  <2>1. PICK q : /\ q = urgent[c] \o normal[c] /\ Orderly(q, client[c].stage)
                 /\ Extends(q, urgent[c], {"WindowItems"}) /\ urgent[c] \in Seq(Packet)
                 /\ StageAfter(q, client[c].stage, Len(q)) =
                      CASE rt[c] = "none" -> client[c].stage
                        [] rt[c] = "Login" -> "login"
                        [] rt[c] = "Configuration" -> "configured"
                        [] rt[c] = "Play" -> "play"
    BY <1>1, FlushedQueue
  <2>2. client'[c] = FoldLeft(Get, client[c], q)
    BY <1>2, <2>1
  <2>3. client[c] \in Clients /\ client[c].early \subseteq {"WindowItems"}
    BY <1>1 DEF Typed, Batch
  <2>4. Got(client'[c], Len(q), <<q, client[c]>>)
    BY <2>1, <2>2, <2>3, GetsAll
  <2>5. client'[c].stage = StageAfter(q, client[c].stage, Len(q))
    BY <2>4 DEF Got
  <2> QED BY <2>1, <2>4, <2>5
<1>5. ASSUME NEW c \in Conns
      PROVE  /\ client'[c] \in Clients
             /\ client'[c].early \subseteq {"WindowItems"}
             /\ rt[c] = "none" => client'[c].stage = client[c].stage
             /\ rt[c] = "Login" => client'[c].stage = "login"
             /\ rt[c] = "Configuration" => client'[c].stage = "configured"
             /\ rt[c] = "Play" => client'[c].stage = "play"
             /\ NoBatch(urgent[c]) => client'[c].batches = client[c].batches
             /\ OneBatch(urgent[c]) => client'[c].batches = client[c].batches + 1
             /\ \A b \in Conns : client[c].shown[b] # Unseen \/ Spawned(urgent[c], b)
                                   => client'[c].shown[b] # Unseen
  <2>1. PICK q : /\ Extends(q, urgent[c], {"WindowItems"}) /\ urgent[c] \in Seq(Packet)
                 /\ Got(client'[c], Len(q), <<q, client[c]>>)
                 /\ client'[c].stage =
                      CASE rt[c] = "none" -> client[c].stage
                        [] rt[c] = "Login" -> "login"
                        [] rt[c] = "Configuration" -> "configured"
                        [] rt[c] = "Play" -> "play"
    BY <1>4
  <2>2. /\ client'[c] \in Clients /\ client'[c].early \subseteq {"WindowItems"}
        /\ \A b \in Conns :
             client[c].shown[b] # Unseen \/ (\E i \in 1 .. Len(q) : q[i].kind = "SpawnEntity" /\ q[i].who = b)
               => client'[c].shown[b] # Unseen
        /\ (\A i \in 1 .. Len(q) : ~Ends(q, i)) => client'[c].batches = client[c].batches
        /\ \A k \in 1 .. Len(q) :
             Ends(q, k) /\ (\A j \in 1 .. Len(q) : Ends(q, j) => j = k)
               => client'[c].batches = client[c].batches + 1
    BY <2>1 DEF Got
  <2>3. (NoBatch(urgent[c]) => NoBatch(q)) /\ (OneBatch(urgent[c]) => OneBatch(q))
    <3>1. "ChunkBatchFinished" \notin {"WindowItems"}
      OBVIOUS
    <3> QED BY <2>1, <3>1, BatchesExtend
  <2>4. NoBatch(urgent[c]) => client'[c].batches = client[c].batches
    BY <2>2, <2>3 DEF NoBatch
  <2>5. OneBatch(urgent[c]) => client'[c].batches = client[c].batches + 1
    BY <2>2, <2>3 DEF OneBatch
  <2>6. \A b \in Conns : Spawned(urgent[c], b) => Spawned(q, b)
    BY <2>1, SpawnedExtends
  <2>7. \A b \in Conns : client[c].shown[b] # Unseen \/ Spawned(urgent[c], b)
                           => client'[c].shown[b] # Unseen
    BY <2>2, <2>6 DEF Spawned
  <2>8. /\ rt[c] = "none" => client'[c].stage = client[c].stage
        /\ rt[c] = "Login" => client'[c].stage = "login"
        /\ rt[c] = "Configuration" => client'[c].stage = "configured"
        /\ rt[c] = "Play" => client'[c].stage = "play"
    BY <2>1
  <2> QED BY <2>2, <2>4, <2>5, <2>7, <2>8
<1>6. \A c \in Conns : rt[c] \in {"none", "Login", "Configuration", "Play"}
  BY <1>1 DEF Typed
<1>7. \A c \in Conns : urgent'[c] = <<>> /\ normal'[c] = <<>>
  BY <1>2
<1>8. Typed'
  <2>1. client' \in [Conns -> Clients]
    BY <1>2, <1>5
  <2>2. urgent' \in [Conns -> Seq(Packet)] /\ normal' \in [Conns -> Seq(Packet)]
    <3>1. PICK e \in Seq(Packet) : e = <<>>
      BY EmptySeq
    <3> QED BY <1>2, <3>1
  <2>3. /\ enters' \in Seq(Conns) /\ quits' \in Seq(Conns) /\ raws' \in Seq(Conns \X Positions)
        /\ actions' \in Seq(Conns \X {"dig", "place"})
    BY <1>2, EmptySeq
  <2> QED BY <1>1, <1>2, <1>3, <2>1, <2>2, <2>3 DEF Typed
<1>9. Unwritten' /\ Once'
  BY <1>2 DEF Unwritten, Once
<1>10. Seen'
  <2>1. ASSUME NEW a \in Playing, NEW b \in Playing, a # b
        PROVE  client'[a].shown[b] # Unseen
    <3>1. a \in Conns /\ b \in Conns
      BY Connections
    <3>2. client[a].shown[b] # Unseen \/ Spawned(urgent[a], b)
      BY <1>1, <1>2, <2>1 DEF Seen
    <3> QED BY <1>5, <3>1, <3>2
  <2> QED BY <1>2, <1>3, <2>1 DEF Seen
<1>11. ASSUME NEW c \in Conns
       PROVE  Life(c)'
  <2>1. rt[c] = "none" => client'[c].stage \in {"new", "closed"}
    BY <1>1, <1>5 DEF Life
  <2> QED BY <1>2, <1>3, <1>5, <1>7, <2>1 DEF Life
<1>12. ASSUME NEW c \in Conns
       PROVE  Batch(c)'
  <2>1. NoBatch(urgent[c])'
    BY <1>7 DEF NoBatch
  <2>2. /\ IF rt[c] = "Play" /\ Entered(c) THEN OneBatch(urgent[c]) ELSE NoBatch(urgent[c])
        /\ rt[c] = "Play" /\ ~Entered(c) => client[c].batches = 1
        /\ rt[c] # "none" /\ (rt[c] # "Play" \/ Entered(c)) => client[c].batches = 0
        /\ client[c].stage = "new" => client[c].batches = 0
        /\ client[c].batches \in {0, 1}
    BY <1>1, <1>2 DEF Batch
  <2>3. rt[c] = "Play" => client'[c].batches = 1
    BY <1>5, <2>2
  <2>4. rt[c] # "none" /\ rt[c] # "Play" => client'[c].batches = 0
    BY <1>5, <2>2
  <2>5. client'[c].batches \in {0, 1}
    BY <1>5, <2>2, <2>3, <2>4
  <2>6. client'[c].stage = "new" => client'[c].batches = 0
    BY <1>5, <1>6, <2>2
  <2> QED BY <1>2, <1>3, <1>5, <2>1, <2>3, <2>4, <2>5, <2>6 DEF Batch
<1>13. ASSUME NEW c \in Conns
       PROVE  At(c)'
  <2>1. Still(c, Len(raws))'
    BY <1>2 DEF Still
  <2>2. c \in Bound => instance[c] = reported[c] \/ Below(instance[c], reported[c])
    BY <1>1, <1>2 DEF At
  <2>3. client'[c].stage = "new" => reported[c] = Origin
    <3>1. client'[c].stage = "new" => client[c].stage = "new"
      BY <1>5, <1>6
    <3> QED BY <1>1, <3>1 DEF At
  <2> QED BY <1>2, <1>3, <2>1, <2>2, <2>3 DEF At
<1>14. ASSUME NEW c \in Conns
       PROVE  Dug(c)'
  <2>1. Digs(packets, c) \in Nat /\ Digs(<<>>, c) = 0 /\ dispatched[c] \in Nat
    BY <1>1, DigsFacts DEF Typed
  <2>2. Pending(c) = dispatched[c] + Digs(packets, c) + 0
    BY <1>2 DEF Pending
  <2>3. Pending(c)' = dispatched[c] + Digs(packets, c) + 0
    BY <1>2 DEF Pending, Digs
  <2>4. Pending(c)' = Pending(c)
    BY <1>2, <2>1, <2>2, <2>3
  <2>5. client'[c].stage = "new" => client[c].stage = "new"
    BY <1>5, <1>6
  <2>6. client'[c].stage # "closed" => client[c].stage # "closed"
    BY <1>1, <1>5, <1>6 DEF Life
  <2> QED BY <1>1, <1>2, <2>4, <2>5, <2>6 DEF Dug
<1> QED BY <1>8, <1>9, <1>10, <1>11, <1>12, <1>13, <1>14 DEF TInv

\* Who falls stays above the ground below.
LEMMA FallsBelow ==
  ASSUME NEW p \in Int, NEW q \in Int, Below(p, q)
  PROVE  Fall(p) \in Int /\ Below(Fall(p), q)
<1>1. CASE p \in Ground
  BY <1>1 DEF Fall
<1>2. CASE p \notin Ground
  <2>1. Fall(p) = p - 1
    BY <1>2 DEF Fall
  <2>2. ASSUME NEW g \in Ground, g <= q
        PROVE  g <= p - 1
    <3>1. g \in Int /\ g <= p /\ g # p
      BY <1>2, <2>2, GroundAssumption DEF Below
    <3> QED BY <3>1
  <2> QED BY <2>1, <2>2 DEF Below
<1> QED BY <1>1, <1>2

LEMMA TickAllPreserves ==
  ASSUME TInv, TickAll
  PROVE  TInv'
<1>1. /\ Typed /\ Unwritten /\ Once /\ Seen
      /\ \A d \in Conns : Life(d) /\ Batch(d) /\ At(d) /\ Dug(d)
  BY DEF TInv
<1>2. /\ pc = 9 /\ pc' = 1
      /\ rt' = rt /\ unsynced' = unsynced /\ urgent' = urgent /\ normal' = normal
      /\ packets' = packets /\ client' = client /\ reported' = reported /\ dug' = dug
      /\ enters' = enters /\ quits' = quits /\ raws' = raws /\ moves' = moves /\ actions' = actions
      /\ dispatched' = dispatched
      /\ DOMAIN instance' = Bound
      /\ \A c \in Bound : instance'[c] \in {instance[c], Fall(instance[c])}
  BY <1>1, Turns DEF TickAll, messages, outside, Typed
<1>3. enters = <<>> /\ raws = <<>> /\ moves = <<>> /\ actions = <<>>
  BY <1>1, <1>2 DEF Unwritten
<1>4. Bound' = Bound /\ Playing' = Playing /\ (\A d : Entered(d)' <=> Entered(d)) /\ \A d : ~Entered(d)
  BY <1>2, <1>3 DEF Bound, Playing, Entered
<1>5. ASSUME NEW c \in Bound
      PROVE  instance'[c] \in Int /\ Below(instance'[c], reported[c])
  <2>1. /\ instance[c] \in Int /\ reported[c] \in Int /\ c \in Conns
        /\ instance[c] = reported[c] \/ Below(instance[c], reported[c])
    <3>1. c \in Conns /\ At(c)
      BY <1>1, Connections
    <3>2. instance[c] \in Int /\ reported[c] \in Int
      BY <1>1, <3>1, PositionsAssumption DEF Typed
    <3>3. ~(pc <= 7)
      BY <1>2
    <3> QED BY <3>1, <3>2, <3>3 DEF At
  <2>2. Below(instance[c], reported[c])
    BY <2>1, GroundAssumption DEF Below
  <2> QED BY <1>2, <2>1, <2>2, FallsBelow
<1>6. Typed'
  BY <1>1, <1>2, <1>4, <1>5 DEF Typed
<1>7. Unwritten' /\ Once' /\ Seen'
  BY <1>1, <1>2, <1>3, <1>4 DEF Unwritten, Once, Seen
<1>8. ASSUME NEW c \in Conns
      PROVE  Life(c)' /\ Batch(c)' /\ At(c)' /\ Dug(c)'
  <2>1. Life(c)'
    BY <1>1, <1>2, <1>4, LifeFrame
  <2>2. Batch(c)'
    BY <1>1, <1>2, <1>4 DEF Batch, NoBatch, Ends
  <2>3. At(c)'
    <3>1. Still(c, Len(raws)) /\ Still(c, Len(raws))'
      BY <1>2, <1>3 DEF Still
    <3> QED BY <1>1, <1>2, <1>4, <1>5, <3>1 DEF At
  <2>4. Dug(c)'
    <3>1. Digs(actions, c) = 0 /\ dispatched[c] \in Nat /\ Digs(packets, c) \in Nat
      BY <1>1, <1>3, DigsFacts DEF Typed
    <3>2. Pending(c)' = Pending(c)
      BY <1>2, <3>1 DEF Pending, Digs
    <3> QED BY <1>1, <1>2, <3>2 DEF Dug
  <2> QED BY <2>1, <2>2, <2>3, <2>4
<1> QED BY <1>6, <1>7, <1>8 DEF TInv

----------------------------------------------------------------------------
(* The theorems *)

LEMMA TInitGood == TInit => TInv
<1> SUFFICES ASSUME TInit PROVE TInv
  OBVIOUS
<1>1. /\ pc = 1 /\ rt = [c \in Conns |-> "none"] /\ instance = <<>> /\ unsynced = {}
      /\ urgent = [c \in Conns |-> <<>>] /\ normal = [c \in Conns |-> <<>>] /\ packets = <<>>
      /\ enters = <<>> /\ quits = <<>> /\ raws = <<>> /\ moves = <<>> /\ actions = <<>>
      /\ dispatched = [c \in Conns |-> 0] /\ reported = [c \in Conns |-> Origin]
      /\ dug = [c \in Conns |-> 0]
  BY DEF TInit
<1>2. /\ client \in [Conns -> Clients]
      /\ \A c \in Conns : client[c].stage = "new" /\ client[c].batches = 0 /\ client[c].early = {}
  <2>1. PICK m : m = [stage |-> "new", shown |-> [d \in Conns |-> Unseen], batches |-> 0, early |-> {}]
    OBVIOUS
  <2>2. m \in Clients /\ m.stage = "new" /\ m.batches = 0 /\ m.early = {}
    BY <2>1 DEF Clients, Stages
  <2>3. client = [c \in Conns |-> m]
    BY <2>1 DEF TInit
  <2> QED BY <2>2, <2>3
<1>3. Bound = {} /\ Playing = {} /\ \A c : ~Entered(c)
  BY <1>1 DEF Bound, Playing, Entered
<1>4. Typed
  <2>1. DOMAIN instance = Bound /\ \A c \in Bound : instance[c] \in Int
    BY <1>1, <1>3
  <2>2. urgent \in [Conns -> Seq(Packet)] /\ normal \in [Conns -> Seq(Packet)]
    <3>1. PICK e \in Seq(Packet) : e = <<>>
      BY EmptySeq
    <3> QED BY <1>1, <3>1
  <2>3. /\ enters \in Seq(Conns) /\ quits \in Seq(Conns) /\ raws \in Seq(Conns \X Positions)
        /\ packets \in Seq(Conns \X {"dig", "place"}) /\ actions \in Seq(Conns \X {"dig", "place"})
    BY <1>1, EmptySeq
  <2>4. dispatched \in [Conns -> Nat] /\ dug \in [Conns -> Nat] /\ reported \in [Conns -> Positions]
    BY <1>1, PositionsAssumption
  <2>5. rt \in [Conns -> {"none", "Login", "Configuration", "Play"}] /\ unsynced \subseteq Bound
    BY <1>1
  <2>6. client \in [Conns -> Clients]
    BY <1>2
  <2> QED BY <1>1, <2>1, <2>2, <2>3, <2>4, <2>5, <2>6 DEF Typed
<1>5. Unwritten /\ Once /\ Seen
  BY <1>1, <1>3 DEF Unwritten, Once, Seen
<1>6. ASSUME NEW c \in Conns
      PROVE  Life(c) /\ Batch(c) /\ At(c) /\ Dug(c)
  <2>1. Life(c)
    BY <1>1, <1>2, <1>3 DEF Life
  <2>2. NoBatch(urgent[c])
    BY <1>1 DEF NoBatch
  <2>3. Batch(c)
    BY <1>1, <1>2, <1>3, <2>2 DEF Batch
  <2>4. At(c)
    BY <1>1, <1>3 DEF At, Still
  <2>5. Digs(<<>>, c) = 0
    BY EmptySeq, DigsFacts
  <2>6. Pending(c) = 0
    BY <1>1, <2>5 DEF Pending
  <2>7. Dug(c)
    BY <1>1, <2>6 DEF Dug
  <2> QED BY <2>1, <2>3, <2>4, <2>7
<1> QED BY <1>4, <1>5, <1>6 DEF TInv

\* The strengthening of what follows: what each system, at its turn, finds of the
\* runtimes, the clients, the queues and the messages of the tick.
THEOREM TickInvariant == TSpec => []TInv
<1>1. TInit => TInv
  BY TInitGood
<1>2. TInv /\ [TNext]_tvars => TInv'
  <2> SUFFICES ASSUME TInv, [TNext]_tvars PROVE TInv'
    OBVIOUS
  <2>1. CASE NetworkReceive
    BY <2>1, NetworkReceivePreserves
  <2>2. CASE System
    BY <2>2, ReceiveEndsPreserves, PacketActionPreserves, BlockInteractionValidatorPreserves,
       ChunkSendPreserves, EntitySyncPreserves, InventorySyncPreserves, PlayerInputPreserves,
       NetworkSendPreserves DEF System
  <2>3. CASE UNCHANGED tvars
    <3>1. /\ pc' = pc /\ rt' = rt /\ instance' = instance /\ unsynced' = unsynced
          /\ urgent' = urgent /\ normal' = normal /\ packets' = packets
          /\ enters' = enters /\ quits' = quits /\ raws' = raws /\ moves' = moves /\ actions' = actions
          /\ dispatched' = dispatched /\ client' = client /\ reported' = reported /\ dug' = dug
      BY <2>3 DEF tvars, server, messages, outside
    <3>2. Bound' = Bound /\ Playing' = Playing /\ \A d : Entered(d)' <=> Entered(d)
      BY <3>1 DEF Bound, Playing, Entered
    <3>3. Typed' /\ Unwritten' /\ Once' /\ Seen'
      <4>1. Typed /\ Unwritten /\ Once /\ Seen
        BY DEF TInv
      <4>2. Typed'
        BY <3>1, <3>2, <4>1 DEF Typed
      <4>3. Unwritten' /\ Once'
        BY <3>1, <4>1 DEF Unwritten, Once
      <4>4. Seen'
        BY <3>1, <3>2, <4>1 DEF Seen
      <4> QED BY <4>2, <4>3, <4>4
    <3>4. \A d \in Conns : Life(d)' /\ Batch(d)' /\ At(d)' /\ Dug(d)'
      BY <3>1, <3>2, LifeFrame, BatchFrame, AtFrame, DugFrame DEF TInv
    <3> QED BY <3>3, <3>4 DEF TInv
  <2>4. CASE TickAll
    BY <2>4, TickAllPreserves
  <2> QED BY <2>1, <2>2, <2>3, <2>4 DEF TNext
<1> QED BY <1>1, <1>2, PTL DEF TSpec

LEMMA TInvGivesTypes == TInv => TTypeOK
<1> SUFFICES ASSUME TInv PROVE TTypeOK
  OBVIOUS
<1>1. Typed /\ \A c \in Conns : Life(c)
  BY DEF TInv
<1>2. Len(Order) = 8
  BY OrderAssumption
<1>3. \A c \in Conns \ Bound : urgent[c] = <<>> /\ normal[c] = <<>>
  BY <1>1 DEF Bound, Life
<1> QED BY <1>1, <1>2, <1>3 DEF Typed, TTypeOK

LEMMA SettledHasNotEntered ==
  ASSUME TInv
  PROVE  \A c \in Conns : c \in Settled <=> c \in Playing /\ ~Entered(c)
<1>1. enters \in Seq(Conns)
  BY DEF TInv, Typed
<1>2. ToSet(enters) = {enters[i] : i \in 1 .. Len(enters)}
  BY <1>1, LenProperties DEF ToSet
<1> QED BY <1>2 DEF Settled, Entered

\* TTypeOK: the queues of a connection that has closed are empty, and who is bound to
\* a connection is in the instance.
THEOREM TickTypes == TSpec => []TTypeOK
  BY TickInvariant, TInvGivesTypes, PTL

\* MutualVisibility: entity_sync shows any two players in play to each other.
THEOREM AllSeeAll == TSpec => []MutualVisibility
<1>1. TInv => MutualVisibility
  <2> SUFFICES ASSUME TInv, pc = 1, NEW a \in Settled, NEW b \in Settled, a # b
               PROVE  client[a].shown[b] # Unseen
    BY DEF MutualVisibility
  <2>1. a \in Conns /\ b \in Conns
    BY Connections DEF Settled
  <2>2. a \in Playing /\ b \in Playing /\ ~Entered(a) /\ ~Entered(b)
    BY <2>1, SettledHasNotEntered
  <2> QED BY <2>2 DEF TInv, Seen
<1> QED BY <1>1, TickInvariant, PTL

\* WorldAfterLogin: a player gets its chunks once, and after Login(play).
THEOREM WorldOnceAfterLogin == TSpec => []WorldAfterLogin
<1>1. TInv => WorldAfterLogin
  <2> SUFFICES ASSUME TInv PROVE WorldAfterLogin
    OBVIOUS
  <2>1. \A c \in Conns : client[c].early \subseteq {"WindowItems"}
    BY DEF TInv, Batch
  <2>2. ASSUME NEW c \in Conns
        PROVE  client[c].batches \in IF c \in Settled THEN {1}
                                     ELSE IF c \in Bound THEN {0} ELSE {0, 1}
    <3>1. Batch(c)
      BY DEF TInv
    <3>2. c \in Settled <=> rt[c] = "Play" /\ ~Entered(c)
      BY SettledHasNotEntered, Connections
    <3>3. c \in Bound <=> rt[c] # "none"
      BY Connections
    <3> QED BY <3>1, <3>2, <3>3 DEF Batch
  <2> QED BY <2>1, <2>2 DEF WorldAfterLogin
<1> QED BY <1>1, TickInvariant, PTL

\* PositionsApplied: player_input leaves a player where its client last said it is,
\* and physics lets it fall to the ground from there.
THEOREM PositionsAreApplied == TSpec => []PositionsApplied
<1>1. TInv => PositionsApplied
  <2> SUFFICES ASSUME TInv, NEW c \in Bound
               PROVE  LET moved == \E i \in DOMAIN raws : raws[i][1] = c IN
                      /\ Runs("network_send") /\ moved => instance[c] = reported[c]
                      /\ ~moved => /\ instance[c] <= reported[c]
                                   /\ \A g \in Ground : g <= reported[c] => g <= instance[c]
    BY DEF PositionsApplied
  <2>1. /\ Typed /\ At(c) /\ c \in Conns
        /\ instance[c] \in Int /\ reported[c] \in Int /\ DOMAIN raws = 1 .. Len(raws)
    BY Connections, PositionsAssumption, LenProperties DEF TInv, Typed
  <2>2. ASSUME Runs("network_send"), NEW i \in DOMAIN raws, raws[i][1] = c
        PROVE  instance[c] = reported[c]
    <3>1. pc = 8 /\ ~Still(c, Len(raws))
      BY <2>1, <2>2, Turns DEF Typed, Still
    <3> QED BY <2>1, <3>1 DEF At
  <2>3. ASSUME \A i \in DOMAIN raws : raws[i][1] # c
        PROVE  Below(instance[c], reported[c])
    <3>1. ~Latest(c, reported[c], Len(raws))
      BY <2>1, <2>3 DEF Latest
    <3>2. instance[c] = reported[c] \/ Below(instance[c], reported[c])
      BY <2>1, <3>1 DEF At
    <3> QED BY <2>1, <3>2, GroundAssumption DEF Below
  <2> QED BY <2>2, <2>3 DEF Below
<1> QED BY <1>1, TickInvariant, PTL

\* DigsPassedOn: no dig is passed on twice, and none of a player that stays is lost on
\* the way through packet_inbox, packet_action and the validator, which drops none.
THEOREM DigsArePassedOn == TSpec => []DigsPassedOn
<1>1. TInv => DigsPassedOn
  <2> SUFFICES ASSUME TInv, pc = 1, NEW c \in Conns
               PROVE  /\ dispatched[c] <= dug[c]
                      /\ c \in Bound => dispatched[c] + Digs(packets, c) = dug[c]
    BY DEF DigsPassedOn
  <2>1. Typed /\ Unwritten /\ Dug(c) /\ Life(c)
    BY DEF TInv
  <2>2. /\ Digs(packets, c) \in Nat /\ Digs(<<>>, c) = 0
        /\ dispatched[c] \in Nat /\ dug[c] \in Nat
    BY <2>1, DigsFacts DEF Typed
  <2>3. Pending(c) = dispatched[c] + Digs(packets, c)
    BY <2>1, <2>2 DEF Pending, Unwritten
  <2>4. c \in Bound => client[c].stage # "closed"
    BY <2>1, ClosedIsUnbound
  <2> QED BY <2>1, <2>2, <2>3, <2>4 DEF Dug
<1> QED BY <1>1, TickInvariant, PTL
=============================================================================
