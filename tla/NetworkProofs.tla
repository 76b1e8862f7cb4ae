---------------------------- MODULE NetworkProofs ----------------------------
(***************************************************************************)
(* Proofs about the connections of Network, for any connections, channel   *)
(* capacities, intents, with or without the proxy and compression, and for *)
(* clients that stop, leave or answer at any time.  The argument rests on  *)
(* the tags alone: along the inbound channel the frames of a connection    *)
(* never go back in the protocol (Orderly), and nothing follows the report *)
(* of the close.                                                           *)
(***************************************************************************)
EXTENDS Network, FiniteSetTheorems, SequenceTheorems, TLAPS

Past    == {"unmapping", "aborting", "done"}
Readers == {"absent", "reading", "closing"} \cup Past
Message == [type : {"Packet"}, conn : Conns, state : States, kind : ClientKinds]
             \cup [type : {"Closed"}, conn : Conns]

\* What the server sends, and the order its write task obeys.
ServerKinds == {"StatusResponse", "PingResponse", "LoginDisconnect", "LoginSuccess",
                "LoginCompression", "RegistryData", "UpdateTags", "FeatureFlags",
                "FinishConfiguration", "Login", "Position", "UpdateHealth", "PlayerInfo",
                "ChunkBatchStart", "MapChunk", "ChunkBatchFinished", "WindowItems",
                "EnableCompression"}
Wire == [kind : ServerKinds, z : BOOLEAN]

\* The state a packet leads to, what the frames after it are tagged with.
After(p) == NextTag(p.state, p.kind)

\* The frames of connection c in line q.
Of(q, c) == {q[i] : i \in {j \in 1 .. Len(q) : q[j].conn = c}}

\* n may come after m in the inbound channel.
MayFollow(m, n) ==
  /\ m.type = "Packet"
  /\ n.type = "Packet" => Stage(After(m)) <= Stage(n.state)

Orderly(q) ==
  \A i, j \in 1 .. Len(q) : i < j /\ q[i].conn = q[j].conn => MayFollow(q[i], q[j])

Typed ==
  /\ inbound \in Seq(Message) /\ Len(inbound) <= InCap
  /\ up \in [Conns -> Seq([kind : ClientKinds, z : BOOLEAN])]
  /\ out \in [Conns -> Seq(Wire)] /\ \A c \in Conns : Len(out[c]) <= OutCap
  /\ urgent \in [Conns -> Seq(ServerKinds)]
  /\ reader \in [Conns -> Readers]
  /\ conn_states \in [Conns -> States \cup {"none"}]
  /\ gstate \in [Conns -> States \cup {"none"}]
  /\ quit \in [Conns -> Nat] /\ entered \in [Conns -> Nat]
  /\ bound \cup clients \cup players \cup joined \cup outbound \cup fin \subseteq Conns

\* The listener of c is ahead of the frames in line, these of the game.
Tagged(c) ==
  /\ reader[c] = "absent" => Of(inbound, c) = {} /\ c \notin joined /\ gstate[c] = "none"
  /\ reader[c] = "reading" => conn_states[c] # "none"
  /\ \A m \in Of(inbound, c) :
       /\ m.type = "Packet" /\ conn_states[c] # "none"
            => Stage(After(m)) <= Stage(conn_states[c])
       /\ m.type = "Closed" => reader[c] \in Past
  /\ conn_states[c] # "none" => Stage(gstate[c]) <= Stage(conn_states[c])

\* The protocol of c has passed stage n, for good.
Beyond(c, n) ==
  /\ \A m \in Of(inbound, c) : m.type = "Packet" => n <= Stage(m.state)
  /\ conn_states[c] # "none" => n <= Stage(conn_states[c])

Owned(c) ==
  /\ c \in players <=> c \in bound
  /\ c \in players => gstate[c] # "none" /\ c \in clients /\ c \in joined

\* A player joins and enters once: the frame that made it do so cannot come again.
Once(c) ==
  /\ c \in joined => Beyond(c, 3)
  /\ entered[c] <= 1
  /\ entered[c] # 0 => c \in joined /\ Beyond(c, 5)
  /\ quit[c] = IF c \in joined \ players THEN 1 ELSE 0
  /\ c \in joined \ players => reader[c] \in Past /\ Of(inbound, c) = {}

\* After its close has been handled, nothing of c is left.
Cleared(c) ==
  /\ reader[c] \in Past
  /\ \A m \in Of(inbound, c) : m.type # "Closed"
  /\ <<"Closed", c>> \notin swept
  => /\ Of(inbound, c) = {}
     /\ gstate[c] = "none" /\ c \notin clients \cup bound \cup players

Sane(c) == Tagged(c) /\ Owned(c) /\ Once(c) /\ Cleared(c)

NInv == Typed /\ Orderly(inbound) /\ \A c \in Conns : Sane(c)

----------------------------------------------------------------------------
(* Tags and lines *)

\* A tag never goes back in the protocol.
LEMMA TagsGrow ==
  ASSUME NEW s \in States, NEW k
  PROVE  NextTag(s, k) \in States /\ Stage(s) <= Stage(NextTag(s, k))
<1>1. CASE s = "Handshake"
  BY <1>1 DEF NextTag, Stage, States
<1>2. CASE s = "Login"
  BY <1>2 DEF NextTag, Stage, States
<1>3. CASE s = "Configuration"
  BY <1>3 DEF NextTag, Stage, States
<1>4. CASE s = "Status" \/ s = "Play"
  BY <1>4 DEF NextTag, Stage, States
<1> QED BY <1>1, <1>2, <1>3, <1>4 DEF States

\* Stages are numbers, and only "none" is before the first.
LEMMA StagesAreNumbers ==
  /\ \A s \in States \cup {"none"} : Stage(s) \in Nat
  /\ Stage("none") = 0 /\ Stage("Handshake") = 1 /\ Stage("Status") = 2
  /\ Stage("Login") = 3 /\ Stage("Configuration") = 4 /\ Stage("Play") = 5
  BY DEF States, Stage

\* A frame in line is a message; a packet leads to a state.
LEMMA FramesInLine ==
  ASSUME NEW q \in Seq(Message), NEW c, NEW m \in Of(q, c)
  PROVE  /\ m \in Message /\ m.conn = c
         /\ m.type = "Packet" \/ m.type = "Closed"
         /\ m.type = "Packet" => m.state \in States /\ After(m) \in States
<1>1. m \in Message /\ m.conn = c
  BY DEF Of
<1>2. m.type = "Packet" => m.state \in States
  BY <1>1 DEF Message
<1>3. m.type = "Packet" \/ m.type = "Closed"
  BY <1>1 DEF Message
<1> QED BY <1>1, <1>2, <1>3, TagsGrow DEF After

\* What is left of a line when its first message has been taken.
LEMMA LineShortened ==
  ASSUME NEW q \in Seq(Message), q # <<>>, Orderly(q)
  PROVE  /\ Head(q) \in Message /\ Tail(q) \in Seq(Message) /\ Len(Tail(q)) < Len(q)
         /\ Orderly(Tail(q))
         /\ Head(q) \in Of(q, Head(q).conn)
         /\ \A d : Of(Tail(q), d) \subseteq Of(q, d)
         /\ \A d : \A m \in Of(q, d) : m = Head(q) \/ m \in Of(Tail(q), d)
         /\ \A d : d # Head(q).conn => Of(Tail(q), d) = Of(q, d)
         /\ \A m \in Of(Tail(q), Head(q).conn) : MayFollow(Head(q), m)
<1> DEFINE t == Tail(q)
           h == Head(q)
           n == Len(q)
<1>1. /\ n \in Nat \ {0} /\ t \in Seq(Message) /\ Len(t) = n - 1 /\ h = q[1]
      /\ \A i \in 1 .. n - 1 : t[i] = q[i + 1]
  BY HeadTailProperties, EmptySeq, LenProperties
<1>2. h \in Message
  BY <1>1
<1> HIDE DEF t, h
<1>3. Orderly(t)
  <2> SUFFICES ASSUME NEW i \in 1 .. n - 1, NEW j \in 1 .. n - 1, i < j, t[i].conn = t[j].conn
               PROVE  MayFollow(t[i], t[j])
    BY <1>1 DEF Orderly
  <2>1. i + 1 \in 1 .. n /\ j + 1 \in 1 .. n /\ i + 1 < j + 1
    BY <1>1
  <2> QED BY <1>1, <2>1 DEF Orderly
<1>4. h \in Of(q, h.conn)
  <2>1. 1 \in 1 .. Len(q)
    BY <1>1
  <2> QED BY <1>1, <2>1 DEF Of
<1>5. ASSUME NEW d, NEW m \in Of(t, d)
      PROVE  \E i \in 2 .. n : m = q[i] /\ q[i].conn = d
  <2>1. PICK i \in 1 .. Len(t) : m = t[i] /\ t[i].conn = d
    BY DEF Of
  <2>2. i + 1 \in 2 .. n /\ t[i] = q[i + 1]
    BY <1>1
  <2> QED BY <2>1, <2>2
<1>6. \A d : Of(t, d) \subseteq Of(q, d)
  <2> SUFFICES ASSUME NEW d, NEW m \in Of(t, d)
               PROVE  m \in Of(q, d)
    OBVIOUS
  <2>1. PICK i \in 2 .. n : m = q[i] /\ q[i].conn = d
    BY <1>5
  <2>2. i \in 1 .. Len(q)
    BY <1>1
  <2> QED BY <2>1, <2>2 DEF Of
<1>7. ASSUME NEW d, NEW m \in Of(q, d)
      PROVE  m = h \/ m \in Of(t, d)
  <2>1. PICK i \in 1 .. Len(q) : m = q[i] /\ q[i].conn = d
    BY DEF Of
  <2>2. CASE i = 1
    BY <1>1, <2>1, <2>2
  <2>3. CASE i # 1
    <3>1. i - 1 \in 1 .. Len(t) /\ t[i - 1] = q[i]
      <4>1. i - 1 \in 1 .. n - 1 /\ (i - 1) + 1 = i
        BY <1>1, <2>3
      <4> QED BY <1>1, <4>1
    <3> QED BY <2>1, <3>1 DEF Of
  <2> QED BY <2>2, <2>3
<1>8. ASSUME NEW d, d # h.conn
      PROVE  Of(t, d) = Of(q, d)
  <2>1. Of(t, d) \subseteq Of(q, d)
    BY <1>6
  <2>2. ASSUME NEW m \in Of(q, d)
        PROVE  m \in Of(t, d)
    <3>1. m.conn = d
      BY DEF Of
    <3> QED BY <1>7, <1>8, <3>1
  <2> QED BY <2>1, <2>2
<1>9. ASSUME NEW m \in Of(t, h.conn)
      PROVE  MayFollow(h, m)
  <2>1. PICK i \in 2 .. n : m = q[i] /\ q[i].conn = h.conn
    BY <1>5
  <2>2. 1 \in 1 .. Len(q) /\ i \in 1 .. Len(q) /\ 1 < i
    BY <1>1
  <2> QED BY <1>1, <2>1, <2>2 DEF Orderly
<1>10. Len(t) < n
  BY <1>1
<1> QED BY <1>1, <1>2, <1>3, <1>4, <1>6, <1>7, <1>8, <1>9, <1>10 DEF t, h

\* A line with one more message, which may follow those of its connection.
LEMMA LineExtended ==
  ASSUME NEW q \in Seq(Message), Orderly(q), NEW n \in Message,
         \A m \in Of(q, n.conn) : MayFollow(m, n)
  PROVE  /\ Append(q, n) \in Seq(Message) /\ Len(Append(q, n)) = Len(q) + 1
         /\ Orderly(Append(q, n))
         /\ Of(Append(q, n), n.conn) = Of(q, n.conn) \cup {n}
         /\ \A d : d # n.conn => Of(Append(q, n), d) = Of(q, d)
<1> DEFINE t == Append(q, n)
           l == Len(q)
<1>1. /\ l \in Nat /\ t \in Seq(Message) /\ Len(t) = l + 1 /\ t[l + 1] = n
      /\ \A i \in 1 .. l : t[i] = q[i]
  BY AppendProperties, LenProperties
<1> HIDE DEF t
<1>2. \A i \in 1 .. Len(t) : i = l + 1 \/ i \in 1 .. l
  BY <1>1
<1>3. \A i \in 1 .. l : i \in 1 .. Len(t)
  BY <1>1
<1>4. l + 1 \in 1 .. Len(t)
  BY <1>1
<1>5. Orderly(t)
  <2> SUFFICES ASSUME NEW i \in 1 .. Len(t), NEW j \in 1 .. Len(t), i < j, t[i].conn = t[j].conn
               PROVE  MayFollow(t[i], t[j])
    BY DEF Orderly
  <2>1. i \in 1 .. l
    BY <1>1
  <2>2. CASE j = l + 1
    <3>1. q[i] \in Of(q, n.conn)
      BY <1>1, <2>1, <2>2 DEF Of
    <3> QED BY <1>1, <2>1, <2>2, <3>1
  <2>3. CASE j \in 1 .. l
    BY <1>1, <2>1, <2>3 DEF Orderly
  <2> QED BY <1>2, <2>2, <2>3
<1>6. ASSUME NEW d, NEW m
      PROVE  m \in Of(t, d) <=> m \in Of(q, d) \/ (m = n /\ n.conn = d)
  <2>1. m \in Of(t, d) <=> \E i \in 1 .. Len(t) : m = t[i] /\ t[i].conn = d
    BY DEF Of
  <2>2. m \in Of(q, d) <=> \E i \in 1 .. l : m = q[i] /\ q[i].conn = d
    BY DEF Of
  <2> QED BY <1>1, <1>2, <1>3, <1>4, <2>1, <2>2
<1>7. Of(t, n.conn) = Of(q, n.conn) \cup {n}
  BY <1>6
<1>8. ASSUME NEW d, d # n.conn
      PROVE  Of(t, d) = Of(q, d)
  <2>1. \A m : m \in Of(t, d) <=> m \in Of(q, d)
    BY <1>6, <1>8
  <2> QED BY <2>1
<1> QED BY <1>1, <1>5, <1>7, <1>8 DEF t

----------------------------------------------------------------------------
(* The listener *)

\* A step does not concern d.
Unmoved(d) ==
  /\ reader'[d] = reader[d] /\ conn_states'[d] = conn_states[d] /\ gstate'[d] = gstate[d]
  /\ quit'[d] = quit[d] /\ entered'[d] = entered[d]
  /\ Of(inbound', d) = Of(inbound, d)
  /\ d \in bound' <=> d \in bound
  /\ d \in clients' <=> d \in clients
  /\ d \in players' <=> d \in players
  /\ d \in joined' <=> d \in joined
  /\ <<"Closed", d>> \in swept' <=> <<"Closed", d>> \in swept

\* A connection that a step does not concern stays as it was.
LEMMA UnmovedSane ==
  ASSUME NEW d, Sane(d), Unmoved(d)
  PROVE  Sane(d)'
<1>1. Tagged(d)'
  BY DEF Unmoved, Sane, Tagged
<1>2. Owned(d)'
  BY DEF Unmoved, Sane, Owned
<1>3. \A n : Beyond(d, n) => Beyond(d, n)'
  BY DEF Unmoved, Beyond
<1>4. Once(d)'
  BY <1>3 DEF Unmoved, Sane, Once
<1>5. Cleared(d)'
  BY DEF Unmoved, Sane, Cleared
<1> QED BY <1>1, <1>2, <1>4, <1>5 DEF Sane

\* The game does not notice.
GameSame == UNCHANGED <<gstate, bound, clients, urgent, players, joined, quit, entered, swept>>

\* The connections start sane.
LEMMA InitSane == NInit => NInv
<1> SUFFICES ASSUME NInit
             PROVE  NInv
  OBVIOUS
<1>1. \A S : <<>> \in Seq(S) /\ Len(<<>>) = 0
  BY EmptySeq
<1>2. Typed
  BY <1>1, InCapAssumption, OutCapAssumption DEF NInit, LInit, Typed, Readers, States
<1>3. Orderly(inbound)
  BY <1>1 DEF NInit, LInit, Orderly
<1>4. \A c : Of(inbound, c) = {}
  BY <1>1 DEF NInit, LInit, Of
<1>5. ASSUME NEW c \in Conns
      PROVE  Sane(c)
  <2>1. reader[c] = "absent" /\ conn_states[c] = "none" /\ gstate[c] = "none"
        /\ quit[c] = 0 /\ entered[c] = 0 /\ joined = {} /\ players = {} /\ bound = {}
    BY DEF NInit, LInit
  <2>2. Tagged(c)
    BY <1>4, <2>1 DEF Tagged, Past
  <2>3. Owned(c) /\ Once(c)
    BY <2>1 DEF Owned, Once
  <2>4. Cleared(c)
    BY <2>1 DEF Cleared, Past
  <2> QED BY <2>2, <2>3, <2>4 DEF Sane
<1> QED BY <1>2, <1>3, <1>5 DEF NInv

\* The first connection accepted under a number has no past.
LEMMA AcceptKeeps ==
  ASSUME NInv, NEW c \in Conns, Accept(c), GameSame
  PROVE  NInv'
<1>1. Typed'
  BY DEF NInv, Typed, Accept, GameSame, Readers, States
<1>2. Orderly(inbound)'
  BY DEF NInv, Orderly, Accept
<1>3. ASSUME NEW d \in Conns
      PROVE  Sane(d)'
  <2>1. CASE d # c
    BY <2>1, UnmovedSane DEF NInv, Typed, Accept, GameSame, Unmoved
  <2>2. CASE d = c
    <3>1. reader[c] = "absent" /\ reader'[c] = "reading" /\ conn_states'[c] = "Handshake"
      BY DEF NInv, Typed, Accept
    <3>2. Of(inbound, c) = {} /\ c \notin joined /\ gstate[c] = "none" /\ inbound' = inbound
      BY <3>1 DEF NInv, Sane, Tagged, Accept
    <3>3. Tagged(c)'
      BY <3>1, <3>2, StagesAreNumbers DEF Tagged, GameSame, Past
    <3>4. Owned(c)' /\ Once(c)'
      BY <3>1, <3>2 DEF NInv, Sane, Owned, Once, GameSame
    <3>5. Cleared(c)'
      BY <3>1 DEF Cleared, Past
    <3> QED BY <2>2, <3>3, <3>4, <3>5 DEF Sane
  <2> QED BY <2>1, <2>2
<1> QED BY <1>1, <1>2, <1>3 DEF NInv

\* A step of a read task that touches neither channel nor table.
LEMMA ReaderMovesOn ==
  ASSUME NInv, NEW c \in Conns, GameSame, UNCHANGED <<conn_states, inbound>>,
         \A d \in Conns : d # c => reader'[d] = reader[d],
         \/ reader'[c] = reader[c]
         \/ reader[c] = "reading" /\ reader'[c] = "closing"
         \/ reader[c] = "unmapping" /\ reader'[c] = "aborting",
         Typed'
  PROVE  NInv'
<1>1. Orderly(inbound)'
  BY DEF NInv, Orderly
<1>2. ASSUME NEW d \in Conns
      PROVE  Sane(d)'
  <2>1. CASE reader'[d] = reader[d]
    BY <2>1, UnmovedSane DEF NInv, GameSame, Unmoved
  <2>2. CASE d = c /\ reader'[c] # reader[c]
    <3>1. /\ reader[c] # "absent" /\ reader'[c] \notin {"absent", "reading"}
          /\ reader'[c] \in Past <=> reader[c] \in Past
      BY <2>2 DEF Past
    <3>2. Tagged(c)'
      BY <3>1 DEF NInv, Sane, Tagged, GameSame
    <3>3. Owned(c)'
      BY DEF NInv, Sane, Owned, GameSame
    <3>4. Once(c)'
      BY <3>1 DEF NInv, Sane, Once, Beyond, GameSame
    <3>5. Cleared(c)'
      BY <3>1 DEF NInv, Sane, Cleared, GameSame
    <3> QED BY <2>2, <3>2, <3>3, <3>4, <3>5 DEF Sane
  <2> QED BY <2>1, <2>2
<1> QED BY <1>1, <1>2 DEF NInv

\* A frame read in the wrong format is dropped.
LEMMA DropGarbledKeeps ==
  ASSUME NInv, NEW c \in Conns, DropGarbled(c), GameSame
  PROVE  NInv'
<1>1. Tail(up[c]) \in Seq([kind : ClientKinds, z : BOOLEAN])
  BY HeadTailProperties DEF NInv, Typed, DropGarbled
<1>2. Typed'
  BY <1>1 DEF NInv, Typed, DropGarbled, GameSame
<1> QED BY <1>2, ReaderMovesOn DEF DropGarbled

\* The end of the stream.
LEMMA ReadEndsKeeps ==
  ASSUME NInv, NEW c \in Conns, ReadEnds(c), GameSame
  PROVE  NInv'
<1>1. Typed'
  BY DEF NInv, Typed, ReadEnds, GameSame, Readers
<1> QED BY <1>1, ReaderMovesOn DEF NInv, Typed, ReadEnds

\* The sender leaves the map.
LEMMA RemoveOutboundKeeps ==
  ASSUME NInv, NEW c \in Conns, RemoveOutbound(c), GameSame
  PROVE  NInv'
<1>1. Typed'
  BY DEF NInv, Typed, RemoveOutbound, GameSame, Readers, Past
<1> QED BY <1>1, ReaderMovesOn DEF NInv, Typed, RemoveOutbound

\* The write task takes what is next.
LEMMA WriterKeeps ==
  ASSUME NInv, NEW c \in Conns, WriterStep(c), GameSame
  PROVE  NInv'
<1>1. out[c] \in Seq(Wire) /\ Len(out[c]) <= OutCap /\ Len(out[c]) \in Nat /\ OutCap \in Nat
  BY LenProperties, OutCapAssumption DEF NInv, Typed
<1>2. <<>> \in Seq(Wire) /\ Len(<<>>) = 0
  BY EmptySeq
<1>3. out[c] # <<>> => Tail(out[c]) \in Seq(Wire) /\ Len(Tail(out[c])) <= OutCap
  BY <1>1, HeadTailProperties
<1>4. /\ \/ out' = [out EXCEPT ![c] = Tail(out[c])] /\ out[c] # <<>>
         \/ out' = [out EXCEPT ![c] = <<>>]
         \/ out' = out
      /\ fin' \subseteq fin \cup {c}
      /\ UNCHANGED <<up, reader, conn_states, inbound, outbound>>
  BY DEF WriterStep, WriteFrame, WriteEnableCompression, WriterEnds
<1>5. out' \in [Conns -> Seq(Wire)] /\ \A d \in Conns : Len(out'[d]) <= OutCap
  <2>1. out \in [Conns -> Seq(Wire)] /\ \A d \in Conns : Len(out[d]) <= OutCap
    BY DEF NInv, Typed
  <2>2. PICK q \in Seq(Wire) : Len(q) <= OutCap /\ (out' = [out EXCEPT ![c] = q] \/ out' = out)
    <3>1. CASE out' = [out EXCEPT ![c] = Tail(out[c])] /\ out[c] # <<>>
      BY <1>3, <3>1
    <3>2. CASE out' = [out EXCEPT ![c] = <<>>]
      <4>1. 0 <= OutCap
        BY <1>1
      <4> QED BY <1>2, <3>2, <4>1
    <3>3. CASE out' = out
      BY <1>1, <3>3
    <3> QED BY <1>4, <3>1, <3>2, <3>3
  <2>3. CASE out' = [out EXCEPT ![c] = q]
    <3>1. out' \in [Conns -> Seq(Wire)]
      BY <2>1, <2>2, <2>3
    <3>2. \A d \in Conns : out'[d] = IF d = c THEN q ELSE out[d]
      BY <2>1, <2>3
    <3> QED BY <2>1, <2>2, <3>1, <3>2
  <2> QED BY <2>1, <2>2, <2>3
<1>6. Typed'
  BY <1>4, <1>5 DEF NInv, Typed, GameSame
<1> QED BY <1>4, <1>6, ReaderMovesOn

\* The table loses the connection: nothing is tagged any more.
LEMMA AbortWriterKeeps ==
  ASSUME NInv, NEW c \in Conns, AbortWriter(c), GameSame
  PROVE  NInv'
<1>1. <<>> \in Seq(Wire) /\ Len(<<>>) = 0 /\ 0 <= OutCap
  BY EmptySeq, OutCapAssumption
<1>2. out' \in [Conns -> Seq(Wire)] /\ \A d \in Conns : Len(out'[d]) <= OutCap
  <2>1. out' \in [Conns -> Seq(Wire)]
    BY <1>1 DEF NInv, Typed, AbortWriter
  <2>2. \A d \in Conns : out'[d] = IF d = c THEN <<>> ELSE out[d]
    BY DEF NInv, Typed, AbortWriter
  <2> QED BY <1>1, <2>1, <2>2 DEF NInv, Typed
<1>3. Typed'
  BY <1>2 DEF NInv, Typed, AbortWriter, GameSame, Readers, Past
<1>4. Orderly(inbound)'
  BY DEF NInv, Orderly, AbortWriter
<1>5. ASSUME NEW d \in Conns
      PROVE  Sane(d)'
  <2>1. CASE d # c
    BY <2>1, UnmovedSane DEF NInv, Typed, AbortWriter, GameSame, Unmoved
  <2>2. CASE d = c
    <3>1. reader[c] = "aborting" /\ reader'[c] = "done" /\ conn_states'[c] = "none"
          /\ inbound' = inbound
      BY DEF NInv, Typed, AbortWriter
    <3>2. Tagged(c)'
      BY <3>1 DEF NInv, Sane, Tagged, Past
    <3>3. Owned(c)'
      BY DEF NInv, Sane, Owned, GameSame
    <3>4. Once(c)'
      BY <3>1 DEF NInv, Sane, Once, Beyond, GameSame, Past
    <3>5. Cleared(c)'
      BY <3>1 DEF NInv, Sane, Cleared, GameSame, Past
    <3> QED BY <2>2, <3>2, <3>3, <3>4, <3>5 DEF Sane
  <2> QED BY <2>1, <2>2
<1> QED BY <1>3, <1>4, <1>5 DEF NInv

\* A frame is tagged and reported: the table has moved on before the game sees
\* it, and all of the connection in line was tagged before.
LEMMA ProcessFrameKeeps ==
  ASSUME NInv, NEW c \in Conns, ProcessFrame(c), GameSame
  PROVE  NInv'
<1> DEFINE k == Head(up[c]).kind
           s == conn_states[c]
           m == Packet(c, s, k)
<1>1. k \in ClientKinds /\ Tail(up[c]) \in Seq([kind : ClientKinds, z : BOOLEAN])
  <2>1. up[c] \in Seq([kind : ClientKinds, z : BOOLEAN]) /\ up[c] # <<>>
    BY DEF NInv, Typed, ProcessFrame
  <2>2. /\ Head(up[c]) \in [kind : ClientKinds, z : BOOLEAN]
        /\ Tail(up[c]) \in Seq([kind : ClientKinds, z : BOOLEAN])
    BY <2>1, HeadTailProperties
  <2> QED BY <2>2
<1>2. reader[c] = "reading" /\ s \in States /\ s # "none"
  BY DEF NInv, Typed, Sane, Tagged, ProcessFrame
<1>3. NextTag(s, k) \in States /\ Stage(s) <= Stage(NextTag(s, k))
  BY <1>2, TagsGrow
<1>4. /\ Stage(s) \in Nat /\ Stage(NextTag(s, k)) \in Nat
      /\ NextTag(s, k) # "none" /\ Stage(gstate[c]) \in Nat
  BY <1>2, <1>3, StagesAreNumbers DEF NInv, Typed, States
<1>5. /\ conn_states' = [conn_states EXCEPT ![c] = NextTag(s, k)]
      /\ inbound' = IF Len(inbound) < InCap THEN Append(inbound, m) ELSE inbound
      /\ UNCHANGED <<fin, reader, outbound, out>>
      /\ up' = [up EXCEPT ![c] = Tail(up[c])]
  BY DEF ProcessFrame
<1>6. m \in Message /\ m.conn = c /\ m.type = "Packet" /\ m.state = s /\ After(m) = NextTag(s, k)
  BY <1>1, <1>2 DEF Packet, Message, After
<1> HIDE DEF k, s, m
<1>7. ASSUME NEW n \in Of(inbound, c)
      PROVE  n.type = "Packet" /\ Stage(After(n)) \in Nat /\ Stage(After(n)) <= Stage(s)
  <2>1. n.type = "Packet"
    <3>1. n.type = "Packet" \/ n.type = "Closed"
      BY FramesInLine DEF NInv, Typed
    <3> QED BY <1>2, <3>1 DEF NInv, Sane, Tagged, Past
  <2>2. After(n) \in States
    BY <2>1, FramesInLine DEF NInv, Typed
  <2> QED BY <1>2, <2>1, <2>2, StagesAreNumbers DEF NInv, Sane, Tagged, s
<1>8. \A n \in Of(inbound, c) : MayFollow(n, m)
  BY <1>6, <1>7 DEF MayFollow
<1>9. /\ inbound' \in Seq(Message) /\ Len(inbound') <= InCap /\ Orderly(inbound')
      /\ Of(inbound, c) \subseteq Of(inbound', c) /\ Of(inbound', c) \subseteq Of(inbound, c) \cup {m}
      /\ \A d : d # c => Of(inbound', d) = Of(inbound, d)
  <2>1. inbound \in Seq(Message) /\ Len(inbound) \in Nat /\ Len(inbound) <= InCap
        /\ Orderly(inbound) /\ InCap \in Nat
    BY LenProperties, InCapAssumption DEF NInv, Typed
  <2>2. CASE Len(inbound) < InCap
    <3>1. /\ Append(inbound, m) \in Seq(Message) /\ Len(Append(inbound, m)) = Len(inbound) + 1
          /\ Orderly(Append(inbound, m))
          /\ Of(Append(inbound, m), c) = Of(inbound, c) \cup {m}
          /\ \A d : d # c => Of(Append(inbound, m), d) = Of(inbound, d)
      BY <1>6, <1>8, <2>1, LineExtended
    <3> QED BY <1>5, <2>1, <2>2, <3>1
  <2> QED BY <1>5, <2>1, <2>2
<1>10. Typed'
  BY <1>1, <1>3, <1>5, <1>9 DEF NInv, Typed, GameSame
<1>11. ASSUME NEW d \in Conns
       PROVE  Sane(d)'
  <2>1. CASE d # c
    BY <1>5, <1>9, <2>1, UnmovedSane DEF NInv, Typed, GameSame, Unmoved
  <2>2. CASE d = c
    <3>1. reader'[c] = "reading" /\ conn_states'[c] = NextTag(s, k)
      BY <1>2, <1>5 DEF NInv, Typed
    <3>2. Tagged(c)'
      <4>1. ASSUME NEW n \in Of(inbound', c)
            PROVE  n.type = "Packet" /\ Stage(After(n)) <= Stage(NextTag(s, k))
        <5>1. CASE n \in Of(inbound, c)
          BY <1>3, <1>4, <1>7, <5>1
        <5>2. CASE n = m
          BY <1>4, <1>6, <5>2
        <5> QED BY <1>9, <5>1, <5>2
      <4>2. Stage(gstate[c]) <= Stage(s)
        BY <1>2 DEF NInv, Sane, Tagged, s
      <4>3. Stage(gstate'[c]) <= Stage(NextTag(s, k))
        BY <1>3, <1>4, <4>2 DEF GameSame
      <4> QED BY <1>4, <3>1, <4>1, <4>3 DEF Tagged
    <3>3. Owned(c)'
      BY DEF NInv, Sane, Owned, GameSame
    <3>4. ASSUME NEW l \in Nat, Beyond(c, l)
          PROVE  Beyond(c, l)'
      <4>1. l <= Stage(s) /\ l <= Stage(NextTag(s, k))
        BY <1>2, <1>3, <1>4, <3>4 DEF Beyond, s
      <4>2. \A n \in Of(inbound', c) : n.type = "Packet" => l <= Stage(n.state)
        BY <1>6, <1>9, <3>4, <4>1 DEF Beyond
      <4> QED BY <3>1, <4>1, <4>2 DEF Beyond
    <3>5. Once(c)'
      <4>1. c \in joined => c \in players
        BY <1>2 DEF NInv, Sane, Once, Past
      <4>2. Beyond(c, 3) => Beyond(c, 3)'
        BY <3>4
      <4>3. Beyond(c, 5) => Beyond(c, 5)'
        BY <3>4
      <4> QED BY <4>1, <4>2, <4>3 DEF NInv, Sane, Once, GameSame
    <3>6. Cleared(c)'
      BY <3>1 DEF Cleared, Past
    <3> QED BY <2>2, <3>2, <3>3, <3>5, <3>6 DEF Sane
  <2> QED BY <2>1, <2>2
<1> QED BY <1>9, <1>10, <1>11 DEF NInv

\* The report of the close is the last of its connection.
LEMMA SendClosedKeeps ==
  ASSUME NInv, NEW c \in Conns, SendClosed(c), GameSame
  PROVE  NInv'
<1> DEFINE m == Closed(c)
<1>1. /\ reader[c] = "closing" /\ reader' = [reader EXCEPT ![c] = "unmapping"]
      /\ Len(inbound) < InCap /\ inbound' = Append(inbound, m)
      /\ UNCHANGED <<up, fin, conn_states, outbound, out>>
  BY DEF SendClosed
<1>2. m \in Message /\ m.conn = c /\ m.type = "Closed"
  BY DEF Closed, Message
<1> HIDE DEF m
<1>3. \A n \in Of(inbound, c) : n.type = "Packet"
  <2>1. ASSUME NEW n \in Of(inbound, c)
        PROVE  n.type = "Packet" \/ n.type = "Closed"
    BY FramesInLine DEF NInv, Typed
  <2> QED BY <1>1, <2>1 DEF NInv, Sane, Tagged, Past
<1>4. \A n \in Of(inbound, c) : MayFollow(n, m)
  BY <1>2, <1>3 DEF MayFollow
<1>5. /\ inbound' \in Seq(Message) /\ Len(inbound') = Len(inbound) + 1 /\ Orderly(inbound')
      /\ Of(inbound', c) = Of(inbound, c) \cup {m}
      /\ \A d : d # c => Of(inbound', d) = Of(inbound, d)
  BY <1>1, <1>2, <1>4, LineExtended DEF NInv, Typed
<1>6. Len(inbound') <= InCap
  BY <1>1, <1>5, LenProperties, InCapAssumption DEF NInv, Typed
<1>7. Typed'
  BY <1>1, <1>5, <1>6 DEF NInv, Typed, GameSame, Readers, Past
<1>8. ASSUME NEW d \in Conns
      PROVE  Sane(d)'
  <2>1. CASE d # c
    BY <1>1, <1>5, <2>1, UnmovedSane DEF NInv, Typed, GameSame, Unmoved
  <2>2. CASE d = c
    <3>1. reader'[c] = "unmapping"
      BY <1>1 DEF NInv, Typed
    <3>2. Tagged(c)'
      BY <1>1, <1>2, <1>5, <3>1 DEF NInv, Sane, Tagged, GameSame, Past
    <3>3. Owned(c)'
      BY DEF NInv, Sane, Owned, GameSame
    <3>4. \A l : Beyond(c, l) => Beyond(c, l)'
      BY <1>1, <1>2, <1>5 DEF Beyond
    <3>5. Once(c)'
      <4>1. c \in joined => c \in players
        BY <1>1 DEF NInv, Sane, Once, Past
      <4> QED BY <3>4, <4>1 DEF NInv, Sane, Once, GameSame
    <3>6. Cleared(c)'
      BY <1>2, <1>5 DEF Cleared
    <3> QED BY <2>2, <3>2, <3>3, <3>5, <3>6 DEF Sane
  <2> QED BY <2>1, <2>2
<1> QED BY <1>5, <1>7, <1>8 DEF NInv

----------------------------------------------------------------------------
(* The game *)

\* What a handler may rely on: the packet was in line, those behind it are no
\* earlier in the protocol, and its connection is not yet closed.
LEMMA ReceiveFacts ==
  ASSUME NInv, NEW c \in Conns, NEW s \in States, NEW k, Receive(c, s, k)
  PROVE  /\ inbound' \in Seq(Message) /\ Len(inbound') <= InCap /\ Orderly(inbound')
         /\ \A d : d # c => Of(inbound', d) = Of(inbound, d)
         /\ Of(inbound', c) \subseteq Of(inbound, c)
         /\ \A m \in Of(inbound', c) :
              m.type = "Packet" => Stage(NextTag(s, k)) <= Stage(m.state)
         /\ conn_states[c] # "none" => Stage(NextTag(s, k)) <= Stage(conn_states[c])
         /\ \A n \in Nat : Beyond(c, n) => n <= Stage(s)
         /\ reader[c] # "absent"
         /\ c \in joined => c \in players
         /\ ~(/\ reader[c] \in Past
              /\ \A m \in Of(inbound', c) : m.type # "Closed"
              /\ <<"Closed", c>> \notin swept)
<1> DEFINE p == Packet(c, s, k)
<1>1. inbound \in Seq(Message) /\ inbound # <<>> /\ Orderly(inbound)
      /\ Head(inbound) = p /\ inbound' = Tail(inbound)
  BY DEF NInv, Typed, Receive
<1>2. p.type = "Packet" /\ p.conn = c /\ p.state = s /\ After(p) = NextTag(s, k)
  BY DEF Packet, After
<1> HIDE DEF p
<1>3. /\ inbound' \in Seq(Message) /\ Len(inbound') < Len(inbound) /\ Orderly(inbound')
      /\ p \in Of(inbound, c)
      /\ Of(inbound', c) \subseteq Of(inbound, c)
      /\ \A m \in Of(inbound, c) : m = p \/ m \in Of(inbound', c)
      /\ \A d : d # c => Of(inbound', d) = Of(inbound, d)
      /\ \A m \in Of(inbound', c) : MayFollow(p, m)
  BY <1>1, <1>2, LineShortened
<1>4. Len(inbound') <= InCap
  BY <1>1, <1>3, LenProperties, InCapAssumption DEF NInv, Typed
<1>5. \A m \in Of(inbound', c) : m.type = "Packet" => Stage(NextTag(s, k)) <= Stage(m.state)
  BY <1>2, <1>3 DEF MayFollow
<1>6. conn_states[c] # "none" => Stage(NextTag(s, k)) <= Stage(conn_states[c])
  BY <1>2, <1>3 DEF NInv, Sane, Tagged
<1>7. \A n \in Nat : Beyond(c, n) => n <= Stage(s)
  BY <1>2, <1>3 DEF Beyond
<1>8. reader[c] # "absent"
  BY <1>3 DEF NInv, Sane, Tagged
<1>9. c \in joined => c \in players
  BY <1>3 DEF NInv, Sane, Once
<1>10. ASSUME reader[c] \in Past, \A m \in Of(inbound', c) : m.type # "Closed",
              <<"Closed", c>> \notin swept
       PROVE  FALSE
  <2>1. \A m \in Of(inbound, c) : m.type # "Closed"
    BY <1>2, <1>3, <1>10
  <2> QED BY <1>3, <1>10, <2>1 DEF NInv, Sane, Cleared
<1> QED BY <1>3, <1>4, <1>5, <1>6, <1>7, <1>8, <1>9, <1>10

\* A handler changes what belongs to c only.
OnlyOf(c) ==
  /\ \A d \in Conns : d # c => gstate'[d] = gstate[d] /\ entered'[d] = entered[d]
  /\ bound' \ {c} = bound \ {c} /\ players' \ {c} = players \ {c} /\ joined' \ {c} = joined \ {c}
  /\ quit' = quit

\* What a handler has to show for its connection.
LEMMA HandledKeeps ==
  ASSUME NInv, NEW c \in Conns, NEW s \in States, NEW k, Receive(c, s, k), OnlyOf(c), Typed',
         conn_states[c] # "none" => Stage(gstate'[c]) <= Stage(conn_states[c]),
         Owned(c)',
         c \in joined' => c \in players' /\ Beyond(c, 3)',
         entered'[c] <= 1,
         entered'[c] # 0 => c \in joined' /\ Beyond(c, 5)'
  PROVE  NInv'
<1>1. /\ Orderly(inbound') /\ Of(inbound', c) \subseteq Of(inbound, c)
      /\ \A d : d # c => Of(inbound', d) = Of(inbound, d)
      /\ reader[c] # "absent"
      /\ c \in joined => c \in players
      /\ ~(/\ reader[c] \in Past
           /\ \A m \in Of(inbound', c) : m.type # "Closed"
           /\ <<"Closed", c>> \notin swept)
  BY ReceiveFacts
<1>2. /\ UNCHANGED <<reader, conn_states, swept>> /\ clients' = clients \cup {c}
  BY DEF Receive
<1>3. ASSUME NEW d \in Conns, d # c
      PROVE  Sane(d)'
  <2>1. Unmoved(d)
    BY <1>1, <1>2, <1>3 DEF OnlyOf, Unmoved
  <2> QED BY <2>1, UnmovedSane DEF NInv
<1>4. Sane(c)'
  <2>1. Tagged(c)'
    BY <1>1, <1>2 DEF NInv, Sane, Tagged
  <2>2. Once(c)'
    BY <1>1 DEF NInv, Sane, Once, OnlyOf
  <2>3. Cleared(c)'
    BY <1>1, <1>2 DEF Cleared
  <2> QED BY <2>1, <2>2, <2>3 DEF Sane
<1> QED BY <1>1, <1>3, <1>4 DEF NInv

\* Beyond a stage for good: the frames behind a packet are no earlier than it leads.
LEMMA BeyondKept ==
  ASSUME NInv, NEW c \in Conns, NEW s \in States, NEW k, Receive(c, s, k), NEW n \in Nat,
         Beyond(c, n) \/ n <= Stage(NextTag(s, k))
  PROVE  Beyond(c, n)'
<1>1. CASE Beyond(c, n)
  <2>1. Of(inbound', c) \subseteq Of(inbound, c)
    BY ReceiveFacts
  <2>2. conn_states' = conn_states
    BY DEF Receive
  <2> QED BY <1>1, <2>1, <2>2 DEF Beyond
<1>2. CASE n <= Stage(NextTag(s, k))
  <2>1. /\ \A m \in Of(inbound', c) : m.type = "Packet" =>
             m.state \in States /\ Stage(NextTag(s, k)) <= Stage(m.state)
        /\ conn_states[c] # "none" => Stage(NextTag(s, k)) <= Stage(conn_states[c])
        /\ conn_states' = conn_states
    <3>1. inbound' \in Seq(Message)
      BY ReceiveFacts
    <3>2. \A m \in Of(inbound', c) : m.type = "Packet" => m.state \in States
      BY <3>1, FramesInLine
    <3>3. conn_states' = conn_states
      BY DEF Receive
    <3> QED BY <3>2, <3>3, ReceiveFacts
  <2>2. /\ Stage(NextTag(s, k)) \in Nat
        /\ \A t \in States : Stage(t) \in Nat
        /\ conn_states[c] # "none" => Stage(conn_states[c]) \in Nat
    BY TagsGrow, StagesAreNumbers DEF NInv, Typed
  <2> QED BY <1>2, <2>1, <2>2 DEF Beyond
<1> QED BY <1>1, <1>2

\* Typing a handler's effect on what the listener and the game keep.
LEMMA ReceiveTyped ==
  ASSUME NInv, NEW c \in Conns, NEW s \in States, NEW k, Receive(c, s, k),
         out' \in [Conns -> Seq(Wire)], \A d \in Conns : Len(out'[d]) <= OutCap,
         urgent' \in [Conns -> Seq(ServerKinds)], gstate' \in [Conns -> States \cup {"none"}],
         quit' = quit, entered' \in [Conns -> Nat],
         bound' \cup players' \cup joined' \subseteq Conns
  PROVE  Typed'
<1>1. inbound' \in Seq(Message) /\ Len(inbound') <= InCap
  BY ReceiveFacts
<1>2. /\ UNCHANGED <<up, reader, conn_states, outbound, fin>>
      /\ clients' = clients \cup {c}
  BY DEF Receive
<1>3. bound' \cup clients' \cup players' \cup joined' \cup outbound' \cup fin' \subseteq Conns
  BY <1>2 DEF NInv, Typed
<1> QED BY <1>1, <1>2, <1>3 DEF NInv, Typed

\* One frame, or two.
LEMMA Frames ==
  /\ \A x \in ServerKinds : <<x>> \in Seq(ServerKinds)
  /\ \A x, y \in ServerKinds : <<x, y>> \in Seq(ServerKinds)
  OBVIOUS

\* What is queued on the way into play.
Configuring == {"RegistryData", "UpdateTags", "FeatureFlags", "FinishConfiguration"}
Entering == {"Login", "Position", "UpdateHealth", "PlayerInfo"}
Spawning == {"ChunkBatchStart", "MapChunk", "ChunkBatchFinished", "WindowItems"}

\* The same frame n times.
LEMMA FrameRepeated ==
  ASSUME NEW S, NEW x \in S, NEW n \in Nat
  PROVE  [i \in 1 .. n |-> x] \in Seq(S) /\ Len([i \in 1 .. n |-> x]) = n
<1> DEFINE q == [i \in 1 .. n |-> x]
<1>1. q \in [1 .. n -> S]
  OBVIOUS
<1> HIDE DEF q
<1>2. q \in Seq(S)
  BY <1>1, SeqDef
<1>3. Len(q) \in Nat /\ DOMAIN q = 1 .. Len(q)
  BY <1>2, LenProperties
<1>4. 1 .. Len(q) = 1 .. n
  BY <1>1, <1>3
<1>5. Len(q) = n
  <2> DEFINE l == Len(q)
  <2>1. l \in Nat /\ 1 .. l = 1 .. n
    BY <1>3, <1>4
  <2> HIDE DEF l
  <2>2. (l >= 1 => l \in 1 .. l) /\ (n >= 1 => n \in 1 .. n)
    BY <2>1
  <2>3. (l >= 1 => l \in 1 .. n) /\ (n >= 1 => n \in 1 .. l)
    BY <2>1, <2>2, Zenon
  <2>4. (l >= 1 => l <= n) /\ (n >= 1 => n <= l)
    BY <2>1, <2>3
  <2>5. l = n
    BY <2>1, <2>4
  <2> QED BY <2>5 DEF l
<1> QED BY <1>2, <1>5 DEF q

\* A packet for each registry, and three more.
LEMMA ConfigurationSent ==
  ASSUME NEW S, Configuring \subseteq S
  PROVE  ConfigurationFrames \in Seq(S) /\ Len(ConfigurationFrames) = Registries + 3
<1> DEFINE q == [i \in 1 .. Registries |-> "RegistryData"]
           t == <<"UpdateTags", "FeatureFlags", "FinishConfiguration">>
<1>1. q \in Seq(S) /\ Len(q) = Registries
  BY FrameRepeated, BurstAssumption DEF Configuring
<1>2. t \in Seq(S) /\ Len(t) = 3
  BY DEF Configuring
<1>3. ConfigurationFrames = q \o t
  BY DEF ConfigurationFrames
<1> HIDE DEF q, t
<1>4. q \o t \in Seq(S) /\ Len(q \o t) = Len(q) + Len(t)
  BY <1>1, <1>2, ConcatProperties, Zenon
<1> QED BY <1>1, <1>2, <1>3, <1>4

\* The four packets of a player that enters play.
LEMMA EntrySent ==
  ASSUME NEW S, Entering \subseteq S
  PROVE  EntryFrames \in Seq(S) /\ Len(EntryFrames) = 4
  BY DEF EntryFrames, Entering

\* The chunks around it, between two packets.
LEMMA BatchSent ==
  ASSUME NEW S, Spawning \subseteq S, NEW n \in Nat
  PROVE  ChunkBatch(n) \in Seq(S) /\ Len(ChunkBatch(n)) = n + 2
<1> DEFINE q == [i \in 1 .. n |-> "MapChunk"]
           a == <<"ChunkBatchStart">>
           b == <<"ChunkBatchFinished">>
<1>1. q \in Seq(S) /\ Len(q) = n
  BY FrameRepeated DEF Spawning
<1>2. a \in Seq(S) /\ Len(a) = 1 /\ b \in Seq(S) /\ Len(b) = 1
  BY DEF Spawning
<1>3. ChunkBatch(n) = a \o q \o b
  BY DEF ChunkBatch
<1> HIDE DEF q, a, b
<1>4. a \o q \in Seq(S) /\ Len(a \o q) = Len(a) + Len(q)
  BY <1>1, <1>2, ConcatProperties, Zenon
<1>5. (a \o q) \o b \in Seq(S) /\ Len((a \o q) \o b) = Len(a \o q) + Len(b)
  BY <1>2, <1>4, ConcatProperties, Zenon
<1> QED BY <1>1, <1>2, <1>3, <1>4, <1>5

\* What is ready for c when the systems have run.
Spawned(c) == IF EntersPlay(c) THEN SpawnChunks + 2 ELSE 0
Stocked(c) == IF c \in full_sync \cap bound THEN 1 ELSE 0

\* What the systems behind network_receive send.
LEMMA SystemsSend ==
  ASSUME NEW S, Spawning \subseteq S, urgent \in [Conns -> Seq(S)], ReceiveEnds
  PROVE  /\ urgent' \in [Conns -> Seq(S)]
         /\ \A d \in Conns : Len(urgent'[d]) <= Len(urgent[d]) + Spawned(d) + Stocked(d)
         /\ \A d \in Conns : ~EntersPlay(d) /\ d \notin bound => urgent'[d] = urgent[d]
<1>1. PICK n \in 0 .. SpawnChunks :
        urgent' = [c \in Conns |->
          urgent[c] \o (IF EntersPlay(c) THEN ChunkBatch(n) ELSE <<>>) \o Items(c)]
  BY DEF ReceiveEnds
<1>2. SpawnChunks \in Nat /\ n \in Nat /\ n <= SpawnChunks
  BY BurstAssumption
<1>3. <<>> \in Seq(S) /\ Len(<<>>) = 0
  BY EmptySeq
<1>4. ASSUME NEW d \in Conns
      PROVE  /\ urgent'[d] \in Seq(S)
             /\ Len(urgent'[d]) <= Len(urgent[d]) + Spawned(d) + Stocked(d)
             /\ ~EntersPlay(d) /\ d \notin bound => urgent'[d] = urgent[d]
  <2> DEFINE a == IF EntersPlay(d) THEN ChunkBatch(n) ELSE <<>>
             b == Items(d)
             u == urgent[d]
  <2>1. u \in Seq(S) /\ Len(u) \in Nat
    BY LenProperties
  <2>2. a \in Seq(S) /\ Len(a) \in Nat /\ Len(a) <= Spawned(d)
    <3>1. ChunkBatch(n) \in Seq(S) /\ Len(ChunkBatch(n)) = n + 2
      BY <1>2, BatchSent
    <3>2. CASE EntersPlay(d)
      BY <1>2, <3>1, <3>2 DEF Spawned
    <3>3. CASE ~EntersPlay(d)
      BY <1>3, <3>3 DEF Spawned
    <3> QED BY <3>2, <3>3
  <2>3. b \in Seq(S) /\ Len(b) = Stocked(d) /\ Len(b) \in Nat
    BY <1>3 DEF Items, Stocked, Spawning
  <2>4. urgent'[d] = u \o a \o b
    BY <1>1
  <2>5. ~EntersPlay(d) /\ d \notin bound => a = <<>> /\ b = <<>>
    BY DEF Items
  <2>6. Spawned(d) \in Nat
    BY <1>2 DEF Spawned
  <2> HIDE DEF u, a, b
  <2>7. u \o a \in Seq(S) /\ Len(u \o a) = Len(u) + Len(a)
    BY <2>1, <2>2, ConcatProperties, Zenon
  <2>8. (u \o a) \o b \in Seq(S) /\ Len((u \o a) \o b) = Len(u \o a) + Len(b)
    BY <2>3, <2>7, ConcatProperties, Zenon
  <2>9. Len(urgent'[d]) <= Len(u) + Spawned(d) + Stocked(d)
    <3>1. Len(urgent'[d]) = Len(u) + Len(a) + Len(b)
      BY <2>4, <2>7, <2>8
    <3> QED BY <2>1, <2>2, <2>3, <2>6, <3>1
  <2>10. a = <<>> /\ b = <<>> => urgent'[d] = u
    BY <2>1, <2>4, ConcatEmptySeq
  <2> QED BY <2>4, <2>5, <2>8, <2>9, <2>10 DEF u
<1>5. urgent' \in [Conns -> Seq(S)]
  BY <1>1, <1>4
<1> QED BY <1>4, <1>5

\* Frames that are queued for c.
LEMMA EnqueueTyped ==
  ASSUME NInv, NEW c \in Conns, NEW frames \in Seq(ServerKinds), Enqueue(c, frames)
  PROVE  urgent' \in [Conns -> Seq(ServerKinds)]
<1>1. urgent[c] \o frames \in Seq(ServerKinds)
  BY ConcatProperties DEF NInv, Typed
<1> QED BY <1>1 DEF NInv, Typed, Enqueue

\* try_send keeps to the capacity.
LEMMA TrySendTyped ==
  ASSUME NEW c, NEW q \in Seq(Wire), Len(q) <= OutCap, NEW m \in Wire
  PROVE  TrySend(c, q, m) \in Seq(Wire) /\ Len(TrySend(c, q, m)) <= OutCap
<1>1. Append(q, m) \in Seq(Wire) /\ Len(Append(q, m)) = Len(q) + 1 /\ Len(q) \in Nat
  BY AppendProperties, LenProperties
<1> QED BY <1>1, OutCapAssumption DEF TrySend

\* The handlers that leave the player alone: gstate may move on with the packet,
\* but never out of "none".
LEMMA QuietHandled ==
  ASSUME NInv, NEW c \in Conns, NEW s \in States, NEW k, Receive(c, s, k), Typed',
         UNCHANGED <<bound, players, joined, quit, entered>>,
         \/ gstate' = gstate
         \/ /\ gstate' = [gstate EXCEPT ![c] = NextTag(s, k)]
            /\ gstate[c] # "none"
  PROVE  NInv'
<1>1. NextTag(s, k) \in States /\ NextTag(s, k) # "none"
  BY TagsGrow DEF States
<1>2. conn_states[c] # "none" => Stage(gstate'[c]) <= Stage(conn_states[c])
  <2>1. CASE gstate' = gstate
    BY <2>1 DEF NInv, Sane, Tagged
  <2>2. CASE gstate' = [gstate EXCEPT ![c] = NextTag(s, k)]
    <3>1. gstate'[c] = NextTag(s, k)
      BY <2>2 DEF NInv, Typed
    <3> QED BY <3>1, ReceiveFacts
  <2> QED BY <2>1, <2>2
<1>3. OnlyOf(c)
  BY DEF NInv, Typed, OnlyOf
<1>4. Owned(c)'
  BY <1>1 DEF NInv, Typed, Sane, Owned, Receive
<1>5. c \in joined' => c \in players' /\ Beyond(c, 3)'
  BY ReceiveFacts, BeyondKept DEF NInv, Sane, Once
<1>6. entered'[c] <= 1 /\ (entered'[c] # 0 => c \in joined' /\ Beyond(c, 5)')
  BY BeyondKept DEF NInv, Sane, Once
<1> QED BY <1>2, <1>3, <1>4, <1>5, <1>6, HandledKeeps

\* A handler that queues frames, or none, and changes nothing else.
LEMMA AnswerKeeps ==
  ASSUME NInv, NEW c \in Conns, NEW s \in States, NEW k, Receive(c, s, k),
         UNCHANGED <<out, gstate, bound, players, joined, quit, entered>>,
         urgent' \in [Conns -> Seq(ServerKinds)]
  PROVE  NInv'
<1>1. Typed'
  BY ReceiveTyped DEF NInv, Typed
<1> QED BY <1>1, QuietHandled

\* Packets nothing handles, and those of a refused or playing connection.
LEMMA IgnoredKeeps ==
  ASSUME NInv, NEW c \in Conns, NEW s \in States, NEW k,
         \/ Undispatched(c, s, k)
         \/ HelloIgnored(c)
         \/ HandlePlayerPosition(c)
  PROVE  NInv'
<1>1. urgent \in [Conns -> Seq(ServerKinds)] /\ "Login" \in States /\ "Play" \in States
  BY DEF NInv, Typed, States
<1>2. \E t \in States : \E l : Receive(c, t, l)
        /\ UNCHANGED <<out, urgent, gstate, bound, players, joined, quit, entered>>
  BY <1>1 DEF Undispatched, HelloIgnored, HandlePlayerPosition
<1> QED BY <1>1, <1>2, AnswerKeeps

\* Status requests and client information are answered.
LEMMA AnsweredKeeps ==
  ASSUME NInv, NEW c \in Conns, NEW k, HandleStatus(c, k) \/ HandleClientInformation(c)
  PROVE  NInv'
<1>2. CASE HandleStatus(c, k)
  <2>1. PICK frames \in Seq(ServerKinds) : Enqueue(c, frames)
    <3>1. <<"StatusResponse">> \in Seq(ServerKinds) /\ <<"PingResponse">> \in Seq(ServerKinds)
      BY Frames DEF ServerKinds
    <3> QED BY <1>2, <3>1 DEF HandleStatus
  <2>2. urgent' \in [Conns -> Seq(ServerKinds)]
    BY <2>1, EnqueueTyped
  <2> QED BY <1>2, <2>2, AnswerKeeps DEF HandleStatus, States
<1>3. CASE HandleClientInformation(c)
  <2>1. ConfigurationFrames \in Seq(ServerKinds)
    BY ConfigurationSent DEF ServerKinds, Configuring
  <2>2. urgent' \in [Conns -> Seq(ServerKinds)]
    BY <1>3, <2>1, EnqueueTyped DEF HandleClientInformation
  <2> QED BY <1>3, <2>2, AnswerKeeps DEF HandleClientInformation, States
<1> QED BY <1>2, <1>3

\* The login is acknowledged: the connection goes on unless it was refused.
LEMMA AcknowledgedKeeps ==
  ASSUME NInv, NEW c \in Conns, HandleLoginAcknowledged(c)
  PROVE  NInv'
<1>1. /\ Receive(c, "Login", "Ack") /\ "Login" \in States
      /\ NextTag("Login", "Ack") = "Configuration" /\ "Configuration" \in States
  BY DEF HandleLoginAcknowledged, NextTag, States
<1>2. \/ gstate' = gstate
      \/ gstate' = [gstate EXCEPT ![c] = "Configuration"] /\ gstate[c] # "none"
  BY DEF HandleLoginAcknowledged, NInv, Typed
<1>3. Typed'
  <2>1. gstate' \in [Conns -> States \cup {"none"}]
    <3>1. gstate \in [Conns -> States \cup {"none"}]
      BY DEF NInv, Typed
    <3>2. CASE gstate' = [gstate EXCEPT ![c] = "Configuration"]
      BY <1>1, <3>1, <3>2
    <3> QED BY <1>2, <3>1, <3>2
  <2> QED BY <1>1, <2>1, ReceiveTyped DEF NInv, Typed, HandleLoginAcknowledged
<1> QED BY <1>1, <1>2, <1>3, QuietHandled DEF HandleLoginAcknowledged

\* Only a connection without a player opens: a player has passed the login, and
\* an intention behind its Hello would be tagged with a later state.
LEMMA IntentionKeeps ==
  ASSUME NInv, NEW c \in Conns, NEW k, HandleIntention(c, k)
  PROVE  NInv'
<1>1. Receive(c, "Handshake", k) /\ "Handshake" \in States
  BY DEF HandleIntention, States
<1>2. c \notin joined /\ c \notin players /\ c \notin bound /\ entered[c] = 0
  <2>1. \A n \in Nat : Beyond(c, n) => n <= 1
    BY <1>1, ReceiveFacts, StagesAreNumbers
  <2>2. ~ Beyond(c, 3) /\ ~ Beyond(c, 5)
    BY <2>1
  <2> QED BY <2>2 DEF NInv, Sane, Once, Owned
<1>3. /\ gstate' = [gstate EXCEPT ![c] = "none"] \/ gstate' = [gstate EXCEPT ![c] = "Handshake"]
      /\ bound' = bound
      /\ UNCHANGED <<out, players, joined, quit, entered>>
  BY <1>2 DEF HandleIntention
<1>4. urgent' \in [Conns -> Seq(ServerKinds)]
  <2>1. <<"LoginDisconnect">> \in Seq(ServerKinds)
    BY Frames DEF ServerKinds
  <2>2. Enqueue(c, <<"LoginDisconnect">>) \/ urgent' = urgent
    BY DEF HandleIntention
  <2>3. urgent \in [Conns -> Seq(ServerKinds)]
    BY DEF NInv, Typed
  <2> QED BY <2>1, <2>2, <2>3, EnqueueTyped
<1>5. Typed'
  <2>1. gstate' \in [Conns -> States \cup {"none"}]
    BY <1>1, <1>3 DEF NInv, Typed
  <2> QED BY <1>1, <1>3, <1>4, <2>1, ReceiveTyped DEF NInv, Typed
<1>6. conn_states[c] # "none" => Stage(gstate'[c]) <= Stage(conn_states[c])
  <2>1. Stage(gstate'[c]) <= 1
    BY <1>3, StagesAreNumbers DEF NInv, Typed
  <2>2. conn_states[c] # "none" => 1 <= Stage(conn_states[c])
    <3>1. \A t \in States : 1 <= Stage(t)
      BY DEF States, Stage
    <3> QED BY <3>1 DEF NInv, Typed
  <2>3. Stage(gstate'[c]) \in Nat /\ (conn_states[c] # "none" => Stage(conn_states[c]) \in Nat)
    BY <1>5, StagesAreNumbers DEF NInv, Typed
  <2> QED BY <2>1, <2>2, <2>3
<1>7. OnlyOf(c)
  BY <1>3 DEF NInv, Typed, OnlyOf
<1>8. Owned(c)'
  BY <1>2, <1>3 DEF Owned
<1>9. c \notin joined' /\ entered'[c] = 0
  BY <1>2, <1>3
<1> QED BY <1>1, <1>5, <1>6, <1>7, <1>8, <1>9, HandledKeeps

\* A player joins, once: what is behind its Hello belongs to the login or later.
LEMMA HelloKeeps ==
  ASSUME NInv, NEW c \in Conns, HandleHello(c)
  PROVE  NInv'
<1>1. /\ Receive(c, "Login", "Hello") /\ "Login" \in States /\ "Login" # "none"
      /\ NextTag("Login", "Hello") = "Login"
  BY DEF HandleHello, NextTag, States
<1>2. /\ players' = players \cup {c} /\ bound' = bound \cup {c} /\ joined' = joined \cup {c}
      /\ gstate' = [gstate EXCEPT ![c] = "Login"]
      /\ UNCHANGED <<quit, entered>>
  BY DEF HandleHello
<1>3. out' \in [Conns -> Seq(Wire)] /\ \A d \in Conns : Len(out'[d]) <= OutCap
  <2> DEFINE q1 == TrySend(c, out[c], EnableCompression)
             q2 == TrySend(c, q1, Frame("LoginSuccess", FALSE))
             q3 == TrySend(c, q2, Frame("LoginCompression", FALSE))
  <2>1. out \in [Conns -> Seq(Wire)] /\ \A d \in Conns : Len(out[d]) <= OutCap
    BY DEF NInv, Typed
  <2>2. /\ EnableCompression \in Wire /\ Frame("LoginSuccess", FALSE) \in Wire
        /\ Frame("LoginCompression", FALSE) \in Wire
    BY DEF EnableCompression, Frame, Wire, ServerKinds
  <2>3. q1 \in Seq(Wire) /\ Len(q1) <= OutCap
    BY <2>1, <2>2, TrySendTyped
  <2> HIDE DEF q1
  <2>4. q2 \in Seq(Wire) /\ Len(q2) <= OutCap
    BY <2>2, <2>3, TrySendTyped
  <2> HIDE DEF q2
  <2>5. q3 \in Seq(Wire) /\ Len(q3) <= OutCap
    BY <2>2, <2>4, TrySendTyped
  <2>6. out' = [out EXCEPT ![c] = q3] \/ out' = out
    BY DEF HandleHello, q1, q2
  <2> HIDE DEF q3
  <2>7. CASE out' = [out EXCEPT ![c] = q3]
    <3>1. \A d \in Conns : out'[d] = IF d = c THEN q3 ELSE out[d]
      BY <2>1, <2>7
    <3>2. out' \in [Conns -> Seq(Wire)]
      BY <2>1, <2>5, <2>7
    <3> QED BY <2>1, <2>5, <3>1, <3>2
  <2> QED BY <2>1, <2>6, <2>7
<1>4. urgent' \in [Conns -> Seq(ServerKinds)]
  <2>1. <<"LoginSuccess">> \in Seq(ServerKinds)
    BY Frames DEF ServerKinds
  <2>2. Enqueue(c, <<"LoginSuccess">>) \/ urgent' = urgent
    BY DEF HandleHello
  <2>3. urgent \in [Conns -> Seq(ServerKinds)]
    BY DEF NInv, Typed
  <2> QED BY <2>1, <2>2, <2>3, EnqueueTyped
<1>5. Typed'
  <2>1. gstate' \in [Conns -> States \cup {"none"}]
    BY <1>1, <1>2 DEF NInv, Typed
  <2>2. bound' \cup players' \cup joined' \subseteq Conns /\ entered' \in [Conns -> Nat]
    BY <1>2 DEF NInv, Typed
  <2> QED BY <1>1, <1>2, <1>3, <1>4, <2>1, <2>2, ReceiveTyped
<1>6. gstate'[c] = "Login"
  BY <1>2 DEF NInv, Typed
<1>7. conn_states[c] # "none" => Stage(gstate'[c]) <= Stage(conn_states[c])
  BY <1>1, <1>6, ReceiveFacts
<1>8. OnlyOf(c)
  BY <1>2 DEF NInv, Typed, OnlyOf
<1>9. Owned(c)'
  BY <1>1, <1>2, <1>6 DEF Owned, Receive
<1>10. Beyond(c, 3)'
  BY <1>1, BeyondKept, StagesAreNumbers
<1>11. entered'[c] <= 1 /\ (entered'[c] # 0 => c \in joined' /\ Beyond(c, 5)')
  BY <1>1, <1>2, BeyondKept DEF NInv, Sane, Once
<1> QED BY <1>1, <1>2, <1>5, <1>7, <1>8, <1>9, <1>10, <1>11, HandledKeeps

\* A player enters play, once: what is behind is tagged with Play.
LEMMA FinishKeeps ==
  ASSUME NInv, NEW c \in Conns, HandleFinishConfiguration(c)
  PROVE  NInv'
<1>1. /\ Receive(c, "Configuration", "Ack") /\ "Configuration" \in States
      /\ NextTag("Configuration", "Ack") = "Play" /\ "Play" \in States /\ "Play" # "none"
  BY DEF HandleFinishConfiguration, NextTag, States
<1>2. /\ \/ gstate' = gstate
         \/ gstate' = [gstate EXCEPT ![c] = "Play"] /\ gstate[c] # "none"
      /\ UNCHANGED <<out, bound, players, joined, quit>>
  BY DEF HandleFinishConfiguration, NInv, Typed
<1>3. entered[c] = 0
  <2>1. \A n \in Nat : Beyond(c, n) => n <= 4
    BY <1>1, ReceiveFacts, StagesAreNumbers
  <2>2. ~ Beyond(c, 5)
    BY <2>1
  <2> QED BY <2>2 DEF NInv, Sane, Once
<1>4. \/ c \in bound /\ entered' = [entered EXCEPT ![c] = @ + 1]
      \/ entered' = entered
  BY DEF HandleFinishConfiguration
<1>5. urgent' \in [Conns -> Seq(ServerKinds)]
  <2>1. EntryFrames \in Seq(ServerKinds)
    BY EntrySent DEF ServerKinds, Entering
  <2>2. Enqueue(c, EntryFrames) \/ urgent' = urgent
    BY DEF HandleFinishConfiguration
  <2>3. urgent \in [Conns -> Seq(ServerKinds)]
    BY DEF NInv, Typed
  <2> QED BY <2>1, <2>2, <2>3, EnqueueTyped
<1>6. /\ entered' \in [Conns -> Nat] /\ gstate' \in [Conns -> States \cup {"none"}]
      /\ \A d \in Conns : d # c => gstate'[d] = gstate[d] /\ entered'[d] = entered[d]
      /\ entered'[c] <= 1
      /\ gstate[c] # "none" => gstate'[c] # "none"
  <2>1. entered \in [Conns -> Nat] /\ gstate \in [Conns -> States \cup {"none"}]
    BY DEF NInv, Typed
  <2>2. /\ entered' \in [Conns -> Nat] /\ entered'[c] <= 1
        /\ \A d \in Conns : d # c => entered'[d] = entered[d]
    BY <1>3, <1>4, <2>1
  <2>3. /\ gstate' \in [Conns -> States \cup {"none"}]
        /\ \A d \in Conns : d # c => gstate'[d] = gstate[d]
        /\ gstate[c] # "none" => gstate'[c] # "none"
    <3>1. CASE gstate' = gstate
      BY <2>1, <3>1
    <3>2. CASE gstate' = [gstate EXCEPT ![c] = "Play"]
      BY <1>1, <2>1, <3>2
    <3> QED BY <1>2, <3>1, <3>2
  <2> QED BY <2>2, <2>3
<1>7. Typed'
  BY <1>1, <1>2, <1>5, <1>6, ReceiveTyped DEF NInv, Typed
<1>8. conn_states[c] # "none" => Stage(gstate'[c]) <= Stage(conn_states[c])
  <2>1. CASE gstate' = gstate
    BY <2>1 DEF NInv, Sane, Tagged
  <2>2. CASE gstate' = [gstate EXCEPT ![c] = "Play"]
    <3>1. gstate'[c] = "Play"
      BY <2>2 DEF NInv, Typed
    <3> QED BY <1>1, <3>1, ReceiveFacts
  <2> QED BY <1>2, <2>1, <2>2
<1>9. OnlyOf(c)
  BY <1>2, <1>6 DEF OnlyOf
<1>10. Owned(c)'
  BY <1>1, <1>2, <1>6 DEF NInv, Sane, Owned, Receive
<1>11. c \in joined' => c \in players' /\ Beyond(c, 3)'
  BY <1>1, <1>2, ReceiveFacts, BeyondKept DEF NInv, Sane, Once
<1>12. Beyond(c, 5)'
  BY <1>1, BeyondKept, StagesAreNumbers
<1>13. entered'[c] # 0 => c \in joined'
  BY <1>2, <1>3, <1>4 DEF NInv, Sane, Owned
<1> QED BY <1>1, <1>6, <1>7, <1>8, <1>9, <1>10, <1>11, <1>12, <1>13, HandledKeeps

\* The close is handled: nothing of the connection is in line behind it, so
\* nothing brings back what the handler took away.
LEMMA ClosedKeeps ==
  ASSUME NInv, NEW c \in Conns, HandleClosed(c)
  PROVE  NInv'
<1> DEFINE h == Closed(c)
<1>1. /\ inbound \in Seq(Message) /\ inbound # <<>> /\ Orderly(inbound)
      /\ Head(inbound) = h /\ inbound' = Tail(inbound)
  BY DEF NInv, Typed, HandleClosed
<1>2. h.type = "Closed" /\ h.conn = c /\ h.type # "Packet"
  BY DEF Closed
<1> HIDE DEF h
<1>3. /\ inbound' \in Seq(Message) /\ Len(inbound') < Len(inbound) /\ Orderly(inbound')
      /\ h \in Of(inbound, c)
      /\ \A d : d # c => Of(inbound', d) = Of(inbound, d)
      /\ \A m \in Of(inbound', c) : MayFollow(h, m)
  BY <1>1, <1>2, LineShortened
<1>4. Of(inbound', c) = {}
  BY <1>2, <1>3 DEF MayFollow
<1>5. reader[c] \in Past /\ (c \in joined => c \in players)
  BY <1>2, <1>3 DEF NInv, Sane, Tagged, Once
<1>6. /\ players' = players \ (bound \cap {c}) /\ bound' = bound \ {c}
      /\ clients' = clients \ {c}
      /\ gstate' = [gstate EXCEPT ![c] = "none"]
      /\ quit' = [quit EXCEPT ![c] = IF c \in bound THEN @ + 1 ELSE @]
      /\ urgent' = [urgent EXCEPT ![c] = <<>>]
      /\ UNCHANGED <<up, fin, reader, conn_states, outbound, out, joined, entered, swept>>
  BY DEF HandleClosed
<1>7. Typed'
  <2>1. Len(inbound') <= InCap
    BY <1>1, <1>3, LenProperties, InCapAssumption DEF NInv, Typed
  <2>2. urgent' \in [Conns -> Seq(ServerKinds)]
    <3>1. <<>> \in Seq(ServerKinds)
      BY EmptySeq
    <3> QED BY <1>6, <3>1 DEF NInv, Typed
  <2>3. quit' \in [Conns -> Nat] /\ gstate' \in [Conns -> States \cup {"none"}]
    BY <1>6 DEF NInv, Typed
  <2>4. bound' \cup clients' \cup players' \cup joined' \cup outbound' \cup fin' \subseteq Conns
    BY <1>6 DEF NInv, Typed
  <2>5. UNCHANGED <<up, reader, conn_states, out, entered>>
    BY <1>6
  <2> QED BY <1>3, <2>1, <2>2, <2>3, <2>4, <2>5 DEF NInv, Typed
<1>8. ASSUME NEW d \in Conns
      PROVE  Sane(d)'
  <2>1. CASE d # c
    BY <1>3, <1>6, <2>1, UnmovedSane DEF NInv, Typed, Unmoved
  <2>2. CASE d = c
    <3>1. /\ gstate'[c] = "none" /\ c \notin bound' /\ c \notin clients'
          /\ c \notin players' /\ reader'[c] = reader[c]
      BY <1>6 DEF NInv, Typed, Sane, Owned
    <3>2. Tagged(c)'
      <4>1. reader[c] \notin {"absent", "reading"}
        BY <1>5 DEF Past
      <4>2. conn_states[c] # "none" => Stage("none") <= Stage(conn_states[c])
        <5>1. \A t \in States : Stage("none") <= Stage(t)
          BY DEF States, Stage
        <5> QED BY <5>1 DEF NInv, Typed
      <4> QED BY <1>4, <1>6, <3>1, <4>1, <4>2 DEF Tagged
    <3>3. Owned(c)'
      BY <3>1 DEF Owned
    <3>4. Once(c)'
      <4>1. \A l : Beyond(c, l) => Beyond(c, l)'
        BY <1>4, <1>6 DEF Beyond
      <4>2. c \in joined <=> c \in bound
        BY <1>5 DEF NInv, Sane, Owned
      <4>3. quit'[c] = IF c \in joined THEN 1 ELSE 0
        BY <1>5, <1>6, <4>2 DEF NInv, Typed, Sane, Once
      <4> QED BY <1>4, <1>5, <1>6, <3>1, <4>1, <4>3 DEF NInv, Sane, Once
    <3>5. Cleared(c)'
      BY <1>4, <3>1 DEF Cleared
    <3> QED BY <2>2, <3>2, <3>3, <3>4, <3>5 DEF Sane
  <2> QED BY <2>1, <2>2
<1> QED BY <1>3, <1>7, <1>8 DEF NInv

\* tick_begin throws a frame away: the connection goes on as if it had never
\* been sent, and a lost report of a close is remembered in swept.
LEMMA DiscardKeeps ==
  ASSUME NInv, TickBeginDiscard
  PROVE  NInv'
<1> DEFINE h == Head(inbound)
           c == h.conn
<1>1. /\ inbound \in Seq(Message) /\ inbound # <<>> /\ Orderly(inbound)
      /\ inbound' = Tail(inbound)
      /\ swept' = swept \cup {<<h.type, c>>}
      /\ UNCHANGED <<up, fin, reader, conn_states, outbound, out, gstate, bound, clients,
                     urgent, players, joined, quit, entered>>
  BY DEF NInv, Typed, TickBeginDiscard
<1>2. /\ inbound' \in Seq(Message) /\ Len(inbound') < Len(inbound) /\ Orderly(inbound')
      /\ h \in Message /\ h \in Of(inbound, c)
      /\ \A d : Of(inbound', d) \subseteq Of(inbound, d)
      /\ \A d : \A m \in Of(inbound, d) : m = h \/ m \in Of(inbound', d)
      /\ \A d : d # c => Of(inbound', d) = Of(inbound, d)
  BY <1>1, LineShortened
<1> HIDE DEF h
<1>3. Typed'
  <2>1. Len(inbound') <= InCap
    BY <1>1, <1>2, LenProperties, InCapAssumption DEF NInv, Typed
  <2> QED BY <1>1, <1>2, <2>1 DEF NInv, Typed
<1>4. ASSUME NEW d \in Conns
      PROVE  Sane(d)'
  <2>1. CASE d # c
    <3>1. <<"Closed", d>> \in swept' <=> <<"Closed", d>> \in swept
      BY <1>1, <2>1
    <3> QED BY <1>1, <1>2, <2>1, <3>1, UnmovedSane DEF NInv, Unmoved
  <2>2. CASE d = c
    <3>1. Tagged(d)'
      BY <1>1, <1>2 DEF NInv, Sane, Tagged
    <3>2. Owned(d)'
      BY <1>1 DEF NInv, Sane, Owned
    <3>3. \A l : Beyond(d, l) => Beyond(d, l)'
      BY <1>1, <1>2 DEF Beyond
    <3>4. Once(d)'
      BY <1>1, <1>2, <3>3 DEF NInv, Sane, Once
    <3>5. Cleared(d)'
      <4> SUFFICES ASSUME reader[d] \in Past, \A m \in Of(inbound', d) : m.type # "Closed",
                          <<"Closed", d>> \notin swept'
                   PROVE  FALSE
        BY <1>1 DEF Cleared
      <4>1. h.type # "Closed" /\ <<"Closed", d>> \notin swept
        BY <1>1, <2>2
      <4>2. \A m \in Of(inbound, d) : m.type # "Closed"
        BY <1>2, <4>1
      <4>3. Of(inbound, d) = {}
        BY <4>1, <4>2 DEF NInv, Sane, Cleared
      <4> QED BY <1>2, <2>2, <4>3
    <3> QED BY <3>1, <3>2, <3>4, <3>5 DEF Sane
  <2> QED BY <2>1, <2>2
<1> QED BY <1>2, <1>3, <1>4 DEF NInv

\* A step that leaves the connections to themselves.
LEMMA ApartKeeps ==
  ASSUME NInv, Typed',
         UNCHANGED <<reader, conn_states, gstate, bound, clients, players, joined, quit,
                     entered, inbound, swept>>
  PROVE  NInv'
<1>1. \A d \in Conns : Sane(d)'
  BY UnmovedSane DEF NInv, Unmoved
<1> QED BY <1>1 DEF NInv, Orderly

\* A frame is flushed to the channel of its connection.
LEMMA FlushKeeps ==
  ASSUME NInv, NEW c \in Conns, FlushFrame(c)
  PROVE  NInv'
<1> DEFINE z == c \in deflate
           m == Frame(Head(urgent[c]), z)
           q == TrySend(c, out[c], m)
<1>1. /\ out \in [Conns -> Seq(Wire)] /\ \A d \in Conns : Len(out[d]) <= OutCap
      /\ urgent \in [Conns -> Seq(ServerKinds)] /\ urgent[c] \in Seq(ServerKinds)
      /\ urgent[c] # <<>>
  BY DEF NInv, Typed, FlushFrame
<1>2. Head(urgent[c]) \in ServerKinds /\ Tail(urgent[c]) \in Seq(ServerKinds)
  BY <1>1, HeadTailProperties
<1>3. z \in BOOLEAN
  OBVIOUS
<1>4. out' = [out EXCEPT ![c] = q] /\ urgent' = [urgent EXCEPT ![c] = Tail(urgent[c])]
  BY DEF FlushFrame
<1> HIDE DEF z
<1>5. m \in Wire
  BY <1>2, <1>3 DEF Frame, Wire
<1> HIDE DEF m
<1>6. q \in Seq(Wire) /\ Len(q) <= OutCap
  BY <1>1, <1>5, TrySendTyped
<1> HIDE DEF q
<1>7. out' \in [Conns -> Seq(Wire)] /\ \A d \in Conns : Len(out'[d]) <= OutCap
  <2>1. \A d \in Conns : out'[d] = IF d = c THEN q ELSE out[d]
    BY <1>1, <1>4
  <2>2. out' \in [Conns -> Seq(Wire)]
    BY <1>1, <1>4, <1>6
  <2> QED BY <1>1, <1>6, <2>1, <2>2
<1>8. Typed'
  <2>1. urgent' \in [Conns -> Seq(ServerKinds)]
    BY <1>1, <1>2, <1>4
  <2>2. UNCHANGED <<up, fin, reader, conn_states, inbound, outbound, gstate, bound,
                    clients, players, joined, quit, entered>>
    BY DEF FlushFrame
  <2> QED BY <1>7, <2>1, <2>2 DEF NInv, Typed
<1> QED BY <1>8, ApartKeeps DEF FlushFrame

----------------------------------------------------------------------------
(* Clients *)

\* Whatever a client does reaches the game as frames only.
LEMMA ClientKeeps ==
  ASSUME NInv, NEW c \in Conns, ClientStep(c) \/ Connect(c) \/ Leave(c)
  PROVE  NInv'
<1> DEFINE Upward == [kind : ClientKinds, z : BOOLEAN]
<1>1. up \in [Conns -> Seq(Upward)] /\ <<>> \in Seq(Upward)
  BY EmptySeq DEF NInv, Typed
<1>2. ASSUME NEW from, NEW k \in ClientKinds, NEW to, Send(c, from, k, to)
      PROVE  up' \in [Conns -> Seq(Upward)] /\ ClientSame
  <2> DEFINE z == c \in cz
             m == Frame(k, z)
  <2>1. z \in BOOLEAN
    OBVIOUS
  <2>2. up' = [up EXCEPT ![c] = Append(up[c], m)] /\ ClientSame
    BY <1>2 DEF Send
  <2> HIDE DEF z
  <2>3. m \in Upward
    BY <2>1 DEF Frame
  <2> HIDE DEF m, Upward
  <2>4. Append(up[c], m) \in Seq(Upward)
    BY <1>1, <2>3, AppendProperties
  <2> QED BY <1>1, <2>2, <2>4
<1>3. ClientSame /\ up' \in [Conns -> Seq(Upward)]
  <2> HIDE DEF Upward
  <2>1. /\ StatusIntents \cup LoginIntents \subseteq ClientKinds
        /\ {"StatusRequest", "Ping", "Hello", "Ack", "ClientInformation", "Move"} \subseteq ClientKinds
    BY DEF ClientKinds
  <2>2. CASE SendStatus(c)
    <3>1. \E from, to : \E k \in ClientKinds : Send(c, from, k, to)
      <4>1. \A k : k \in Intents[c] \cap StatusIntents => k \in ClientKinds
        BY <2>1
      <4> QED BY <2>1, <2>2, <4>1, ZenonT(60) DEF SendStatus
    <3> QED BY <1>2, <3>1
  <2>3. CASE SendLogin(c)
    <3>1. \E from, to : \E k \in ClientKinds : Send(c, from, k, to)
      <4>1. \A k : k \in Intents[c] \cap LoginIntents => k \in ClientKinds
        BY <2>1
      <4> QED BY <2>1, <2>3, <4>1, ZenonT(60) DEF SendLogin
    <3> QED BY <1>2, <3>1
  <2>4. CASE SendMove(c)
    <3>1. \E from, to : \E k \in ClientKinds : Send(c, from, k, to)
      BY <2>1, <2>4 DEF SendMove
    <3> QED BY <1>2, <3>1
  <2>5. CASE Read(c)
    BY <1>1, <2>5 DEF Read
  <2>6. CASE Connect(c)
    BY <1>1, <2>6 DEF Connect
  <2>7. CASE Leave(c)
    BY <1>1, <2>7 DEF Leave
  <2> QED BY <2>2, <2>3, <2>4, <2>5, <2>6, <2>7 DEF ClientStep
<1>4. Typed'
  BY <1>3 DEF NInv, Typed, ClientSame, gvars
<1> QED BY <1>3, <1>4, ApartKeeps DEF ClientSame, gvars

----------------------------------------------------------------------------
(* Theorems *)

\* Every step of the tick keeps connections sane.
LEMMA GameKeeps ==
  ASSUME NInv, GameStep
  PROVE  NInv'
<1>1. ASSUME NEW c \in Conns, NEW s \in States, NEW k \in ClientKinds, Undispatched(c, s, k)
      PROVE  NInv'
  BY <1>1, IgnoredKeeps
<1>2. ASSUME NEW c \in Conns, NEW k \in ClientKinds, HandleIntention(c, k) \/ HandleStatus(c, k)
      PROVE  NInv'
  BY <1>2, IntentionKeeps, AnsweredKeeps
<1>3. ASSUME NEW c \in Conns, HelloIgnored(c) \/ HandlePlayerPosition(c)
      PROVE  NInv'
  <2>1. "Login" \in States
    BY DEF States
  <2> QED BY <1>3, <2>1, IgnoredKeeps
<1>4. ASSUME NEW c \in Conns, HandleHello(c) \/ HandleLoginAcknowledged(c)
      PROVE  NInv'
  BY <1>4, HelloKeeps, AcknowledgedKeeps
<1>5. ASSUME NEW c \in Conns, HandleClientInformation(c) \/ HandleFinishConfiguration(c)
      PROVE  NInv'
  BY <1>5, AnsweredKeeps, FinishKeeps
<1>6. ASSUME NEW c \in Conns, HandleClosed(c) \/ FlushFrame(c)
      PROVE  NInv'
  BY <1>6, ClosedKeeps, FlushKeeps
<1>7. CASE ReceiveEnds \/ TickBegin
  <2>1. UNCHANGED <<lvars, gstate, bound, clients, players, joined, quit, entered, swept>>
    BY <1>7 DEF ReceiveEnds, TickBegin
  <2>2. urgent' \in [Conns -> Seq(ServerKinds)]
    <3>1. urgent \in [Conns -> Seq(ServerKinds)] /\ Spawning \subseteq ServerKinds
      BY DEF NInv, Typed, ServerKinds, Spawning
    <3>2. TickBegin => urgent' = urgent
      BY DEF TickBegin
    <3> QED BY <1>7, <3>1, <3>2, SystemsSend
  <2>3. Typed'
    BY <2>1, <2>2 DEF NInv, Typed, lvars
  <2> QED BY <2>1, <2>3, ApartKeeps DEF lvars
<1>8. CASE TickBeginDiscard
  BY <1>8, DiscardKeeps
<1> QED BY <1>1, <1>2, <1>3, <1>4, <1>5, <1>6, <1>7, <1>8 DEF GameStep

\* Every step of a connection's tasks keeps connections sane.
LEMMA ListenerKeeps ==
  ASSUME NInv, NEW c \in Conns, ListenerStep(c)
  PROVE  NInv'
<1>1. GameSame
  BY DEF ListenerStep, gvars, GameSame
<1>2. CASE Accept(c) \/ RemoveOutbound(c) \/ AbortWriter(c)
  BY <1>1, <1>2, AcceptKeeps, RemoveOutboundKeeps, AbortWriterKeeps
<1>3. CASE DropGarbled(c) \/ ReadEnds(c) \/ WriterStep(c)
  BY <1>1, <1>3, DropGarbledKeeps, ReadEndsKeeps, WriterKeeps
<1>4. CASE ProcessFrame(c) \/ SendClosed(c)
  BY <1>1, <1>4, ProcessFrameKeeps, SendClosedKeeps
<1> QED BY <1>2, <1>3, <1>4 DEF ListenerStep

\* The inductive invariant: at every moment each connection is sane, and the
\* frames of each are in order.
THEOREM ConnectionsSane == NSpec => []NInv
<1>1. NInit => NInv
  BY InitSane
<1>2. NInv /\ [NNext]_nvars => NInv'
  <2> SUFFICES ASSUME NInv, [NNext]_nvars
               PROVE  NInv'
    OBVIOUS
  <2>1. CASE UNCHANGED nvars
    <3>1. Typed'
      BY <2>1 DEF NInv, Typed, nvars, lvars, gvars
    <3> QED BY <2>1, <3>1, ApartKeeps DEF nvars, lvars, gvars
  <2>2. CASE GameStep
    BY <2>2, GameKeeps
  <2>3. ASSUME NEW c \in Conns, ListenerStep(c)
        PROVE  NInv'
    BY <2>3, ListenerKeeps
  <2>4. ASSUME NEW c \in Conns, ClientStep(c) \/ Connect(c) \/ Leave(c)
        PROVE  NInv'
    BY <2>4, ClientKeeps
  <2> QED BY <2>1, <2>2, <2>3, <2>4 DEF NNext
<1> QED BY <1>1, <1>2, PTL DEF NSpec

\* Channels, tables and sets stay what they are (listener.rs, network_receive.rs).
THEOREM TypeCorrect == NSpec => []NTypeOK
<1>1. NInv => NTypeOK
  BY DEF NInv, Typed, NTypeOK, Message
<1> QED BY <1>1, ConnectionsSane, PTL

\* Whatever clients do and whichever frames are dropped, a player belongs to a
\* connection and a connection's entity is alive (network_receive.rs:68-88,
\* 355-362).
THEOREM NoPlayerLeftBehind == NSpec => []PlayersOwned
<1>1. NInv => PlayersOwned
  <2> SUFFICES ASSUME NInv
               PROVE  PlayersOwned
    OBVIOUS
  <2>1. players \subseteq Conns /\ bound \subseteq Conns
    BY DEF NInv, Typed
  <2>2. \A c \in Conns : (c \in players <=> c \in bound)
          /\ (c \in players => gstate[c] # "none" /\ c \in clients)
    BY DEF NInv, Sane, Owned
  <2>3. players = bound
    BY <2>1, <2>2
  <2> QED BY <2>1, <2>2, <2>3 DEF PlayersOwned
<1> QED BY <1>1, ConnectionsSane, PTL

\* After the close of a connection has been handled nothing of it is left, nor
\* comes back: no frame of it is ever behind the report (network_receive.rs:68-91, 98).
THEOREM NothingOutlivesTheClose == NSpec => []NoGhost
<1>1. NInv => NoGhost
  <2> SUFFICES ASSUME NInv, NEW c \in Conns
               PROVE
         /\ \A i, j \in DOMAIN inbound :
              inbound[i] = Closed(c) /\ i < j => inbound[j].conn # c
         /\ reader[c] \in {"unmapping", "aborting", "done"}
              /\ (\A i \in DOMAIN inbound : inbound[i] # Closed(c))
              /\ <<"Closed", c>> \notin swept
            => gstate[c] = "none" /\ c \notin clients \cup bound \cup players
    BY DEF NoGhost
  <2>1. DOMAIN inbound = 1 .. Len(inbound) /\ inbound \in Seq(Message)
    BY LenProperties DEF NInv, Typed
  <2>2. Closed(c).type = "Closed" /\ Closed(c).conn = c /\ Closed(c).type # "Packet"
    BY DEF Closed
  <2>3. ASSUME NEW i \in DOMAIN inbound, NEW j \in DOMAIN inbound,
               inbound[i] = Closed(c), i < j, inbound[j].conn = c
        PROVE  FALSE
    <3>1. MayFollow(inbound[i], inbound[j])
      BY <2>1, <2>2, <2>3 DEF NInv, Orderly
    <3> QED BY <2>2, <2>3, <3>1 DEF MayFollow
  <2>4. ASSUME reader[c] \in Past, \A i \in DOMAIN inbound : inbound[i] # Closed(c),
               <<"Closed", c>> \notin swept
        PROVE  gstate[c] = "none" /\ c \notin clients \cup bound \cup players
    <3>1. ASSUME NEW m \in Of(inbound, c), m.type = "Closed"
          PROVE  FALSE
      <4>1. m \in Message /\ m.conn = c
        BY <2>1, FramesInLine
      <4>2. m = Closed(c)
        BY <3>1, <4>1 DEF Message, Closed
      <4>3. PICK i \in 1 .. Len(inbound) : m = inbound[i]
        BY DEF Of
      <4> QED BY <2>1, <2>4, <4>2, <4>3
    <3> QED BY <2>4, <3>1 DEF NInv, Sane, Cleared
  <2> QED BY <2>3, <2>4 DEF Past
<1> QED BY <1>1, ConnectionsSane, PTL

\* PlayerJoin and PlayerQuit pair up and EnterPlay comes once, in between,
\* whichever frames are dropped (network_receive.rs:85, 360, 664).
THEOREM EventsPairUp == NSpec => []EventsPaired
<1>1. NInv => EventsPaired
  <2> SUFFICES ASSUME NInv, NEW c \in Conns
               PROVE  /\ quit[c] = IF c \in joined \ players THEN 1 ELSE 0
                      /\ players \subseteq joined
                      /\ entered[c] <= IF c \in joined THEN 1 ELSE 0
    BY DEF EventsPaired
  <2>1. players \subseteq joined
    BY DEF NInv, Typed, Sane, Owned
  <2>2. entered[c] \in Nat
    BY DEF NInv, Typed
  <2>3. /\ quit[c] = IF c \in joined \ players THEN 1 ELSE 0
        /\ entered[c] <= 1 /\ (entered[c] # 0 => c \in joined)
    BY DEF NInv, Sane, Once
  <2> QED BY <2>1, <2>2, <2>3
<1> QED BY <1>1, ConnectionsSane, PTL

\* The game's state of a connection never passes the listener's, so a tag is
\* never older than what the game believes.
THEOREM GameNeverAhead == NSpec => []GameBehindListener
<1>1. NInv => GameBehindListener
  BY DEF NInv, Sane, Tagged, GameBehindListener
<1> QED BY <1>1, ConnectionsSane, PTL

----------------------------------------------------------------------------
(***************************************************************************)
(* Proofs about the formats of frames in Network: with channels that take  *)
(* the three messages of a login, every frame is read in the format it was *)
(* written in, in both directions, for any connections, intents and        *)
(* clients that stop or leave at any time.  On its way to the client       *)
(* LoginCompression is a seam between the plain and the packed frames      *)
(* (Seam, Format).  That there is only one rests on the client: it says    *)
(* Hello once and sends nothing until it is answered (Polite), so nothing  *)
(* but a refusal is queued for it before (Waits).                          *)
(***************************************************************************)

Steps == {"connect", "intend", "request", "ping", "await status", "await ping", "done",
          "hello", "await success", "acknowledge", "inform", "configure", "finish",
          "join", "play", "refused", "left"}

\* What the game queues, that which network_receive sends itself excepted.
Queued == ServerKinds \ {"LoginCompression", "EnableCompression"}

Upward == [kind : ClientKinds, z : BOOLEAN]

FTyped ==
  /\ step \in [Conns -> Steps]
  /\ peer \in [Conns -> {"absent", "open", "closed"}]
  /\ writer \in [Conns -> {"absent", "running", "done"}]
  /\ down \in [Conns -> Seq(Wire)]
  /\ urgent \in [Conns -> Seq(Queued)]
  /\ inflate \in [Conns -> BOOLEAN]

----------------------------------------------------------------------------
(* The client *)

IsHello(m) == m.type = "Packet" /\ m.kind = "Hello"

\* Only the report of the close follows a Hello.
HelloLast(q) ==
  \A i, j \in 1 .. Len(q) :
    i < j /\ q[i].conn = q[j].conn /\ IsHello(q[i]) => q[j].type = "Closed"

HelloSent(c) == \E i \in 1 .. Len(up[c]) : up[c][i].kind = "Hello"
HelloRead(c) == \E m \in Of(inbound, c) : IsHello(m)

\* The client may still be let in.
Unserved(c) == step[c] \in {"connect", "intend", "hello"} \/ HelloSent(c) \/ HelloRead(c)

\* How the tasks of a connection follow its two ends.
Ends(c) ==
  /\ peer[c] = "absent" => step[c] = "connect" /\ reader[c] = "absent"
  /\ step[c] = "connect" => peer[c] = "absent"
  /\ peer[c] = "closed" <=> step[c] = "left"
  /\ reader[c] \in {"closing"} \cup Past => peer[c] = "closed"
  /\ reader[c] = "absent" => out[c] = <<>> /\ urgent[c] = <<>>
  /\ reader[c] = "reading" /\ peer[c] # "closed" => writer[c] = "running" /\ c \in outbound
  /\ c \in deflate => Compress

\* The client says Hello once and then waits.
Polite(c) ==
  /\ step[c] \in {"connect", "intend"} => up[c] = <<>> /\ Of(inbound, c) = {}
  /\ step[c] = "hello" => ~HelloSent(c) /\ ~HelloRead(c)
  /\ HelloSent(c) \/ HelloRead(c) => step[c] \in {"await success", "refused", "left"}
  /\ \A i \in 1 .. Len(up[c]) : up[c][i].kind = "Hello" => i = Len(up[c]) /\ ~HelloRead(c)
  /\ HelloRead(c) => up[c] = <<>>

Asking(k) == k \in LoginIntents \cup {"Hello"}
Refusals(s) == \A i \in 1 .. Len(s) : s[i].kind = "LoginDisconnect"

\* Nothing but a refusal is on the way to a client that may still be let in, and
\* a refused one is not.
Waits(c) ==
  Unserved(c) =>
    /\ \A i \in 1 .. Len(up[c]) : Asking(up[c][i].kind)
    /\ \A m \in Of(inbound, c) : m.type = "Packet" => Asking(m.kind)
    /\ c \notin deflate
    /\ Refusals(down[c]) /\ Refusals(out[c])
    /\ \A i \in 1 .. Len(urgent[c]) : urgent[c][i] = "LoginDisconnect"
    /\ \/ urgent[c] = <<>> /\ out[c] = <<>>
       \/ gstate[c] = "none" /\ Beyond(c, 2)

----------------------------------------------------------------------------
(* Formats *)

Plain(s) ==
  \A i \in 1 .. Len(s) :
    s[i].z = FALSE /\ s[i].kind \notin {"LoginCompression", "EnableCompression"}

Packed(s) == \A i \in 1 .. Len(s) : s[i].z = TRUE

\* Plain frames up to and including LoginCompression, then packed ones; the order
\* to the write task may stand at the head of them.
Seam(s) ==
  \E n \in 1 .. Len(s) :
    /\ s[n].kind = "LoginCompression"
    /\ \A i \in 1 .. n : s[i].z = FALSE /\ (i < n => s[i].kind # "LoginCompression")
    /\ \A i \in n + 1 .. Len(s) : s[i].z = TRUE

Ordered(s) == \A i \in 2 .. Len(s) : s[i].kind # "EnableCompression"

Format(c) ==
  peer[c] # "closed" =>
    \/ /\ c \notin deflate /\ c \notin cz /\ ~inflate[c]
       /\ Plain(down[c]) /\ Plain(out[c])
    \/ /\ c \in deflate /\ c \notin cz
       /\ inflate[c] \/ Head(out[c]) = EnableCompression
       /\ Plain(down[c]) /\ Seam(out[c]) /\ Ordered(out[c])
    \/ /\ c \in deflate /\ c \notin cz /\ inflate[c]
       /\ Seam(down[c]) /\ Packed(out[c])
    \/ /\ c \in deflate /\ c \in cz /\ inflate[c]
       /\ Packed(down[c]) /\ Packed(out[c])

\* What a client sends that waits for LoginCompression.
Incoming(c) ==
  /\ \A i \in 1 .. Len(up[c]) : up[c][i].z = inflate[c]
  /\ (\E i \in 1 .. Len(out[c]) : out[c][i] = EnableCompression) => up[c] = <<>>
  /\ peer[c] = "open" /\ c \in deflate /\ c \notin cz =>
       step[c] \in {"await success", "acknowledge", "refused"}

Parts(c) == Ends(c) /\ Polite(c) /\ Waits(c) /\ Format(c) /\ (c \notin Eager => Incoming(c))

FInv == FTyped /\ HelloLast(inbound) /\ \A c \in Conns : Parts(c)

----------------------------------------------------------------------------
(* Sequences of frames *)

\* A sequence without its head.
LEMMA TailFacts ==
  ASSUME NEW S, NEW s \in Seq(S), s # <<>>
  PROVE  /\ Tail(s) \in Seq(S) /\ Head(s) \in S /\ Head(s) = s[1]
         /\ Len(s) \in Nat /\ Len(s) >= 1 /\ Len(Tail(s)) = Len(s) - 1
         /\ \A i \in 1 .. Len(s) - 1 : Tail(s)[i] = s[i + 1]
  BY HeadTailProperties, EmptySeq, LenProperties

\* A sequence with one more element.
LEMMA AppendFacts ==
  ASSUME NEW S, NEW s \in Seq(S), NEW m \in S
  PROVE  /\ Append(s, m) \in Seq(S) /\ Append(s, m) # <<>>
         /\ Len(s) \in Nat /\ Len(Append(s, m)) = Len(s) + 1
         /\ Append(s, m)[Len(s) + 1] = m
         /\ \A i \in 1 .. Len(s) : Append(s, m)[i] = s[i]
  BY AppendProperties, LenProperties

\* The frame at the head of a channel and those behind it.
LEMMA HeadOfWire ==
  ASSUME NEW s \in Seq(Wire), s # <<>>
  PROVE  /\ Plain(s) => /\ Plain(Tail(s)) /\ Head(s).z = FALSE
                        /\ Head(s).kind \notin {"LoginCompression", "EnableCompression"}
         /\ Packed(s) => Packed(Tail(s)) /\ Head(s).z = TRUE
         /\ Refusals(s) => Refusals(Tail(s)) /\ Head(s).kind = "LoginDisconnect"
         /\ Ordered(s) => \A i \in 1 .. Len(Tail(s)) : Tail(s)[i].kind # "EnableCompression"
<1> DEFINE n == Len(s) - 1
           t == Tail(s)
<1>1. /\ n \in Nat /\ Len(t) = n /\ Len(s) = n + 1 /\ Head(s) = s[1]
      /\ \A i \in 1 .. n : t[i] = s[i + 1]
  BY TailFacts
<1> HIDE DEF n, t
<1>2. 1 \in 1 .. Len(s) /\ \A i \in 1 .. n : i + 1 \in 1 .. Len(s) /\ i + 1 \in 2 .. Len(s)
  BY <1>1
<1>3. /\ Plain(s) => Plain(t) /\ s[1].z = FALSE
                     /\ s[1].kind \notin {"LoginCompression", "EnableCompression"}
      /\ Packed(s) => Packed(t) /\ s[1].z = TRUE
      /\ Refusals(s) => Refusals(t) /\ s[1].kind = "LoginDisconnect"
      /\ Ordered(s) => \A i \in 1 .. Len(t) : t[i].kind # "EnableCompression"
  BY <1>1, <1>2 DEF Plain, Packed, Refusals, Ordered
<1> QED BY <1>1, <1>3 DEF t

\* The head of a seam is plain; the seam is at the head or further on.
LEMMA HeadOfSeam ==
  ASSUME NEW s \in Seq(Wire), Seam(s)
  PROVE  /\ s # <<>> /\ Head(s).z = FALSE
         /\ Head(s).kind = "LoginCompression" => Packed(Tail(s))
         /\ Head(s).kind # "LoginCompression" => Seam(Tail(s))
<1>0. PICK n \in 1 .. Len(s) :
        /\ s[n].kind = "LoginCompression"
        /\ \A i \in 1 .. n : s[i].z = FALSE /\ (i < n => s[i].kind # "LoginCompression")
        /\ \A i \in n + 1 .. Len(s) : s[i].z = TRUE
  BY DEF Seam
<1>1. s # <<>> /\ Len(s) \in Nat /\ n \in Nat /\ 1 <= n /\ n <= Len(s)
  BY EmptySeq, LenProperties
<1>2. /\ Head(s) = s[1] /\ Len(Tail(s)) = Len(s) - 1
      /\ \A i \in 1 .. Len(s) - 1 : Tail(s)[i] = s[i + 1]
  BY <1>1, TailFacts
<1>3. s[1].z = FALSE
  BY <1>0, <1>1
<1>4. CASE n = 1
  <2>1. Packed(Tail(s))
    BY <1>0, <1>1, <1>2, <1>4 DEF Packed
  <2> QED BY <1>0, <1>1, <1>2, <1>3, <1>4, <2>1
<1>5. CASE n > 1
  <2>1. s[1].kind # "LoginCompression"
    BY <1>0, <1>1, <1>5
  <2>2. /\ n - 1 \in 1 .. Len(Tail(s)) /\ Tail(s)[n - 1] = s[n]
        /\ \A i \in 1 .. n - 1 : i + 1 \in 1 .. n /\ Tail(s)[i] = s[i + 1]
        /\ \A i \in (n - 1) + 1 .. Len(Tail(s)) : i + 1 \in n + 1 .. Len(s) /\ Tail(s)[i] = s[i + 1]
    BY <1>1, <1>2, <1>5
  <2>3. Seam(Tail(s))
    <3>1. Tail(s)[n - 1].kind = "LoginCompression"
      BY <1>0, <2>2
    <3>2. \A i \in 1 .. n - 1 :
            Tail(s)[i].z = FALSE /\ (i < n - 1 => Tail(s)[i].kind # "LoginCompression")
      BY <1>0, <1>1, <2>2
    <3>3. \A i \in (n - 1) + 1 .. Len(Tail(s)) : Tail(s)[i].z = TRUE
      BY <1>0, <2>2
    <3> QED BY <2>2, <3>1, <3>2, <3>3 DEF Seam
  <2> QED BY <1>1, <1>2, <1>3, <2>1, <2>3
<1>6. n = 1 \/ n > 1
  BY <1>1
<1> QED BY <1>4, <1>5, <1>6, Zenon

\* What a frame makes of the channel it is put into.
LEMMA WireExtended ==
  ASSUME NEW s \in Seq(Wire), NEW m \in Wire
  PROVE  /\ Plain(s) /\ m.z = FALSE /\ m.kind \notin {"LoginCompression", "EnableCompression"}
              => Plain(Append(s, m))
         /\ Packed(s) /\ m.z = TRUE => Packed(Append(s, m))
         /\ Refusals(s) /\ m.kind = "LoginDisconnect" => Refusals(Append(s, m))
         /\ Plain(s) /\ m.z = FALSE /\ m.kind = "LoginCompression" => Seam(Append(s, m))
         /\ Seam(s) /\ m.z = TRUE => Seam(Append(s, m))
         /\ Ordered(s) /\ s # <<>> /\ m.kind # "EnableCompression" => Ordered(Append(s, m))
         /\ s # <<>> => Head(Append(s, m)) = Head(s)
<1> DEFINE t == Append(s, m)
           l == Len(s)
<1>1. /\ t \in Seq(Wire) /\ t # <<>> /\ l \in Nat /\ Len(t) = l + 1 /\ t[l + 1] = m
      /\ \A i \in 1 .. l : t[i] = s[i]
  BY AppendFacts
<1>2. Head(t) = t[1] /\ (s # <<>> => Head(s) = s[1] /\ l >= 1)
  BY <1>1, TailFacts
<1> HIDE DEF t, l
<1>3. \A i \in 1 .. Len(t) : i = l + 1 \/ i \in 1 .. l
  BY <1>1
<1>4. Len(s) = l
  BY DEF l
<1>5. /\ Plain(s) /\ m.z = FALSE /\ m.kind \notin {"LoginCompression", "EnableCompression"}
           => Plain(t)
      /\ Packed(s) /\ m.z = TRUE => Packed(t)
      /\ Refusals(s) /\ m.kind = "LoginDisconnect" => Refusals(t)
  BY <1>1, <1>3, <1>4 DEF Plain, Packed, Refusals
<1>6. ASSUME Plain(s), m.z = FALSE, m.kind = "LoginCompression"
      PROVE  Seam(t)
  <2>1. l + 1 \in 1 .. Len(t) /\ t[l + 1].kind = "LoginCompression"
    BY <1>1, <1>6
  <2>2. \A i \in 1 .. l + 1 : t[i].z = FALSE /\ (i < l + 1 => t[i].kind # "LoginCompression")
    BY <1>1, <1>4, <1>6 DEF Plain
  <2>3. \A i \in (l + 1) + 1 .. Len(t) : t[i].z = TRUE
    BY <1>1
  <2> QED BY <2>1, <2>2, <2>3 DEF Seam
<1>7. ASSUME Seam(s), m.z = TRUE
      PROVE  Seam(t)
  <2>0. PICK n \in 1 .. l :
          /\ s[n].kind = "LoginCompression"
          /\ \A i \in 1 .. n : s[i].z = FALSE /\ (i < n => s[i].kind # "LoginCompression")
          /\ \A i \in n + 1 .. l : s[i].z = TRUE
    BY <1>4, <1>7 DEF Seam
  <2>1. n \in 1 .. Len(t) /\ t[n].kind = "LoginCompression"
    BY <1>1, <2>0
  <2>2. \A i \in 1 .. n : t[i].z = FALSE /\ (i < n => t[i].kind # "LoginCompression")
    BY <1>1, <2>0
  <2>3. \A i \in n + 1 .. Len(t) : t[i].z = TRUE
    <3> SUFFICES ASSUME NEW i \in n + 1 .. Len(t) PROVE t[i].z = TRUE
      OBVIOUS
    <3>1. i = l + 1 \/ i \in n + 1 .. l
      BY <1>1
    <3>2. i \in n + 1 .. l => i \in 1 .. l
      BY <1>1
    <3> QED BY <1>1, <1>7, <2>0, <3>1, <3>2
  <2> QED BY <2>1, <2>2, <2>3 DEF Seam
<1>8. ASSUME Ordered(s), s # <<>>, m.kind # "EnableCompression"
      PROVE  Ordered(t)
  BY <1>1, <1>2, <1>3, <1>4, <1>8 DEF Ordered
<1>9. s # <<>> => Head(t) = Head(s)
  BY <1>1, <1>2
<1> QED BY <1>5, <1>6, <1>7, <1>8, <1>9 DEF t

----------------------------------------------------------------------------
(* Lines and quiet connections *)

\* A line without its first message; what follows a Hello is the report of the close.
LEMMA HelloLastShortened ==
  ASSUME NEW q \in Seq(Message), q # <<>>, HelloLast(q)
  PROVE  /\ HelloLast(Tail(q))
         /\ IsHello(Head(q)) => \A m \in Of(Tail(q), Head(q).conn) : m.type = "Closed"
<1>1. /\ Len(q) \in Nat /\ Len(q) >= 1 /\ Len(Tail(q)) = Len(q) - 1 /\ Head(q) = q[1]
      /\ \A i \in 1 .. Len(q) - 1 : Tail(q)[i] = q[i + 1]
  BY TailFacts
<1>2. \A i \in 1 .. Len(Tail(q)) :
        i + 1 \in 1 .. Len(q) /\ 1 \in 1 .. Len(q) /\ 1 < i + 1 /\ Tail(q)[i] = q[i + 1]
  BY <1>1
<1>3. HelloLast(Tail(q))
  <2> SUFFICES ASSUME NEW i \in 1 .. Len(Tail(q)), NEW j \in 1 .. Len(Tail(q)), i < j,
                      Tail(q)[i].conn = Tail(q)[j].conn, IsHello(Tail(q)[i])
               PROVE  Tail(q)[j].type = "Closed"
    BY DEF HelloLast
  <2>1. i + 1 < j + 1
    BY <1>1
  <2> QED BY <1>2, <2>1 DEF HelloLast
<1>4. ASSUME IsHello(Head(q)), NEW m \in Of(Tail(q), Head(q).conn)
      PROVE  m.type = "Closed"
  <2>1. PICK i \in 1 .. Len(Tail(q)) : m = Tail(q)[i] /\ Tail(q)[i].conn = Head(q).conn
    BY DEF Of
  <2> QED BY <1>1, <1>2, <1>4, <2>1 DEF HelloLast
<1> QED BY <1>3, <1>4

\* A line with one more message, which may stand behind a Hello of its connection.
LEMMA HelloLastExtended ==
  ASSUME NEW q \in Seq(Message), HelloLast(q), NEW n \in Message,
         \A m \in Of(q, n.conn) : IsHello(m) => n.type = "Closed"
  PROVE  /\ HelloLast(Append(q, n))
         /\ Of(Append(q, n), n.conn) = Of(q, n.conn) \cup {n}
         /\ \A d : d # n.conn => Of(Append(q, n), d) = Of(q, d)
<1> DEFINE t == Append(q, n)
           l == Len(q)
<1>1. /\ l \in Nat /\ t \in Seq(Message) /\ Len(t) = l + 1 /\ t[l + 1] = n
      /\ \A i \in 1 .. l : t[i] = q[i]
  BY AppendFacts
<1> HIDE DEF t
<1>2. \A i \in 1 .. Len(t) : i = l + 1 \/ i \in 1 .. l
  BY <1>1
<1>3. \A i \in 1 .. l : i \in 1 .. Len(t)
  BY <1>1
<1>4. l + 1 \in 1 .. Len(t)
  BY <1>1
<1>5. HelloLast(t)
  <2> SUFFICES ASSUME NEW i \in 1 .. Len(t), NEW j \in 1 .. Len(t), i < j,
                      t[i].conn = t[j].conn, IsHello(t[i])
               PROVE  t[j].type = "Closed"
    BY DEF HelloLast
  <2>1. i \in 1 .. l
    BY <1>1
  <2>2. CASE j = l + 1
    <3>1. q[i] \in Of(q, n.conn)
      BY <1>1, <2>1, <2>2 DEF Of
    <3> QED BY <1>1, <2>1, <2>2, <3>1
  <2>3. CASE j \in 1 .. l
    BY <1>1, <2>1, <2>3 DEF HelloLast
  <2> QED BY <1>2, <2>2, <2>3
<1>6. ASSUME NEW d, NEW m
      PROVE  m \in Of(t, d) <=> m \in Of(q, d) \/ (m = n /\ n.conn = d)
  <2>1. m \in Of(t, d) <=> \E i \in 1 .. Len(t) : m = t[i] /\ t[i].conn = d
    BY DEF Of
  <2>2. m \in Of(q, d) <=> \E i \in 1 .. l : m = q[i] /\ q[i].conn = d
    BY DEF Of
  <2> QED BY <1>1, <1>2, <1>3, <1>4, <2>1, <2>2
<1>7. Of(t, n.conn) = Of(q, n.conn) \cup {n}
  BY <1>6
<1>8. ASSUME NEW d, d # n.conn
      PROVE  Of(t, d) = Of(q, d)
  <2>1. \A m : m \in Of(t, d) <=> m \in Of(q, d)
    BY <1>6, <1>8
  <2> QED BY <2>1
<1> QED BY <1>5, <1>7, <1>8 DEF t

\* A step does not concern d, or only takes frames of it out of the line.
Quiet(d) ==
  /\ step'[d] = step[d] /\ peer'[d] = peer[d] /\ reader'[d] = reader[d] /\ writer'[d] = writer[d]
  /\ up'[d] = up[d] /\ down'[d] = down[d] /\ out'[d] = out[d] /\ urgent'[d] = urgent[d]
  /\ inflate'[d] = inflate[d] /\ gstate'[d] = gstate[d] /\ conn_states'[d] = conn_states[d]
  /\ Of(inbound', d) \subseteq Of(inbound, d)
  /\ d \in outbound' <=> d \in outbound
  /\ d \in deflate' <=> d \in deflate
  /\ d \in cz' <=> d \in cz

\* Such a connection stays as it was.
LEMMA QuietParts ==
  ASSUME NEW d, Parts(d), Quiet(d)
  PROVE  Parts(d)'
<1>1. (HelloSent(d)' <=> HelloSent(d)) /\ (HelloRead(d)' => HelloRead(d))
  BY DEF Quiet, HelloSent, HelloRead
<1>2. Ends(d)'
  BY DEF Quiet, Parts, Ends
<1>3. Polite(d)'
  BY <1>1 DEF Quiet, Parts, Polite
<1>4. Waits(d)'
  <2>1. Unserved(d)' => Unserved(d)
    BY <1>1 DEF Quiet, Unserved
  <2>2. Beyond(d, 2) => Beyond(d, 2)'
    BY DEF Quiet, Beyond
  <2> QED BY <2>1, <2>2 DEF Quiet, Parts, Waits
<1>5. Format(d)'
  BY DEF Quiet, Parts, Format
<1>6. d \notin Eager => Incoming(d)'
  BY DEF Quiet, Parts, Incoming
<1> QED BY <1>2, <1>3, <1>4, <1>5, <1>6 DEF Parts

\* What a step has to show: it concerns one connection only.
LEMMA OneAtATime ==
  ASSUME FInv, NEW c \in Conns, FTyped', HelloLast(inbound'),
         \A d \in Conns : d # c => Quiet(d), Parts(c)'
  PROVE  FInv'
<1>1. ASSUME NEW d \in Conns
      PROVE  Parts(d)'
  <2>1. CASE d = c
    BY <2>1
  <2>2. CASE d # c
    BY <2>2, QuietParts DEF FInv
  <2> QED BY <2>1, <2>2
<1> QED BY <1>1 DEF FInv

\* A step that only takes frames out of the line.
LEMMA QuietStep ==
  ASSUME FInv, FTyped', HelloLast(inbound'), \A d \in Conns : Quiet(d)
  PROVE  FInv'
  BY QuietParts DEF FInv

\* Everything starts empty.
LEMMA InitFormats == NInit => FInv
<1> SUFFICES ASSUME NInit
             PROVE  FInv
  OBVIOUS
<1>1. \A S : <<>> \in Seq(S) /\ Len(<<>>) = 0
  BY EmptySeq
<1>2. FTyped
  BY <1>1 DEF NInit, LInit, FTyped, Steps
<1>3. HelloLast(inbound)
  BY <1>1 DEF NInit, LInit, HelloLast
<1>4. \A c : Of(inbound, c) = {}
  BY <1>1 DEF NInit, LInit, Of
<1>5. ASSUME NEW c \in Conns
      PROVE  Parts(c)
  <2>1. /\ step[c] = "connect" /\ peer[c] = "absent" /\ reader[c] = "absent"
        /\ up[c] = <<>> /\ down[c] = <<>> /\ out[c] = <<>> /\ urgent[c] = <<>>
        /\ inflate[c] = FALSE /\ c \notin deflate /\ c \notin cz
    BY DEF NInit, LInit
  <2>2. ~HelloSent(c) /\ ~HelloRead(c)
    BY <1>1, <1>4, <2>1 DEF HelloSent, HelloRead
  <2>3. Ends(c)
    BY <2>1 DEF Ends, Past
  <2>4. Polite(c)
    BY <1>1, <1>4, <2>1, <2>2 DEF Polite
  <2>5. Waits(c)
    BY <1>1, <1>4, <2>1 DEF Waits, Refusals
  <2>6. Format(c)
    BY <1>1, <2>1 DEF Format, Plain
  <2>7. Incoming(c)
    BY <1>1, <2>1 DEF Incoming
  <2> QED BY <2>3, <2>4, <2>5, <2>6, <2>7 DEF Parts
<1> QED BY <1>2, <1>3, <1>5 DEF FInv

----------------------------------------------------------------------------
(* The listener *)

\* Nothing is sent to a connection before it is accepted.
LEMMA AcceptFormats ==
  ASSUME NInv, FInv, NEW c \in Conns, Accept(c), UNCHANGED <<gvars, evars>>
  PROVE  FInv'
<1>1. /\ reader[c] = "absent" /\ peer[c] # "absent"
      /\ reader'[c] = "reading" /\ writer'[c] = "running" /\ c \in outbound'
      /\ conn_states'[c] = "Handshake"
      /\ UNCHANGED <<up, down, peer, fin, inflate, inbound, out>>
      /\ UNCHANGED <<step, cz, moves, deflate, urgent, gstate>>
  BY DEF NInv, Typed, FInv, FTyped, Accept, gvars, evars
<1>2. FTyped'
  BY <1>1 DEF FInv, FTyped, Accept
<1>3. HelloLast(inbound')
  BY <1>1 DEF FInv
<1>4. \A d \in Conns : d # c => Quiet(d)
  BY <1>1 DEF NInv, Typed, FInv, FTyped, Accept, Quiet
<1>5. Ends(c) /\ Polite(c) /\ Waits(c) /\ Format(c) /\ (c \notin Eager => Incoming(c))
  BY DEF FInv, Parts
<1>6. (HelloSent(c)' <=> HelloSent(c)) /\ (HelloRead(c)' <=> HelloRead(c))
  BY <1>1 DEF HelloSent, HelloRead
<1>7. Ends(c)'
  BY <1>1, <1>5 DEF Ends, Past
<1>8. Polite(c)'
  BY <1>1, <1>5, <1>6 DEF Polite
<1>9. Waits(c)'
  <2>1. urgent[c] = <<>> /\ out[c] = <<>>
    BY <1>1, <1>5 DEF Ends
  <2>2. Unserved(c)' => Unserved(c)
    BY <1>1, <1>6 DEF Unserved
  <2> QED BY <1>1, <1>5, <2>1, <2>2 DEF Waits
<1>10. Format(c)' /\ (c \notin Eager => Incoming(c)')
  BY <1>1, <1>5 DEF Format, Incoming
<1>11. Parts(c)'
  BY <1>7, <1>8, <1>9, <1>10 DEF Parts
<1> QED BY <1>2, <1>3, <1>4, <1>11, OneAtATime

\* The first frame of a client and those behind it.
LEMMA HeadOfUp ==
  ASSUME NInv, NEW c \in Conns, up[c] # <<>>
  PROVE  /\ Tail(up[c]) \in Seq(Upward) /\ Head(up[c]) = up[c][1] /\ Head(up[c]).kind \in ClientKinds
         /\ Len(up[c]) \in Nat /\ 1 \in 1 .. Len(up[c]) /\ Len(Tail(up[c])) = Len(up[c]) - 1
         /\ \A i \in 1 .. Len(Tail(up[c])) :
              i + 1 \in 1 .. Len(up[c]) /\ Tail(up[c])[i] = up[c][i + 1]
<1>1. up[c] \in Seq(Upward)
  BY DEF NInv, Typed, Upward
<1>2. /\ Tail(up[c]) \in Seq(Upward) /\ Head(up[c]) \in Upward /\ Head(up[c]) = up[c][1]
      /\ Len(up[c]) \in Nat /\ Len(up[c]) >= 1 /\ Len(Tail(up[c])) = Len(up[c]) - 1
      /\ \A i \in 1 .. Len(up[c]) - 1 : Tail(up[c])[i] = up[c][i + 1]
  BY <1>1, TailFacts
<1>3. Head(up[c]).kind \in ClientKinds
  BY <1>2 DEF Upward
<1> QED BY <1>2, <1>3

\* The first frame of c is taken, and may be put in line.
TakesFirst(c) ==
  /\ up[c] # <<>> /\ up'[c] = Tail(up[c])
  /\ step'[c] = step[c] /\ inflate'[c] = inflate[c] /\ out'[c] = out[c] /\ peer'[c] = peer[c]
  /\ c \in deflate' <=> c \in deflate
  /\ c \in cz' <=> c \in cz
  /\ Of(inbound, c) \subseteq Of(inbound', c)
  /\ \A m \in Of(inbound', c) :
       m \in Of(inbound, c) \/ (m.type = "Packet" /\ m.kind = Head(up[c]).kind)

\* What that leaves of what a client has sent.
LEMMA TakenFromUp ==
  ASSUME NInv, NEW c \in Conns, Parts(c), TakesFirst(c)
  PROVE  /\ Polite(c)' /\ (Unserved(c)' => Unserved(c)) /\ (c \notin Eager => Incoming(c)')
         /\ Unserved(c) => /\ \A i \in 1 .. Len(up'[c]) : Asking(up'[c][i].kind)
                           /\ \A m \in Of(inbound', c) : m.type = "Packet" => Asking(m.kind)
<1> DEFINE t == Tail(up[c])
           k == Head(up[c]).kind
           l == Len(up[c])
<1>1. /\ t \in Seq(Upward) /\ k = up[c][1].kind /\ l \in Nat /\ 1 \in 1 .. l /\ Len(t) = l - 1
      /\ \A i \in 1 .. Len(t) : i + 1 \in 1 .. l /\ t[i] = up[c][i + 1]
      /\ up'[c] = t
  BY HeadOfUp DEF TakesFirst
<1> HIDE DEF t, k
<1>2. Polite(c) /\ Waits(c) /\ (c \notin Eager => Incoming(c))
  BY DEF Parts
<1>3. /\ step[c] \notin {"connect", "intend"} /\ ~HelloRead(c)
      /\ \A i \in 1 .. l : up[c][i].kind = "Hello" => i = l
  BY <1>2 DEF TakesFirst, Polite
<1>4. /\ HelloSent(c)' => HelloSent(c)
      /\ HelloRead(c)' => k = "Hello"
      /\ k = "Hello" => HelloSent(c) /\ l = 1 /\ t = <<>>
  <2>1. HelloSent(c)' => HelloSent(c)
    BY <1>1 DEF TakesFirst, HelloSent
  <2>2. HelloRead(c)' => k = "Hello"
    BY <1>3 DEF TakesFirst, HelloRead, IsHello, k
  <2>3. k = "Hello" => HelloSent(c) /\ l = 1
    BY <1>1, <1>3 DEF HelloSent
  <2>4. l = 1 => t = <<>>
    BY <1>1, EmptySeq, LenProperties
  <2> QED BY <2>1, <2>2, <2>3, <2>4
<1>5. Unserved(c)' => Unserved(c)
  BY <1>4 DEF TakesFirst, Unserved
<1>6. HelloRead(c)' => up'[c] = <<>>
  BY <1>1, <1>4 DEF TakesFirst
<1>7. Polite(c)'
  <2>1. step[c] = "hello" => ~HelloSent(c)' /\ ~HelloRead(c)'
    BY <1>2, <1>4 DEF TakesFirst, Polite
  <2>2. HelloSent(c)' \/ HelloRead(c)' => step[c] \in {"await success", "refused", "left"}
    BY <1>2, <1>4 DEF TakesFirst, Polite
  <2>3. ASSUME NEW i \in 1 .. Len(t), t[i].kind = "Hello"
        PROVE  i = Len(t) /\ ~HelloRead(c)'
    <3>1. i + 1 = l
      BY <1>1, <1>3, <2>3
    <3>2. l # 1
      BY <1>1, <3>1
    <3> QED BY <1>1, <1>4, <3>1, <3>2
  <2> QED BY <1>1, <1>3, <1>6, <2>1, <2>2, <2>3 DEF TakesFirst, Polite
<1>8. c \notin Eager => Incoming(c)'
  <2> SUFFICES ASSUME c \notin Eager
               PROVE  Incoming(c)'
    OBVIOUS
  <2>1. \A i \in 1 .. Len(t) : t[i].z = inflate[c]
    BY <1>1, <1>2 DEF TakesFirst, Incoming
  <2>2. ~ \E i \in 1 .. Len(out[c]) : out[c][i] = EnableCompression
    BY <1>2 DEF TakesFirst, Incoming
  <2> QED BY <1>1, <1>2, <2>1, <2>2 DEF TakesFirst, Incoming
<1>9. Unserved(c) => /\ \A i \in 1 .. Len(t) : Asking(t[i].kind)
                     /\ \A m \in Of(inbound', c) : m.type = "Packet" => Asking(m.kind)
  BY <1>1, <1>2 DEF TakesFirst, Waits, k
<1> QED BY <1>1, <1>5, <1>7, <1>8, <1>9

\* A frame that is dropped.
LEMMA DropGarbledFormats ==
  ASSUME NInv, FInv, NEW c \in Conns, DropGarbled(c), UNCHANGED <<gvars, evars>>
  PROVE  FInv'
<1>1. /\ up[c] # <<>> /\ up'[c] = Tail(up[c])
      /\ UNCHANGED <<down, peer, fin, reader, writer, conn_states, inflate, inbound, outbound, out>>
      /\ UNCHANGED <<step, cz, moves, deflate, urgent, gstate>>
  BY DEF NInv, Typed, DropGarbled, gvars, evars
<1>2. FTyped' /\ HelloLast(inbound')
  BY <1>1 DEF FInv, FTyped
<1>3. \A d \in Conns : d # c => Quiet(d)
  BY <1>1 DEF NInv, Typed, DropGarbled, Quiet
<1>4. Parts(c)
  BY DEF FInv
<1>5. /\ Polite(c)' /\ (Unserved(c)' => Unserved(c)) /\ (c \notin Eager => Incoming(c)')
      /\ Unserved(c) => /\ \A i \in 1 .. Len(up'[c]) : Asking(up'[c][i].kind)
                        /\ \A m \in Of(inbound', c) : m.type = "Packet" => Asking(m.kind)
  <2>1. Of(inbound', c) = Of(inbound, c)
    BY <1>1
  <2>2. TakesFirst(c)
    BY <1>1, <2>1 DEF TakesFirst
  <2> QED BY <1>4, <2>2, TakenFromUp
<1>6. Beyond(c, 2) => Beyond(c, 2)'
  BY <1>1 DEF Beyond
<1>7. Waits(c)'
  BY <1>1, <1>4, <1>5, <1>6 DEF Parts, Waits
<1>8. Ends(c)' /\ Format(c)'
  BY <1>1, <1>4 DEF Parts, Ends, Format
<1>9. Parts(c)'
  BY <1>5, <1>7, <1>8 DEF Parts
<1> QED BY <1>2, <1>3, <1>9, OneAtATime

\* A frame that is reported, or dropped for want of room.
LEMMA ProcessFrameFormats ==
  ASSUME NInv, FInv, NEW c \in Conns, ProcessFrame(c), UNCHANGED <<gvars, evars>>
  PROVE  FInv'
<1> DEFINE k == Head(up[c]).kind
           s == conn_states[c]
           m == Packet(c, s, k)
<1>1. /\ reader[c] = "reading" /\ up[c] # <<>> /\ up' = [up EXCEPT ![c] = Tail(up[c])]
      /\ conn_states' = [conn_states EXCEPT ![c] = NextTag(s, k)]
      /\ inbound' = IF Len(inbound) < InCap THEN Append(inbound, m) ELSE inbound
      /\ UNCHANGED <<down, peer, fin, reader, writer, inflate, outbound, out>>
      /\ UNCHANGED <<step, cz, moves, deflate, urgent, gstate>>
  BY DEF ProcessFrame, gvars, evars
<1>2. k \in ClientKinds
  BY <1>1, HeadOfUp
<1>3. s \in States /\ s # "none"
  BY <1>1 DEF NInv, Typed, Sane, Tagged
<1>4. /\ m \in Message /\ m.conn = c /\ m.type = "Packet" /\ m.state = s /\ m.kind = k
  BY <1>2, <1>3 DEF Packet, Message
<1>5. up'[c] = Tail(up[c]) /\ conn_states'[c] = NextTag(s, k)
  BY <1>1 DEF NInv, Typed
<1> HIDE DEF s, m
<1>6. Parts(c)
  BY DEF FInv
<1>7. ~HelloRead(c)
  BY <1>1, <1>6 DEF Parts, Polite
<1>8. /\ HelloLast(inbound') /\ Of(inbound, c) \subseteq Of(inbound', c)
      /\ Of(inbound', c) \subseteq Of(inbound, c) \cup {m}
      /\ \A d : d # c => Of(inbound', d) = Of(inbound, d)
  <2>1. inbound \in Seq(Message) /\ HelloLast(inbound)
    BY DEF NInv, Typed, FInv
  <2>2. \A n \in Of(inbound, c) : ~IsHello(n)
    BY <1>7 DEF HelloRead
  <2>3. /\ HelloLast(Append(inbound, m))
        /\ Of(Append(inbound, m), c) = Of(inbound, c) \cup {m}
        /\ \A d : d # c => Of(Append(inbound, m), d) = Of(inbound, d)
    BY <1>4, <2>1, <2>2, HelloLastExtended
  <2> QED BY <1>1, <2>1, <2>3
<1>9. FTyped'
  BY <1>1 DEF FInv, FTyped
<1>10. \A d \in Conns : d # c => Quiet(d)
  BY <1>1, <1>8 DEF NInv, Typed, Quiet
<1>11. /\ Polite(c)' /\ (Unserved(c)' => Unserved(c)) /\ (c \notin Eager => Incoming(c)')
       /\ Unserved(c) => /\ \A i \in 1 .. Len(up'[c]) : Asking(up'[c][i].kind)
                         /\ \A n \in Of(inbound', c) : n.type = "Packet" => Asking(n.kind)
  <2>1. \A n \in Of(inbound', c) : n \in Of(inbound, c) \/ (n.type = "Packet" /\ n.kind = k)
    BY <1>4, <1>8
  <2>2. TakesFirst(c)
    BY <1>1, <1>5, <1>8, <2>1 DEF TakesFirst
  <2> QED BY <1>6, <2>2, TakenFromUp
<1>12. Beyond(c, 2) => Beyond(c, 2)'
  <2> SUFFICES ASSUME Beyond(c, 2)
               PROVE  Beyond(c, 2)'
    OBVIOUS
  <2>1. 2 <= Stage(s) /\ Stage(s) <= Stage(NextTag(s, k))
    BY <1>3, TagsGrow DEF Beyond, s
  <2>2. Stage(s) \in Nat /\ Stage(NextTag(s, k)) \in Nat
    BY <1>3, TagsGrow, StagesAreNumbers
  <2>3. 2 <= Stage(NextTag(s, k))
    BY <2>1, <2>2
  <2>4. \A n \in Of(inbound', c) : n.type = "Packet" => 2 <= Stage(n.state)
    BY <1>4, <1>8, <2>1 DEF Beyond
  <2> QED BY <1>5, <2>3, <2>4 DEF Beyond
<1>13. Waits(c)'
  BY <1>1, <1>6, <1>11, <1>12 DEF Parts, Waits
<1>14. Ends(c)' /\ Format(c)'
  BY <1>1, <1>6 DEF Parts, Ends, Format
<1>15. Parts(c)'
  BY <1>11, <1>13, <1>14 DEF Parts
<1> QED BY <1>8, <1>9, <1>10, <1>15, OneAtATime

\* The client and the read task do not move; the line may lose frames of c, or
\* gain the report of its close.
Resting(c) ==
  /\ step'[c] = step[c] /\ up'[c] = up[c]
  /\ \A m \in Of(inbound', c) : m \in Of(inbound, c) \/ (m.type = "Closed" /\ peer[c] = "closed")

\* The client is as polite as before.
LEMMA PoliteKept ==
  ASSUME NEW c, Parts(c), Resting(c)
  PROVE  /\ Polite(c)' /\ (Unserved(c)' => Unserved(c))
         /\ Unserved(c) => /\ \A i \in 1 .. Len(up'[c]) : Asking(up'[c][i].kind)
                           /\ \A m \in Of(inbound', c) : m.type = "Packet" => Asking(m.kind)
         /\ UNCHANGED conn_states => (Beyond(c, 2) => Beyond(c, 2)')
<1>1. Ends(c) /\ Polite(c) /\ Waits(c)
  BY DEF Parts
<1>2. (HelloSent(c)' <=> HelloSent(c)) /\ (HelloRead(c)' => HelloRead(c))
  BY DEF Resting, HelloSent, HelloRead, IsHello
<1>3. Unserved(c)' => Unserved(c)
  BY <1>2 DEF Resting, Unserved
<1>4. step[c] \in {"connect", "intend"} => Of(inbound', c) = {}
  <2>1. step[c] \in {"connect", "intend"} => peer[c] # "closed" /\ Of(inbound, c) = {}
    BY <1>1 DEF Ends, Polite
  <2> QED BY <2>1 DEF Resting
<1>5. Polite(c)'
  BY <1>1, <1>2, <1>4 DEF Resting, Polite
<1>6. Unserved(c) => /\ \A i \in 1 .. Len(up'[c]) : Asking(up'[c][i].kind)
                     /\ \A m \in Of(inbound', c) : m.type = "Packet" => Asking(m.kind)
  BY <1>1 DEF Resting, Waits
<1>7. UNCHANGED conn_states => (Beyond(c, 2) => Beyond(c, 2)')
  BY DEF Resting, Beyond
<1> QED BY <1>3, <1>5, <1>6, <1>7

\* The end of the stream.
LEMMA ReadEndsFormats ==
  ASSUME NInv, FInv, NEW c \in Conns, ReadEnds(c), UNCHANGED <<gvars, evars>>
  PROVE  FInv'
<1>1. /\ reader[c] = "reading" /\ peer[c] = "closed" /\ reader'[c] = "closing"
      /\ UNCHANGED <<up, down, peer, fin, writer, conn_states, inflate, inbound, outbound, out>>
      /\ UNCHANGED <<step, cz, moves, deflate, urgent, gstate>>
  BY DEF NInv, Typed, ReadEnds, gvars, evars
<1>2. FTyped' /\ HelloLast(inbound')
  BY <1>1 DEF FInv, FTyped
<1>3. \A d \in Conns : d # c => Quiet(d)
  BY <1>1 DEF NInv, Typed, ReadEnds, Quiet
<1>4. Parts(c) /\ Resting(c)
  BY <1>1 DEF FInv, Resting
<1>5. /\ Polite(c)' /\ (Unserved(c)' => Unserved(c)) /\ (Beyond(c, 2) => Beyond(c, 2)')
  BY <1>1, <1>4, PoliteKept
<1>6. Ends(c)'
  BY <1>1, <1>4 DEF Parts, Ends
<1>7. Waits(c)'
  BY <1>1, <1>4, <1>5 DEF Parts, Waits
<1>8. Format(c)' /\ (c \notin Eager => Incoming(c)')
  BY <1>1, <1>4 DEF Parts, Format, Incoming
<1>9. Parts(c)'
  BY <1>5, <1>6, <1>7, <1>8 DEF Parts
<1> QED BY <1>2, <1>3, <1>9, OneAtATime

\* The report of the close is the last of its connection.
LEMMA SendClosedFormats ==
  ASSUME NInv, FInv, NEW c \in Conns, SendClosed(c), UNCHANGED <<gvars, evars>>
  PROVE  FInv'
<1> DEFINE m == Closed(c)
<1>1. /\ reader[c] = "closing" /\ reader'[c] = "unmapping" /\ inbound' = Append(inbound, m)
      /\ UNCHANGED <<up, down, peer, fin, writer, conn_states, inflate, outbound, out>>
      /\ UNCHANGED <<step, cz, moves, deflate, urgent, gstate>>
  BY DEF NInv, Typed, SendClosed, gvars, evars
<1>2. m \in Message /\ m.conn = c /\ m.type = "Closed"
  BY DEF Closed, Message
<1> HIDE DEF m
<1>3. /\ HelloLast(inbound') /\ Of(inbound', c) = Of(inbound, c) \cup {m}
      /\ \A d : d # c => Of(inbound', d) = Of(inbound, d)
  <2>1. inbound \in Seq(Message) /\ HelloLast(inbound)
    BY DEF NInv, Typed, FInv
  <2> QED BY <1>1, <1>2, <2>1, HelloLastExtended
<1>4. FTyped'
  BY <1>1 DEF FInv, FTyped
<1>5. \A d \in Conns : d # c => Quiet(d)
  BY <1>1, <1>3 DEF NInv, Typed, SendClosed, Quiet
<1>6. Parts(c) /\ peer[c] = "closed"
  BY <1>1 DEF FInv, Parts, Ends
<1>7. Resting(c)
  BY <1>1, <1>2, <1>3, <1>6 DEF Resting
<1>8. /\ Polite(c)' /\ (Unserved(c)' => Unserved(c)) /\ (Beyond(c, 2) => Beyond(c, 2)')
      /\ Unserved(c) => \A n \in Of(inbound', c) : n.type = "Packet" => Asking(n.kind)
  BY <1>1, <1>6, <1>7, PoliteKept
<1>9. Ends(c)'
  BY <1>1, <1>6 DEF Parts, Ends
<1>10. Waits(c)'
  BY <1>1, <1>6, <1>8 DEF Parts, Waits
<1>11. Format(c)' /\ (c \notin Eager => Incoming(c)')
  BY <1>1, <1>6 DEF Parts, Format, Incoming
<1>12. Parts(c)'
  BY <1>8, <1>9, <1>10, <1>11 DEF Parts
<1> QED BY <1>3, <1>4, <1>5, <1>12, OneAtATime

\* The sender leaves the map.
LEMMA RemoveOutboundFormats ==
  ASSUME NInv, FInv, NEW c \in Conns, RemoveOutbound(c), UNCHANGED <<gvars, evars>>
  PROVE  FInv'
<1>1. /\ reader[c] = "unmapping" /\ reader'[c] = "aborting"
      /\ UNCHANGED <<up, down, peer, fin, writer, conn_states, inflate, inbound, out>>
      /\ UNCHANGED <<step, cz, moves, deflate, urgent, gstate>>
  BY DEF NInv, Typed, RemoveOutbound, gvars, evars
<1>2. FTyped' /\ HelloLast(inbound')
  BY <1>1 DEF FInv, FTyped
<1>3. \A d \in Conns : d # c => Quiet(d)
  BY <1>1 DEF NInv, Typed, RemoveOutbound, Quiet
<1>4. Parts(c) /\ Resting(c) /\ peer[c] = "closed"
  BY <1>1 DEF FInv, Parts, Ends, Past, Resting
<1>5. /\ Polite(c)' /\ (Unserved(c)' => Unserved(c)) /\ (Beyond(c, 2) => Beyond(c, 2)')
  BY <1>1, <1>4, PoliteKept
<1>6. Ends(c)'
  BY <1>1, <1>4 DEF Parts, Ends
<1>7. Waits(c)'
  BY <1>1, <1>4, <1>5 DEF Parts, Waits
<1>8. Format(c)' /\ (c \notin Eager => Incoming(c)')
  BY <1>1, <1>4 DEF Parts, Format, Incoming
<1>9. Parts(c)'
  BY <1>5, <1>6, <1>7, <1>8 DEF Parts
<1> QED BY <1>2, <1>3, <1>9, OneAtATime

\* The write task is aborted; its client has left.
LEMMA AbortWriterFormats ==
  ASSUME NInv, FInv, NEW c \in Conns, AbortWriter(c), UNCHANGED <<gvars, evars>>
  PROVE  FInv'
<1>1. /\ reader[c] = "aborting" /\ reader'[c] = "done" /\ writer'[c] = "done"
      /\ conn_states'[c] = "none" /\ out'[c] = <<>> /\ Len(<<>>) = 0
      /\ UNCHANGED <<up, down, peer, inflate, inbound, outbound>>
      /\ UNCHANGED <<step, cz, moves, deflate, urgent, gstate>>
  BY EmptySeq DEF NInv, Typed, FInv, FTyped, AbortWriter, gvars, evars
<1>2. FTyped' /\ HelloLast(inbound')
  BY <1>1 DEF FInv, FTyped, AbortWriter
<1>3. \A d \in Conns : d # c => Quiet(d)
  BY <1>1 DEF NInv, Typed, FInv, FTyped, AbortWriter, Quiet
<1>4. Parts(c) /\ Resting(c) /\ peer[c] = "closed"
  BY <1>1 DEF FInv, Parts, Ends, Past, Resting
<1>5. Polite(c)' /\ (Unserved(c)' => Unserved(c))
  BY <1>4, PoliteKept
<1>6. Ends(c)'
  BY <1>1, <1>4 DEF Parts, Ends
<1>7. Waits(c)'
  <2>1. Refusals(out'[c])
    BY <1>1 DEF Refusals
  <2>2. Beyond(c, 2) => Beyond(c, 2)'
    BY <1>1 DEF Beyond
  <2> QED BY <1>1, <1>4, <1>5, <2>1, <2>2 DEF Parts, Waits
<1>8. Format(c)' /\ (c \notin Eager => Incoming(c)')
  BY <1>1, <1>4 DEF Parts, Format, Incoming
<1>9. Parts(c)'
  BY <1>5, <1>6, <1>7, <1>8 DEF Parts
<1> QED BY <1>2, <1>3, <1>9, OneAtATime

\* The head of a channel of frames is the order to inflate, or no such frame.
LEMMA OrderOfHead ==
  ASSUME NEW m \in Wire, m.z = FALSE
  PROVE  m.kind = "EnableCompression" <=> m = EnableCompression
  BY DEF Wire, EnableCompression

\* A frame goes to the client, in the format it was queued in, or is lost with
\* the task when the client has left.
LEMMA WriteFrameFormats ==
  ASSUME NInv, FInv, NEW c \in Conns, WriteFrame(c), UNCHANGED <<gvars, evars>>
  PROVE  FInv'
<1> DEFINE h == Head(out[c])
           t == Tail(out[c])
<1>1. /\ writer[c] = "running" /\ out[c] # <<>> /\ h # EnableCompression
      /\ UNCHANGED <<up, peer, reader, conn_states, inflate, inbound, outbound>>
      /\ UNCHANGED <<step, cz, moves, deflate, urgent, gstate>>
  BY DEF WriteFrame, gvars, evars
<1>2. out[c] \in Seq(Wire) /\ down[c] \in Seq(Wire)
  BY DEF NInv, Typed, FInv, FTyped
<1>3. h \in Wire /\ t \in Seq(Wire)
  BY <1>1, <1>2, TailFacts
<1>4. \/ peer[c] # "closed" /\ down' = [down EXCEPT ![c] = Append(down[c], h)] /\ writer' = writer
      \/ peer[c] = "closed" /\ down' = down /\ writer' = writer
      \/ peer[c] = "closed" /\ down' = down /\ writer' = [writer EXCEPT ![c] = "done"]
  BY DEF WriteFrame
<1>5. \/ out' = [out EXCEPT ![c] = t]
      \/ out' = [out EXCEPT ![c] = <<>>] /\ peer[c] = "closed"
  BY DEF WriteFrame
<1> HIDE DEF h, t
<1>6. FTyped' /\ HelloLast(inbound')
  <2>1. Append(down[c], h) \in Seq(Wire)
    BY <1>2, <1>3, AppendFacts
  <2>2. down' \in [Conns -> Seq(Wire)] /\ writer' \in [Conns -> {"absent", "running", "done"}]
    BY <1>4, <2>1 DEF FInv, FTyped
  <2> QED BY <1>1, <2>2 DEF FInv, FTyped
<1>7. \A d \in Conns : d # c => Quiet(d)
  <2>1. ASSUME NEW d \in Conns, d # c
        PROVE  out'[d] = out[d] /\ down'[d] = down[d] /\ writer'[d] = writer[d]
    BY <1>4, <1>5, <2>1 DEF NInv, Typed, FInv, FTyped
  <2> QED BY <1>1, <2>1 DEF Quiet
<1>8. Parts(c) /\ Resting(c)
  BY <1>1 DEF FInv, Resting
<1>9. /\ Polite(c)' /\ (Unserved(c)' => Unserved(c)) /\ (Beyond(c, 2) => Beyond(c, 2)')
  BY <1>1, <1>8, PoliteKept
<1>10. /\ out'[c] = t \/ (out'[c] = <<>> /\ peer[c] = "closed")
       /\ \/ peer[c] # "closed" /\ down'[c] = Append(down[c], h)
          \/ peer[c] = "closed" /\ down'[c] = down[c]
       /\ peer[c] # "closed" => writer'[c] = "running"
  BY <1>1, <1>4, <1>5 DEF NInv, Typed, FInv, FTyped
<1>11. Ends(c)'
  BY <1>1, <1>8, <1>10 DEF Parts, Ends
<1>12. Len(<<>>) = 0 /\ <<>> \in Seq(Wire)
  BY EmptySeq
<1>13. Waits(c)'
  <2> SUFFICES ASSUME Unserved(c)'
               PROVE  /\ Refusals(down'[c]) /\ Refusals(out'[c])
                      /\ gstate[c] = "none" /\ Beyond(c, 2)
    BY <1>1, <1>8, <1>9 DEF Parts, Waits
  <2>1. Refusals(down[c]) /\ Refusals(out[c]) /\ gstate[c] = "none" /\ Beyond(c, 2)
    BY <1>1, <1>8, <1>9 DEF Parts, Waits
  <2>2. Refusals(t) /\ h.kind = "LoginDisconnect"
    BY <1>1, <1>2, <2>1, HeadOfWire DEF h, t
  <2>3. Refusals(Append(down[c], h))
    BY <1>2, <1>3, <2>1, <2>2, WireExtended
  <2>4. Refusals(<<>>)
    BY <1>12 DEF Refusals
  <2> QED BY <1>10, <2>1, <2>2, <2>3, <2>4
<1>14. Format(c)'
  <2> SUFFICES ASSUME peer[c] # "closed"
               PROVE  Format(c)'
    BY <1>1 DEF Format
  <2>0. /\ out'[c] = t /\ down'[c] = Append(down[c], h) /\ inflate'[c] = inflate[c]
        /\ cz' = cz /\ deflate' = deflate
    BY <1>1, <1>10
  <2>1. CASE /\ c \notin deflate /\ c \notin cz /\ ~inflate[c]
             /\ Plain(down[c]) /\ Plain(out[c])
    <3>1. Plain(t) /\ h.z = FALSE /\ h.kind \notin {"LoginCompression", "EnableCompression"}
      BY <1>1, <1>2, <2>1, HeadOfWire DEF h, t
    <3>2. Plain(Append(down[c], h))
      BY <1>2, <1>3, <2>1, <3>1, WireExtended
    <3> QED BY <2>0, <2>1, <3>1, <3>2 DEF Format
  <2>2. CASE /\ c \in deflate /\ c \notin cz
             /\ inflate[c] \/ Head(out[c]) = EnableCompression
             /\ Plain(down[c]) /\ Seam(out[c]) /\ Ordered(out[c])
    <3>1. inflate[c]
      BY <1>1, <2>2 DEF h
    <3>2. /\ h.z = FALSE
          /\ h.kind = "LoginCompression" => Packed(t)
          /\ h.kind # "LoginCompression" => Seam(t)
      BY <1>2, <2>2, HeadOfSeam DEF h, t
    <3>3. h.kind # "EnableCompression"
      BY <1>1, <1>3, <3>2, OrderOfHead
    <3>4. CASE h.kind = "LoginCompression"
      <4>1. Seam(Append(down[c], h))
        BY <1>2, <1>3, <2>2, <3>2, <3>4, WireExtended
      <4> QED BY <2>0, <2>2, <3>1, <3>2, <3>4, <4>1 DEF Format
    <3>5. CASE h.kind # "LoginCompression"
      <4>1. Plain(Append(down[c], h))
        BY <1>2, <1>3, <2>2, <3>2, <3>3, <3>5, WireExtended
      <4>2. Ordered(t)
        <5>1. \A i \in 1 .. Len(t) : t[i].kind # "EnableCompression"
          BY <1>1, <1>2, <2>2, HeadOfWire DEF t
        <5>2. \A i \in 2 .. Len(t) : i \in 1 .. Len(t)
          BY <1>3, LenProperties
        <5> QED BY <5>1, <5>2 DEF Ordered
      <4> QED BY <2>0, <2>2, <3>1, <3>2, <3>5, <4>1, <4>2 DEF Format
    <3> QED BY <3>4, <3>5
  <2>3. CASE /\ c \in deflate /\ c \notin cz /\ inflate[c]
             /\ Seam(down[c]) /\ Packed(out[c])
    <3>1. Packed(t) /\ h.z = TRUE
      BY <1>1, <1>2, <2>3, HeadOfWire DEF h, t
    <3>2. Seam(Append(down[c], h))
      BY <1>2, <1>3, <2>3, <3>1, WireExtended
    <3> QED BY <2>0, <2>3, <3>1, <3>2 DEF Format
  <2>4. CASE /\ c \in deflate /\ c \in cz /\ inflate[c]
             /\ Packed(down[c]) /\ Packed(out[c])
    <3>1. Packed(t) /\ h.z = TRUE
      BY <1>1, <1>2, <2>4, HeadOfWire DEF h, t
    <3>2. Packed(Append(down[c], h))
      BY <1>2, <1>3, <2>4, <3>1, WireExtended
    <3> QED BY <2>0, <2>4, <3>1, <3>2 DEF Format
  <2> QED BY <1>8, <2>1, <2>2, <2>3, <2>4 DEF Parts, Format
<1>15. c \notin Eager => Incoming(c)'
  <2> SUFFICES ASSUME c \notin Eager
               PROVE  Incoming(c)'
    OBVIOUS
  <2>1. ASSUME NEW i \in 1 .. Len(out'[c]), out'[c][i] = EnableCompression
        PROVE  up[c] = <<>>
    <3>1. /\ Len(out[c]) \in Nat /\ Len(t) = Len(out[c]) - 1
          /\ \A j \in 1 .. Len(out[c]) - 1 : t[j] = out[c][j + 1]
      BY <1>1, <1>2, TailFacts DEF t
    <3>2. out'[c] = t
      BY <1>10, <1>12, <2>1
    <3>3. i + 1 \in 1 .. Len(out[c]) /\ out[c][i + 1] = EnableCompression
      BY <2>1, <3>1, <3>2
    <3> QED BY <1>8, <3>3 DEF Parts, Incoming
  <2> QED BY <1>1, <1>8, <2>1 DEF Parts, Incoming
<1>16. Parts(c)'
  BY <1>9, <1>11, <1>13, <1>14, <1>15 DEF Parts
<1> QED BY <1>6, <1>7, <1>16, OneAtATime

\* The order to inflate is obeyed, before any reply to LoginCompression.
LEMMA WriteEnableFormats ==
  ASSUME NInv, FInv, NEW c \in Conns, WriteEnableCompression(c), UNCHANGED <<gvars, evars>>
  PROVE  FInv'
<1> DEFINE h == Head(out[c])
           t == Tail(out[c])
<1>1. /\ writer[c] = "running" /\ out[c] # <<>> /\ h = EnableCompression
      /\ inflate' = [inflate EXCEPT ![c] = TRUE] /\ out' = [out EXCEPT ![c] = t]
      /\ UNCHANGED <<up, down, peer, fin, reader, writer, conn_states, inbound, outbound>>
      /\ UNCHANGED <<step, cz, moves, deflate, urgent, gstate>>
  BY DEF WriteEnableCompression, gvars, evars
<1>2. out[c] \in Seq(Wire) /\ h.kind = "EnableCompression" /\ h.z = FALSE
  BY <1>1 DEF NInv, Typed, EnableCompression
<1>3. inflate'[c] = TRUE /\ out'[c] = t
  BY <1>1 DEF NInv, Typed, FInv, FTyped
<1>4. /\ h = out[c][1] /\ t \in Seq(Wire) /\ Len(out[c]) \in Nat /\ Len(out[c]) >= 1
      /\ Len(t) = Len(out[c]) - 1
      /\ \A j \in 1 .. Len(out[c]) - 1 : t[j] = out[c][j + 1]
  BY <1>1, <1>2, TailFacts
<1> HIDE DEF h, t
<1>5. FTyped' /\ HelloLast(inbound')
  BY <1>1 DEF FInv, FTyped
<1>6. \A d \in Conns : d # c => Quiet(d)
  BY <1>1 DEF NInv, Typed, FInv, FTyped, Quiet
<1>7. Parts(c) /\ Resting(c)
  BY <1>1 DEF FInv, Resting
<1>8. Polite(c)' /\ (Unserved(c)' => Unserved(c))
  BY <1>7, PoliteKept
<1>9. Ends(c)'
  BY <1>1, <1>7 DEF Parts, Ends
<1>10. Waits(c)'
  <2>1. ~Refusals(out[c])
    BY <1>1, <1>2, HeadOfWire DEF h
  <2>2. ~Unserved(c)
    BY <1>7, <2>1 DEF Parts, Waits
  <2> QED BY <1>8, <2>2 DEF Waits
<1>11. Format(c)'
  <2>1. ~Plain(out[c]) /\ ~Packed(out[c])
    BY <1>1, <1>2, HeadOfWire DEF h
  <2>2. CASE peer[c] # "closed"
    <3>1. c \in deflate /\ c \notin cz /\ Plain(down[c]) /\ Seam(out[c]) /\ Ordered(out[c])
      BY <1>7, <2>1, <2>2 DEF Parts, Format
    <3>2. Seam(t)
      BY <1>2, <3>1, HeadOfSeam DEF h, t
    <3>3. Ordered(t)
      <4>1. \A i \in 1 .. Len(t) : t[i].kind # "EnableCompression"
        BY <1>1, <1>2, <3>1, HeadOfWire DEF t
      <4>2. \A i \in 2 .. Len(t) : i \in 1 .. Len(t)
        BY <1>4, LenProperties
      <4> QED BY <4>1, <4>2 DEF Ordered
    <3> QED BY <1>1, <1>3, <3>1, <3>2, <3>3 DEF Format
  <2>3. CASE peer[c] = "closed"
    BY <1>1, <2>3 DEF Format
  <2> QED BY <2>2, <2>3
<1>12. c \notin Eager => Incoming(c)'
  <2> SUFFICES ASSUME c \notin Eager
               PROVE  Incoming(c)'
    OBVIOUS
  <2>1. up[c] = <<>> /\ Len(<<>>) = 0
    <3>1. 1 \in 1 .. Len(out[c]) /\ out[c][1] = EnableCompression
      BY <1>1, <1>4
    <3> QED BY <1>7, <3>1, EmptySeq DEF Parts, Incoming
  <2>2. up'[c] = <<>> /\ \A i \in 1 .. Len(up'[c]) : FALSE
    BY <1>1, <2>1
  <2>3. peer'[c] = "open" /\ c \in deflate' /\ c \notin cz' =>
          step'[c] \in {"await success", "acknowledge", "refused"}
    BY <1>1, <1>7 DEF Parts, Incoming
  <2> QED BY <2>2, <2>3 DEF Incoming
<1>13. Parts(c)'
  BY <1>8, <1>9, <1>10, <1>11, <1>12 DEF Parts
<1> QED BY <1>5, <1>6, <1>13, OneAtATime

\* The write task ends when nothing can be queued for it any more.
LEMMA WriterEndsFormats ==
  ASSUME NInv, FInv, NEW c \in Conns, WriterEnds(c), UNCHANGED <<gvars, evars>>
  PROVE  FInv'
<1>1. /\ c \notin outbound
      /\ UNCHANGED <<up, down, peer, reader, conn_states, inflate, inbound, outbound, out>>
      /\ UNCHANGED <<step, cz, moves, deflate, urgent, gstate>>
  BY DEF WriterEnds, gvars, evars
<1>2. FTyped' /\ HelloLast(inbound')
  BY <1>1 DEF FInv, FTyped, WriterEnds
<1>3. \A d \in Conns : d # c => Quiet(d)
  BY <1>1 DEF FInv, FTyped, WriterEnds, Quiet
<1>4. Parts(c) /\ Resting(c)
  BY <1>1 DEF FInv, Resting
<1>5. /\ Polite(c)' /\ (Unserved(c)' => Unserved(c)) /\ (Beyond(c, 2) => Beyond(c, 2)')
  BY <1>1, <1>4, PoliteKept
<1>6. Ends(c)'
  BY <1>1, <1>4 DEF Parts, Ends
<1>7. Waits(c)'
  BY <1>1, <1>4, <1>5 DEF Parts, Waits
<1>8. Format(c)' /\ (c \notin Eager => Incoming(c)')
  BY <1>1, <1>4 DEF Parts, Format, Incoming
<1>9. Parts(c)'
  BY <1>5, <1>6, <1>7, <1>8 DEF Parts
<1> QED BY <1>2, <1>3, <1>9, OneAtATime

----------------------------------------------------------------------------
(* The game *)

\* What a handler leaves to the listener and to the client, and what it knows of
\* the packet it has taken.
LEMMA Received ==
  ASSUME NInv, FInv, NEW c \in Conns, NEW s \in States, NEW k, Receive(c, s, k)
  PROVE  /\ UNCHANGED <<up, down, peer, reader, writer, conn_states, inflate, outbound, step, cz>>
         /\ HelloLast(inbound') /\ Resting(c) /\ Of(inbound', c) \subseteq Of(inbound, c)
         /\ \A d : d # c => Of(inbound', d) = Of(inbound, d)
         /\ reader[c] # "absent"
         /\ Unserved(c) => Asking(k)
         /\ k = "Hello" => HelloRead(c) /\ ~HelloRead(c)'
<1> DEFINE p == Packet(c, s, k)
<1>1. /\ inbound \in Seq(Message) /\ inbound # <<>> /\ Orderly(inbound)
      /\ Head(inbound) = p /\ inbound' = Tail(inbound)
  BY DEF NInv, Typed, Receive
<1>2. p.type = "Packet" /\ p.conn = c /\ p.kind = k
  BY DEF Packet
<1> HIDE DEF p
<1>3. /\ p \in Of(inbound, c) /\ Of(inbound', c) \subseteq Of(inbound, c)
      /\ \A d : d # c => Of(inbound', d) = Of(inbound, d)
  BY <1>1, <1>2, LineShortened
<1>4. /\ HelloLast(inbound')
      /\ IsHello(p) => \A m \in Of(inbound', c) : m.type = "Closed"
  BY <1>1, <1>2, HelloLastShortened DEF FInv
<1>5. UNCHANGED <<up, down, peer, reader, writer, conn_states, inflate, outbound, step, cz>>
  BY DEF Receive, evars
<1>6. Resting(c)
  BY <1>3, <1>5 DEF Resting
<1>7. reader[c] # "absent"
  BY ReceiveFacts
<1>8. Unserved(c) => Asking(k)
  BY <1>2, <1>3 DEF FInv, Parts, Waits
<1>9. k = "Hello" => HelloRead(c) /\ ~HelloRead(c)'
  <2> SUFFICES ASSUME k = "Hello"
               PROVE  HelloRead(c) /\ ~HelloRead(c)'
    OBVIOUS
  <2>1. IsHello(p)
    BY <1>2 DEF IsHello
  <2>2. HelloRead(c)
    BY <1>3, <2>1 DEF HelloRead
  <2>3. ~HelloRead(c)'
    BY <1>4, <2>1 DEF HelloRead, IsHello
  <2> QED BY <2>2, <2>3
<1> QED BY <1>3, <1>4, <1>5, <1>6, <1>7, <1>8, <1>9

\* What the game queues, refuses and compresses is that of c only.
Within(c) ==
  \A d \in Conns : d # c =>
    /\ out'[d] = out[d] /\ urgent'[d] = urgent[d] /\ gstate'[d] = gstate[d]
    /\ d \in deflate' <=> d \in deflate

\* What a handler has to show for its connection.
LEMMA HandledFormats ==
  ASSUME NInv, FInv, NEW c \in Conns, NEW s \in States, NEW k, Receive(c, s, k),
         Within(c), urgent' \in [Conns -> Seq(Queued)], Parts(c)'
  PROVE  FInv'
<1>1. /\ UNCHANGED <<up, down, peer, reader, writer, conn_states, inflate, outbound, step, cz>>
      /\ HelloLast(inbound') /\ \A d : d # c => Of(inbound', d) = Of(inbound, d)
  BY Received
<1>2. FTyped'
  BY <1>1 DEF FInv, FTyped
<1>3. \A d \in Conns : d # c => Quiet(d)
  BY <1>1 DEF Within, Quiet
<1> QED BY <1>1, <1>2, <1>3, OneAtATime

\* Frames that are queued for c.
LEMMA EnqueueQueued ==
  ASSUME FInv, NEW c \in Conns, NEW frames \in Seq(Queued), Enqueue(c, frames)
  PROVE  /\ urgent' \in [Conns -> Seq(Queued)]
         /\ urgent'[c] = urgent[c] \o frames
         /\ \A d \in Conns : d # c => urgent'[d] = urgent[d]
<1>1. urgent[c] \o frames \in Seq(Queued)
  BY ConcatProperties DEF FInv, FTyped
<1> QED BY <1>1 DEF FInv, FTyped, Enqueue

\* What is queued.
LEMMA QueuedFrames ==
  /\ \A x \in Queued : <<x>> \in Seq(Queued)
  /\ \A x, y \in Queued : <<x, y>> \in Seq(Queued)
  /\ {"StatusResponse", "PingResponse", "LoginDisconnect", "LoginSuccess"} \subseteq Queued
  /\ Configuring \subseteq Queued /\ Entering \subseteq Queued /\ Spawning \subseteq Queued
<1>1. /\ {"StatusResponse", "PingResponse", "LoginDisconnect", "LoginSuccess"} \subseteq Queued
      /\ Configuring \subseteq Queued /\ Entering \subseteq Queued /\ Spawning \subseteq Queued
  BY DEF Queued, ServerKinds, Configuring, Entering, Spawning
<1> QED BY <1>1

\* Packets nothing handles, and those of a refused or playing connection.
LEMMA IgnoredFormats ==
  ASSUME NInv, FInv, NEW c \in Conns, NEW s \in States, NEW k,
         \/ Undispatched(c, s, k)
         \/ HelloIgnored(c)
         \/ HandlePlayerPosition(c)
  PROVE  FInv'
<1>1. PICK t \in States : \E l : Receive(c, t, l) /\ UNCHANGED <<out, urgent, gstate, deflate>>
  BY DEF Undispatched, HelloIgnored, HandlePlayerPosition, States
<1>2. PICK l : Receive(c, t, l) /\ UNCHANGED <<out, urgent, gstate, deflate>>
  BY <1>1
<1>3. /\ UNCHANGED <<up, down, peer, reader, writer, conn_states, inflate, outbound, step, cz>>
      /\ HelloLast(inbound') /\ Of(inbound', c) \subseteq Of(inbound, c)
      /\ \A d : d # c => Of(inbound', d) = Of(inbound, d)
  BY <1>2, Received
<1>4. FTyped'
  BY <1>2, <1>3 DEF FInv, FTyped
<1>5. ASSUME NEW d \in Conns
      PROVE  Quiet(d)
  <2>1. Of(inbound', d) \subseteq Of(inbound, d)
    BY <1>3
  <2> QED BY <1>2, <1>3, <2>1 DEF Quiet
<1> QED BY <1>3, <1>4, <1>5, QuietStep

\* A handler for a client that has been let in queues frames and may move gstate on.
LEMMA ServedFormats ==
  ASSUME NInv, FInv, NEW c \in Conns, NEW s \in States, NEW k, Receive(c, s, k), ~Asking(k),
         UNCHANGED <<out, deflate>>, urgent' \in [Conns -> Seq(Queued)],
         \A d \in Conns : d # c => urgent'[d] = urgent[d] /\ gstate'[d] = gstate[d]
  PROVE  FInv'
<1>1. /\ UNCHANGED <<up, down, peer, reader, writer, conn_states, inflate, outbound, step, cz>>
      /\ Resting(c) /\ reader[c] # "absent" /\ ~Unserved(c)
  BY Received
<1>2. Parts(c)
  BY DEF FInv
<1>3. Polite(c)' /\ ~Unserved(c)'
  BY <1>1, <1>2, PoliteKept
<1>4. Waits(c)'
  BY <1>3 DEF Waits
<1>5. Ends(c)'
  BY <1>1, <1>2 DEF Parts, Ends
<1>6. Format(c)' /\ (c \notin Eager => Incoming(c)')
  BY <1>1, <1>2 DEF Parts, Format, Incoming
<1>7. Parts(c)'
  BY <1>3, <1>4, <1>5, <1>6 DEF Parts
<1>8. Within(c)
  BY DEF Within
<1> QED BY <1>7, <1>8, HandledFormats

\* The four handlers of that sort.
LEMMA AnsweredFormats ==
  ASSUME NInv, FInv, NEW c \in Conns, NEW k,
         \/ HandleStatus(c, k) \/ HandleClientInformation(c)
         \/ HandleLoginAcknowledged(c) \/ HandleFinishConfiguration(c)
  PROVE  FInv'
<1>1. /\ ~Asking("StatusRequest") /\ ~Asking("Ping") /\ ~Asking("Ack") /\ ~Asking("ClientInformation")
      /\ "Status" \in States /\ "Login" \in States /\ "Configuration" \in States
  BY DEF Asking, LoginIntents, States
<1>2. urgent \in [Conns -> Seq(Queued)] /\ gstate \in [Conns -> States \cup {"none"}]
  BY DEF NInv, Typed, FInv, FTyped
<1>3. CASE HandleStatus(c, k)
  <2>1. \E frames \in Seq(Queued) : Enqueue(c, frames)
    BY <1>3, QueuedFrames DEF HandleStatus
  <2>2. k = "StatusRequest" \/ k = "Ping"
    BY <1>3 DEF HandleStatus
  <2>3. ~Asking(k)
    BY <1>1, <2>2
  <2>4. urgent' \in [Conns -> Seq(Queued)] /\ \A d \in Conns : d # c => urgent'[d] = urgent[d]
    BY <2>1, EnqueueQueued
  <2> QED BY <1>1, <1>3, <2>3, <2>4, ServedFormats DEF HandleStatus
<1>4. CASE HandleClientInformation(c)
  <2>1. ConfigurationFrames \in Seq(Queued)
    BY QueuedFrames, ConfigurationSent
  <2>2. urgent' \in [Conns -> Seq(Queued)] /\ \A d \in Conns : d # c => urgent'[d] = urgent[d]
    BY <1>4, <2>1, EnqueueQueued DEF HandleClientInformation
  <2> QED BY <1>1, <1>4, <2>2, ServedFormats DEF HandleClientInformation
<1>5. CASE HandleLoginAcknowledged(c)
  <2>1. \A d \in Conns : d # c => gstate'[d] = gstate[d]
    BY <1>2, <1>5 DEF HandleLoginAcknowledged
  <2> QED BY <1>1, <1>2, <1>5, <2>1, ServedFormats DEF HandleLoginAcknowledged
<1>6. CASE HandleFinishConfiguration(c)
  <2>1. \A d \in Conns : d # c => gstate'[d] = gstate[d]
    BY <1>2, <1>6 DEF HandleFinishConfiguration
  <2>2. EntryFrames \in Seq(Queued)
    BY QueuedFrames, EntrySent
  <2>3. urgent' \in [Conns -> Seq(Queued)] /\ \A d \in Conns : d # c => urgent'[d] = urgent[d]
    BY <1>2, <1>6, <2>2, EnqueueQueued DEF HandleFinishConfiguration
  <2> QED BY <1>1, <1>6, <2>1, <2>3, ServedFormats DEF HandleFinishConfiguration
<1> QED BY <1>3, <1>4, <1>5, <1>6

\* A connection is refused, for good, or opened while nothing is on the way to it.
LEMMA IntentionFormats ==
  ASSUME NInv, FInv, NEW c \in Conns, NEW k, HandleIntention(c, k)
  PROVE  FInv'
<1>1. Receive(c, "Handshake", k) /\ "Handshake" \in States /\ k \in StatusIntents \cup LoginIntents
  BY DEF HandleIntention, States, Known
<1>2. /\ UNCHANGED <<up, down, peer, reader, writer, conn_states, inflate, outbound, step, cz>>
      /\ Resting(c) /\ reader[c] # "absent"
  BY <1>1, Received
<1>3. UNCHANGED <<out, deflate>>
  BY DEF HandleIntention
<1>4. Parts(c)
  BY DEF FInv
<1>5. /\ Polite(c)' /\ (Unserved(c)' => Unserved(c))
      /\ Unserved(c) => /\ \A i \in 1 .. Len(up'[c]) : Asking(up'[c][i].kind)
                        /\ \A m \in Of(inbound', c) : m.type = "Packet" => Asking(m.kind)
  BY <1>2, <1>4, PoliteKept
<1>6. \/ Enqueue(c, <<"LoginDisconnect">>) /\ gstate' = [gstate EXCEPT ![c] = "none"]
      \/ urgent' = urgent /\ gstate' = [gstate EXCEPT ![c] = "Handshake"]
  BY DEF HandleIntention
<1>7. urgent[c] \in Seq(Queued) /\ urgent \in [Conns -> Seq(Queued)]
      /\ gstate \in [Conns -> States \cup {"none"}]
  BY DEF NInv, Typed, FInv, FTyped
<1>8. Waits(c)' /\ urgent' \in [Conns -> Seq(Queued)] /\ Within(c)
  <2>1. CASE Enqueue(c, <<"LoginDisconnect">>) /\ gstate' = [gstate EXCEPT ![c] = "none"]
    <3>1. <<"LoginDisconnect">> \in Seq(Queued)
      BY QueuedFrames
    <3>2. /\ urgent' \in [Conns -> Seq(Queued)]
          /\ urgent'[c] = urgent[c] \o <<"LoginDisconnect">>
          /\ \A d \in Conns : d # c => urgent'[d] = urgent[d]
      BY <2>1, <3>1, EnqueueQueued
    <3>3. Beyond(c, 2)'
      <4>1. 2 <= Stage(NextTag("Handshake", k))
        BY <1>1, StagesAreNumbers DEF NextTag
      <4> QED BY <1>1, <4>1, BeyondKept
    <3>4. ASSUME Unserved(c)
          PROVE  \A i \in 1 .. Len(urgent'[c]) : urgent'[c][i] = "LoginDisconnect"
      <4>1. \A i \in 1 .. Len(urgent[c]) : urgent[c][i] = "LoginDisconnect"
        BY <1>4, <3>4 DEF Parts, Waits
      <4>2. /\ Len(urgent[c]) \in Nat /\ Len(urgent'[c]) = Len(urgent[c]) + 1
            /\ urgent'[c][Len(urgent[c]) + 1] = "LoginDisconnect"
            /\ \A i \in 1 .. Len(urgent[c]) : urgent'[c][i] = urgent[c][i]
        <5>1. /\ Len(<<"LoginDisconnect">>) = 1 /\ <<"LoginDisconnect">>[1] = "LoginDisconnect"
          OBVIOUS
        <5> QED BY <1>7, <3>1, <3>2, <5>1, ConcatProperties, LenProperties
      <4>3. \A i \in 1 .. Len(urgent'[c]) : i = Len(urgent[c]) + 1 \/ i \in 1 .. Len(urgent[c])
        BY <4>2
      <4> QED BY <4>1, <4>2, <4>3
    <3>5. gstate'[c] = "none" /\ Within(c)
      BY <1>3, <1>7, <2>1, <3>2 DEF Within
    <3>6. Waits(c)'
      BY <1>2, <1>3, <1>4, <1>5, <3>3, <3>4, <3>5 DEF Parts, Waits
    <3> QED BY <3>2, <3>5, <3>6
  <2>2. CASE urgent' = urgent /\ gstate' = [gstate EXCEPT ![c] = "Handshake"]
    <3>1. ~Beyond(c, 2)
      <4>1. \A n \in Nat : Beyond(c, n) => n <= 1
        BY <1>1, ReceiveFacts, StagesAreNumbers
      <4> QED BY <4>1
    <3>2. Waits(c)'
      BY <1>2, <1>3, <1>4, <1>5, <2>2, <3>1 DEF Parts, Waits
    <3>3. Within(c)
      BY <1>3, <1>7, <2>2 DEF Within
    <3> QED BY <1>7, <2>2, <3>2, <3>3
  <2> QED BY <1>6, <2>1, <2>2
<1>9. Ends(c)'
  BY <1>2, <1>3, <1>4 DEF Parts, Ends
<1>10. Format(c)' /\ (c \notin Eager => Incoming(c)')
  BY <1>2, <1>3, <1>4 DEF Parts, Format, Incoming
<1>11. Parts(c)'
  BY <1>5, <1>8, <1>9, <1>10 DEF Parts
<1> QED BY <1>1, <1>8, <1>11, HandledFormats

\* Three frames in a channel that was empty.
ThreeOf(q, m1, m2, m3) ==
  /\ q \in Seq(Wire) /\ q = Append(Append(Append(<<>>, m1), m2), m3)
  /\ Len(Append(<<>>, m1)) = 1 /\ Len(Append(Append(<<>>, m1), m2)) = 2
  /\ Len(q) = 3 /\ Head(q) = m1 /\ q[1] = m1 /\ q[2] = m2 /\ q[3] = m3

LEMMA ThreeFrames ==
  ASSUME NEW m1 \in Wire, NEW m2 \in Wire, NEW m3 \in Wire
  PROVE  \E q : ThreeOf(q, m1, m2, m3)
<1>1. PICK q0 : q0 = <<>>
  OBVIOUS
<1>2. q0 \in Seq(Wire) /\ Len(q0) = 0
  BY <1>1, EmptySeq
<1>3. PICK q1 : q1 = Append(q0, m1)
  OBVIOUS
<1>4. q1 \in Seq(Wire) /\ Len(q1) = 1 /\ q1[1] = m1
  <2>1. /\ q1 \in Seq(Wire) /\ Len(q1) = Len(q0) + 1 /\ q1[Len(q0) + 1] = m1
    BY <1>2, <1>3, AppendFacts
  <2>2. Len(q0) + 1 = 1
    BY <1>2
  <2> QED BY <2>1, <2>2
<1>5. PICK q2 : q2 = Append(q1, m2)
  OBVIOUS
<1>6. q2 \in Seq(Wire) /\ Len(q2) = 2 /\ q2[1] = m1 /\ q2[2] = m2
  <2>0. q1 \in Seq(Wire)
    BY <1>4
  <2>1. /\ q2 \in Seq(Wire) /\ Len(q2) = Len(q1) + 1 /\ q2[Len(q1) + 1] = m2
        /\ \A i \in 1 .. Len(q1) : q2[i] = q1[i]
    BY <1>5, <2>0, AppendFacts
  <2>2. Len(q1) + 1 = 2
    BY <1>4
  <2> QED BY <1>4, <2>1, <2>2
<1>7. PICK q3 : q3 = Append(q2, m3)
  OBVIOUS
<1>8. q3 \in Seq(Wire) /\ Len(q3) = 3 /\ q3[1] = m1 /\ q3[2] = m2 /\ q3[3] = m3
  <2>0. q2 \in Seq(Wire)
    BY <1>6
  <2>1. /\ q3 \in Seq(Wire) /\ Len(q3) = Len(q2) + 1 /\ q3[Len(q2) + 1] = m3
        /\ \A i \in 1 .. Len(q2) : q3[i] = q2[i]
    BY <1>7, <2>0, AppendFacts
  <2>2. Len(q2) + 1 = 3
    BY <1>6
  <2> QED BY <1>6, <2>1, <2>2
<1>9. q3 # q0
  <2>1. Len(q3) = 3 /\ Len(q0) = 0
    BY <1>2, <1>8
  <2> QED BY <2>1
<1>10. q3 # <<>>
  BY <1>1, <1>9
<1>11. Head(q3) = m1
  BY <1>8, <1>10, TailFacts
<1>12. /\ q1 = Append(<<>>, m1) /\ q2 = Append(Append(<<>>, m1), m2)
       /\ q3 = Append(Append(Append(<<>>, m1), m2), m3)
  BY <1>1, <1>3, <1>5, <1>7
<1>13. ThreeOf(q3, m1, m2, m3)
  BY <1>4, <1>6, <1>8, <1>11, <1>12 DEF ThreeOf
<1> QED BY <1>13

\* What network_receive puts into the channel for a client that is let in.
LoginFrames(c, q) ==
  TrySend(c, TrySend(c, TrySend(c, q, EnableCompression), Frame("LoginSuccess", FALSE)),
          Frame("LoginCompression", FALSE))

\* The three messages of a login, on a channel that has room for them.
LEMMA LoginSent ==
  ASSUME 3 <= OutCap, NEW c \in Conns, c \in outbound, writer[c] = "running"
  PROVE  /\ Head(LoginFrames(c, <<>>)) = EnableCompression
         /\ Seam(LoginFrames(c, <<>>)) /\ Ordered(LoginFrames(c, <<>>))
<1>1. PICK no : no = FALSE
  OBVIOUS
<1>2. PICK m1 : m1 = EnableCompression
  OBVIOUS
<1>3. PICK m2 : m2 = Frame("LoginSuccess", no)
  OBVIOUS
<1>4. PICK m3 : m3 = Frame("LoginCompression", no)
  OBVIOUS
<1>5. m1 \in Wire /\ m2 \in Wire /\ m3 \in Wire
  BY <1>1, <1>2, <1>3, <1>4 DEF EnableCompression, Frame, Wire, ServerKinds
<1>6. /\ m1.z = FALSE /\ m1.kind = "EnableCompression"
      /\ m2.z = FALSE /\ m2.kind = "LoginSuccess"
      /\ m3.z = FALSE /\ m3.kind = "LoginCompression"
  BY <1>1, <1>2, <1>3, <1>4 DEF EnableCompression, Frame
<1>7. PICK q : ThreeOf(q, m1, m2, m3)
  BY <1>5, ThreeFrames
<1>8. q = LoginFrames(c, <<>>)
  <2>1. OutCap \in Nat /\ Len(<<>>) = 0
    BY OutCapAssumption, EmptySeq
  <2>2. TrySend(c, <<>>, m1) = Append(<<>>, m1)
    BY <2>1 DEF TrySend
  <2>3. TrySend(c, Append(<<>>, m1), m2) = Append(Append(<<>>, m1), m2)
    BY <1>7, <2>1 DEF TrySend, ThreeOf
  <2>4. TrySend(c, Append(Append(<<>>, m1), m2), m3) = q
    BY <1>7, <2>1 DEF TrySend, ThreeOf
  <2>5. LoginFrames(c, <<>>) = TrySend(c, TrySend(c, TrySend(c, <<>>, m1), m2), m3)
    BY <1>1, <1>2, <1>3, <1>4 DEF LoginFrames
  <2> QED BY <2>2, <2>3, <2>4, <2>5
<1>9. Len(q) = 3 /\ Head(q) = m1 /\ q[1] = m1 /\ q[2] = m2 /\ q[3] = m3
  BY <1>7 DEF ThreeOf
<1>10. Seam(q)
  <2>1. 3 \in 1 .. Len(q) /\ q[3].kind = "LoginCompression"
    BY <1>6, <1>9
  <2>2. \A i \in 1 .. 3 : q[i].z = FALSE /\ (i < 3 => q[i].kind # "LoginCompression")
    <3>1. \A i \in 1 .. 3 : i = 1 \/ i = 2 \/ i = 3
      OBVIOUS
    <3> QED BY <1>6, <1>9, <3>1
  <2>3. \A i \in 3 + 1 .. Len(q) : q[i].z = TRUE
    BY <1>9
  <2> QED BY <2>1, <2>2, <2>3 DEF Seam
<1>11. Ordered(q)
  <2>1. \A i \in 2 .. Len(q) : i = 2 \/ i = 3
    BY <1>9
  <2> QED BY <1>6, <1>9, <2>1 DEF Ordered
<1> QED BY <1>2, <1>8, <1>9, <1>10, <1>11

\* A client that is let in has nothing on the way to it, and says nothing more
\* until it is answered: the seam is the only one.
LEMMA HelloFormats ==
  ASSUME 3 <= OutCap, NInv, FInv, NEW c \in Conns, HandleHello(c)
  PROVE  FInv'
<1>1. Receive(c, "Login", "Hello") /\ "Login" \in States /\ gstate[c] # "none"
  BY DEF HandleHello, States
<1>2. /\ UNCHANGED <<up, down, peer, reader, writer, conn_states, inflate, outbound, step, cz>>
      /\ Resting(c) /\ reader[c] # "absent" /\ HelloRead(c) /\ ~HelloRead(c)'
  BY <1>1, Received
<1>3. Parts(c)
  BY DEF FInv
<1>4. /\ urgent[c] = <<>> /\ out[c] = <<>> /\ c \notin deflate /\ up[c] = <<>>
      /\ step[c] \in {"await success", "refused", "left"}
  <2>1. Unserved(c)
    BY <1>2 DEF Unserved
  <2> QED BY <1>1, <1>2, <1>3, <2>1 DEF Parts, Waits, Polite
<1>5. \/ /\ Compress /\ urgent' = urgent /\ deflate' = deflate \cup {c}
         /\ out' = [out EXCEPT ![c] = LoginFrames(c, out[c])]
      \/ Enqueue(c, <<"LoginSuccess">>) /\ UNCHANGED <<out, deflate>>
  BY DEF HandleHello, LoginFrames
<1>6. gstate' = [gstate EXCEPT ![c] = "Login"]
  BY DEF HandleHello
<1>7. urgent' \in [Conns -> Seq(Queued)] /\ \A d \in Conns : d # c => urgent'[d] = urgent[d]
  <2>1. <<"LoginSuccess">> \in Seq(Queued) /\ urgent \in [Conns -> Seq(Queued)]
    BY QueuedFrames DEF FInv, FTyped
  <2> QED BY <1>5, <2>1, EnqueueQueued
<1>8. Within(c)
  BY <1>5, <1>6, <1>7 DEF NInv, Typed, Within
<1>9. Polite(c)'
  BY <1>2, <1>3, PoliteKept
<1>10. Waits(c)'
  <2>1. ~HelloSent(c)'
    <3>1. up'[c] = <<>> /\ Len(<<>>) = 0
      BY <1>2, <1>4, EmptySeq
    <3> QED BY <3>1 DEF HelloSent
  <2>2. ~Unserved(c)'
    BY <1>2, <1>4, <2>1 DEF Unserved
  <2> QED BY <2>2 DEF Waits
<1>11. Ends(c)'
  BY <1>2, <1>3, <1>5 DEF Parts, Ends
<1>12. CASE UNCHANGED <<out, deflate>>
  <2>1. Format(c)' /\ (c \notin Eager => Incoming(c)')
    BY <1>2, <1>3, <1>12 DEF Parts, Format, Incoming
  <2>2. Parts(c)'
    BY <1>9, <1>10, <1>11, <2>1 DEF Parts
  <2> QED BY <1>1, <1>7, <1>8, <2>2, HandledFormats
<1>13. CASE /\ Compress /\ urgent' = urgent /\ deflate' = deflate \cup {c}
            /\ out' = [out EXCEPT ![c] = LoginFrames(c, out[c])]
  <2>1. Format(c)'
    <3> SUFFICES ASSUME peer[c] # "closed"
                 PROVE  Format(c)'
      BY <1>2 DEF Format
    <3>1. writer[c] = "running" /\ c \in outbound
      <4>1. reader[c] \in Readers
        BY DEF NInv, Typed
      <4> QED BY <1>2, <1>3, <4>1 DEF Parts, Ends, Readers, Past
    <3>2. Head(out'[c]) = EnableCompression /\ Seam(out'[c]) /\ Ordered(out'[c])
      <4>1. out'[c] = LoginFrames(c, <<>>)
        BY <1>4, <1>13 DEF NInv, Typed
      <4> QED BY <3>1, <4>1, LoginSent
    <3>3. c \notin cz /\ Plain(down[c])
      BY <1>3, <1>4 DEF Parts, Format
    <3>4. c \in deflate'
      BY <1>13
    <3> QED BY <1>2, <3>2, <3>3, <3>4 DEF Format
  <2>2. c \notin Eager => Incoming(c)'
    <3>1. up'[c] = <<>> /\ Len(<<>>) = 0
      BY <1>2, <1>4, EmptySeq
    <3>2. peer'[c] = "open" => step'[c] \in {"await success", "acknowledge", "refused"}
      BY <1>2, <1>3, <1>4 DEF Parts, Ends
    <3>3. \A i \in 1 .. Len(up'[c]) : FALSE
      BY <3>1
    <3> QED BY <3>1, <3>2, <3>3 DEF Incoming
  <2>3. Parts(c)'
    BY <1>9, <1>10, <1>11, <2>1, <2>2 DEF Parts
  <2> QED BY <1>1, <1>7, <1>8, <2>3, HandledFormats
<1> QED BY <1>5, <1>12, <1>13

\* What is left of a connection whose close has been handled.
LEMMA ClosedFormats ==
  ASSUME NInv, FInv, NEW c \in Conns, HandleClosed(c)
  PROVE  FInv'
<1> DEFINE h == Closed(c)
<1>1. /\ inbound \in Seq(Message) /\ inbound # <<>> /\ Orderly(inbound) /\ HelloLast(inbound)
      /\ Head(inbound) = h /\ inbound' = Tail(inbound)
  BY DEF NInv, Typed, FInv, HandleClosed
<1>2. h.type = "Closed" /\ h.conn = c
  BY DEF Closed
<1> HIDE DEF h
<1>3. /\ h \in Of(inbound, c) /\ Of(inbound', c) \subseteq Of(inbound, c)
      /\ \A d : d # c => Of(inbound', d) = Of(inbound, d)
      /\ HelloLast(inbound')
  BY <1>1, <1>2, LineShortened, HelloLastShortened
<1>4. reader[c] \in Past
  BY <1>2, <1>3 DEF NInv, Sane, Tagged
<1>5. /\ UNCHANGED <<up, down, peer, fin, reader, writer, conn_states, inflate, outbound, out,
                     step, cz, moves>>
      /\ gstate' = [gstate EXCEPT ![c] = "none"] /\ deflate' = deflate \ {c}
      /\ urgent' = [urgent EXCEPT ![c] = <<>>]
  BY DEF HandleClosed, evars
<1>6. /\ gstate'[c] = "none" /\ urgent'[c] = <<>> /\ c \notin deflate'
      /\ \A d \in Conns : d # c => gstate'[d] = gstate[d] /\ urgent'[d] = urgent[d]
      /\ urgent' \in [Conns -> Seq(Queued)]
  <2>1. <<>> \in Seq(Queued)
    BY EmptySeq
  <2> QED BY <1>5, <2>1 DEF NInv, Typed, FInv, FTyped
<1>7. FTyped'
  BY <1>5, <1>6 DEF FInv, FTyped
<1>8. \A d \in Conns : d # c => Quiet(d)
  BY <1>3, <1>5, <1>6 DEF Quiet
<1>9. Parts(c) /\ Resting(c) /\ peer[c] = "closed"
  BY <1>3, <1>4, <1>5 DEF FInv, Parts, Ends, Resting
<1>10. /\ Polite(c)' /\ (Unserved(c)' => Unserved(c)) /\ (Beyond(c, 2) => Beyond(c, 2)')
       /\ Unserved(c) => \A m \in Of(inbound', c) : m.type = "Packet" => Asking(m.kind)
  BY <1>5, <1>9, PoliteKept
<1>11. Ends(c)'
  BY <1>4, <1>5, <1>6, <1>9 DEF Parts, Ends
<1>12. Waits(c)'
  <2>1. \A i \in 1 .. Len(urgent'[c]) : FALSE
    BY <1>6, EmptySeq
  <2> QED BY <1>5, <1>6, <1>9, <1>10, <2>1 DEF Parts, Waits
<1>13. Format(c)' /\ (c \notin Eager => Incoming(c)')
  BY <1>5, <1>9 DEF Parts, Format, Incoming
<1>14. Parts(c)'
  BY <1>10, <1>11, <1>12, <1>13 DEF Parts
<1> QED BY <1>3, <1>7, <1>8, <1>14, OneAtATime

\* tick_begin throws a frame away.
LEMMA DiscardFormats ==
  ASSUME NInv, FInv, TickBeginDiscard
  PROVE  FInv'
<1>1. /\ inbound \in Seq(Message) /\ inbound # <<>> /\ Orderly(inbound) /\ HelloLast(inbound)
      /\ inbound' = Tail(inbound)
      /\ UNCHANGED <<up, down, peer, fin, reader, writer, conn_states, inflate, outbound, out,
                     gstate, deflate, urgent, step, cz, moves>>
  BY DEF NInv, Typed, FInv, TickBeginDiscard, evars
<1>2. HelloLast(inbound') /\ \A d : Of(inbound', d) \subseteq Of(inbound, d)
  BY <1>1, LineShortened, HelloLastShortened
<1>3. FTyped'
  BY <1>1 DEF FInv, FTyped
<1>4. \A d \in Conns : Quiet(d)
  BY <1>1, <1>2 DEF Quiet
<1> QED BY <1>2, <1>3, <1>4, QuietStep

\* The phases of the tick.
LEMMA PhaseFormats ==
  ASSUME FInv, UNCHANGED <<lvars, gstate, deflate, urgent, evars>>
  PROVE  FInv'
<1>1. HelloLast(inbound') /\ FTyped'
  BY DEF FInv, FTyped, lvars, evars
<1>2. \A d \in Conns : Quiet(d)
  BY DEF Quiet, lvars, evars
<1> QED BY <1>1, <1>2, QuietStep

\* A frame takes the format of its connection when it is flushed: behind the seam
\* it is packed.
LEMMA FlushFormats ==
  ASSUME NInv, FInv, NEW c \in Conns, FlushFrame(c)
  PROVE  FInv'
<1> DEFINE z == c \in deflate
           f == Frame(Head(urgent[c]), z)
           q == TrySend(c, out[c], f)
<1>1. /\ urgent[c] # <<>> /\ out' = [out EXCEPT ![c] = q]
      /\ urgent' = [urgent EXCEPT ![c] = Tail(urgent[c])]
      /\ UNCHANGED <<up, down, peer, fin, reader, writer, conn_states, inflate, inbound, outbound,
                     gstate, deflate, step, cz, moves>>
  BY DEF FlushFrame, evars
<1>2. urgent[c] \in Seq(Queued) /\ out[c] \in Seq(Wire)
  BY DEF NInv, Typed, FInv, FTyped
<1>3. /\ Tail(urgent[c]) \in Seq(Queued) /\ Head(urgent[c]) \in Queued
      /\ Head(urgent[c]) = urgent[c][1] /\ 1 \in 1 .. Len(urgent[c])
      /\ \A i \in 1 .. Len(Tail(urgent[c])) :
           i + 1 \in 1 .. Len(urgent[c]) /\ Tail(urgent[c])[i] = urgent[c][i + 1]
  <2>1. /\ Tail(urgent[c]) \in Seq(Queued) /\ Head(urgent[c]) \in Queued
        /\ Head(urgent[c]) = urgent[c][1] /\ Len(urgent[c]) \in Nat /\ Len(urgent[c]) >= 1
        /\ Len(Tail(urgent[c])) = Len(urgent[c]) - 1
        /\ \A i \in 1 .. Len(urgent[c]) - 1 : Tail(urgent[c])[i] = urgent[c][i + 1]
    BY <1>1, <1>2, TailFacts
  <2> QED BY <2>1
<1>4. z \in BOOLEAN /\ (z <=> c \in deflate)
  OBVIOUS
<1> HIDE DEF z
<1>5. /\ f \in Wire /\ f.z = z /\ f.kind = Head(urgent[c])
      /\ f.kind \notin {"LoginCompression", "EnableCompression"} /\ f # EnableCompression
  BY <1>3, <1>4 DEF Frame, Wire, Queued, EnableCompression
<1> HIDE DEF f
<1>6. q = Append(out[c], f) \/ q = out[c]
  BY DEF TrySend
<1> HIDE DEF q
<1>7. out'[c] = q /\ urgent'[c] = Tail(urgent[c])
  BY <1>1 DEF NInv, Typed
<1>8. FTyped' /\ HelloLast(inbound')
  BY <1>1, <1>3 DEF FInv, FTyped
<1>9. \A d \in Conns : d # c => Quiet(d)
  BY <1>1 DEF NInv, Typed, Quiet
<1>10. Parts(c) /\ Resting(c)
  BY <1>1 DEF FInv, Resting
<1>11. /\ Polite(c)' /\ (Unserved(c)' => Unserved(c)) /\ (Beyond(c, 2) => Beyond(c, 2)')
  BY <1>1, <1>10, PoliteKept
<1>12. Ends(c)'
  BY <1>1, <1>10 DEF Parts, Ends
<1>13. Waits(c)'
  <2> SUFFICES ASSUME Unserved(c)'
               PROVE  /\ Refusals(q)
                      /\ \A i \in 1 .. Len(Tail(urgent[c])) : Tail(urgent[c])[i] = "LoginDisconnect"
                      /\ gstate[c] = "none" /\ Beyond(c, 2)
    BY <1>1, <1>7, <1>10, <1>11 DEF Parts, Waits
  <2>1. /\ Refusals(out[c]) /\ gstate[c] = "none" /\ Beyond(c, 2)
        /\ \A i \in 1 .. Len(urgent[c]) : urgent[c][i] = "LoginDisconnect"
    BY <1>1, <1>10, <1>11 DEF Parts, Waits
  <2>2. f.kind = "LoginDisconnect"
    BY <1>3, <1>5, <2>1
  <2>3. Refusals(Append(out[c], f))
    BY <1>2, <1>5, <2>1, <2>2, WireExtended
  <2> QED BY <1>3, <1>6, <2>1, <2>3
<1>14. Format(c)'
  <2> SUFFICES ASSUME peer[c] # "closed"
               PROVE  Format(c)'
    BY <1>1 DEF Format
  <2>1. CASE /\ c \notin deflate /\ c \notin cz /\ ~inflate[c]
             /\ Plain(down[c]) /\ Plain(out[c])
    <3>1. Plain(Append(out[c], f))
      BY <1>2, <1>4, <1>5, <2>1, WireExtended
    <3> QED BY <1>1, <1>6, <1>7, <2>1, <3>1 DEF Format
  <2>2. CASE /\ c \in deflate /\ c \notin cz
             /\ inflate[c] \/ Head(out[c]) = EnableCompression
             /\ Plain(down[c]) /\ Seam(out[c]) /\ Ordered(out[c])
    <3>1. out[c] # <<>>
      BY <1>2, <2>2, HeadOfSeam
    <3>2. /\ Seam(Append(out[c], f)) /\ Ordered(Append(out[c], f))
          /\ Head(Append(out[c], f)) = Head(out[c])
      BY <1>2, <1>4, <1>5, <2>2, <3>1, WireExtended
    <3> QED BY <1>1, <1>6, <1>7, <2>2, <3>2 DEF Format
  <2>3. CASE /\ c \in deflate /\ c \notin cz /\ inflate[c]
             /\ Seam(down[c]) /\ Packed(out[c])
    <3>1. Packed(Append(out[c], f))
      BY <1>2, <1>4, <1>5, <2>3, WireExtended
    <3> QED BY <1>1, <1>6, <1>7, <2>3, <3>1 DEF Format
  <2>4. CASE /\ c \in deflate /\ c \in cz /\ inflate[c]
             /\ Packed(down[c]) /\ Packed(out[c])
    <3>1. Packed(Append(out[c], f))
      BY <1>2, <1>4, <1>5, <2>4, WireExtended
    <3> QED BY <1>1, <1>6, <1>7, <2>4, <3>1 DEF Format
  <2> QED BY <1>10, <2>1, <2>2, <2>3, <2>4 DEF Parts, Format
<1>15. c \notin Eager => Incoming(c)'
  <2> SUFFICES ASSUME c \notin Eager
               PROVE  Incoming(c)'
    OBVIOUS
  <2>1. ASSUME NEW i \in 1 .. Len(q), q[i] = EnableCompression
        PROVE  up[c] = <<>>
    <3>1. CASE q = out[c]
      BY <1>10, <2>1, <3>1 DEF Parts, Incoming
    <3>2. CASE q = Append(out[c], f)
      <4>1. /\ Len(out[c]) \in Nat /\ Len(q) = Len(out[c]) + 1 /\ q[Len(out[c]) + 1] = f
            /\ \A j \in 1 .. Len(out[c]) : q[j] = out[c][j]
        BY <1>2, <1>5, <3>2, AppendFacts
      <4>2. i \in 1 .. Len(out[c])
        BY <1>5, <2>1, <4>1
      <4> QED BY <1>10, <2>1, <4>1, <4>2 DEF Parts, Incoming
    <3> QED BY <1>6, <3>1, <3>2
  <2> QED BY <1>1, <1>7, <1>10, <2>1 DEF Parts, Incoming
<1>16. Parts(c)'
  BY <1>11, <1>12, <1>13, <1>14, <1>15 DEF Parts
<1> QED BY <1>8, <1>9, <1>16, OneAtATime

----------------------------------------------------------------------------
(* The clients *)

\* Where a frame takes a client: never back to the start of the protocol.
LEMMA OnReadFacts ==
  ASSUME NEW s \in Steps, NEW k
  PROVE  /\ OnRead(s, k) \in Steps
         /\ OnRead(s, k) \in {"connect", "intend", "hello", "left"} => OnRead(s, k) = s
         /\ k = "LoginDisconnect" => OnRead(s, k) = "refused"
         /\ s \in {"await success", "acknowledge", "refused"} =>
              OnRead(s, k) \in {"await success", "acknowledge", "refused"}
  BY DEF OnRead, Steps

\* A client that waits for LoginCompression sends in the format the server reads:
\* it has read it, or there is none.
LEMMA SendsAsRead ==
  ASSUME FInv, NEW c \in Conns, peer[c] = "open", c \notin Eager,
         c \in deflate /\ c \notin cz => step[c] \notin {"await success", "acknowledge", "refused"}
  PROVE  /\ c \in cz <=> inflate[c]
         /\ c \in deflate => c \in cz
         /\ \A i \in 1 .. Len(out[c]) : out[c][i] # EnableCompression
<1>1. Format(c) /\ Incoming(c) /\ inflate[c] \in BOOLEAN
  BY DEF FInv, FTyped, Parts
<1>2. c \in deflate => c \in cz
  BY <1>1 DEF Incoming
<1>3. \/ c \notin deflate /\ c \notin cz /\ ~inflate[c] /\ Plain(out[c])
      \/ c \in deflate /\ c \in cz /\ inflate[c] /\ Packed(out[c])
  BY <1>1, <1>2 DEF Format
<1>4. EnableCompression.kind = "EnableCompression" /\ EnableCompression.z = FALSE
  BY DEF EnableCompression
<1>5. \A i \in 1 .. Len(out[c]) : out[c][i] # EnableCompression
  BY <1>3, <1>4 DEF Plain, Packed
<1> QED BY <1>2, <1>3, <1>5

\* What a client that sends leaves as it was.
LEMMA SentUp ==
  ASSUME NInv, FInv, NEW c \in Conns, NEW from, NEW k \in ClientKinds, NEW to \in Steps,
         Send(c, from, k, to)
  PROVE  /\ peer[c] = "open" /\ step[c] = from /\ step'[c] = to
         /\ UNCHANGED <<down, peer, cz, fin, reader, writer, conn_states, inflate, inbound,
                        outbound, out, deflate, urgent, gstate>>
         /\ FTyped' /\ HelloLast(inbound') /\ \A d \in Conns : d # c => Quiet(d)
         /\ Len(up[c]) \in Nat /\ Len(up'[c]) = Len(up[c]) + 1
         /\ up'[c][Len(up[c]) + 1].kind = k
         /\ up'[c][Len(up[c]) + 1].z \in BOOLEAN /\ (up'[c][Len(up[c]) + 1].z <=> c \in cz)
         /\ \A i \in 1 .. Len(up[c]) : up'[c][i] = up[c][i]
<1> DEFINE z == c \in cz
           f == Frame(k, z)
<1>1. /\ step[c] = from /\ peer[c] = "open" /\ up' = [up EXCEPT ![c] = Append(up[c], f)]
      /\ step' = [step EXCEPT ![c] = to]
      /\ UNCHANGED <<down, peer, cz, fin, reader, writer, conn_states, inflate, inbound,
                     outbound, out, deflate, urgent, gstate>>
  BY DEF Send, ClientSame, gvars
<1>2. z \in BOOLEAN /\ (z <=> c \in cz)
  OBVIOUS
<1> HIDE DEF z
<1>3. f \in Upward /\ f.kind = k /\ f.z = z
  BY <1>2 DEF Frame, Upward
<1> HIDE DEF f
<1>4. up \in [Conns -> Seq(Upward)]
  BY DEF NInv, Typed, Upward
<1>5. /\ Len(up[c]) \in Nat /\ Len(Append(up[c], f)) = Len(up[c]) + 1
      /\ Append(up[c], f)[Len(up[c]) + 1] = f
      /\ \A i \in 1 .. Len(up[c]) : Append(up[c], f)[i] = up[c][i]
  BY <1>3, <1>4, AppendFacts
<1>6. up'[c] = Append(up[c], f) /\ \A d \in Conns : d # c => up'[d] = up[d]
  BY <1>1, <1>4
<1>7. step'[c] = to /\ \A d \in Conns : d # c => step'[d] = step[d]
  BY <1>1 DEF FInv, FTyped
<1>8. FTyped' /\ HelloLast(inbound')
  BY <1>1 DEF FInv, FTyped
<1>9. \A d \in Conns : d # c => Quiet(d)
  BY <1>1, <1>6, <1>7 DEF Quiet
<1> QED BY <1>1, <1>2, <1>3, <1>5, <1>6, <1>7, <1>8, <1>9

\* The indices of a sequence that is one longer.
LEMMA OneMore ==
  \A l \in Nat : \A n : n = l + 1 => \A i \in 1 .. n : i = l + 1 \/ i \in 1 .. l
  OBVIOUS

\* A client sends: what it asks for, Hello, which it says once, or an answer of a
\* client that has been let in or has asked for the status.
LEMMA SendFormats ==
  ASSUME NInv, FInv, NEW c \in Conns, NEW from, NEW k \in ClientKinds, NEW to \in Steps,
         Send(c, from, k, to),
         from \notin {"connect", "await success", "refused", "left"},
         to \notin {"connect", "intend", "left"},
         from = "acknowledge" /\ Compress /\ c \notin Eager => c \in cz,
         \/ k # "Hello" /\ to # "hello"
         \/ k \in LoginIntents /\ from = "intend" /\ to = "hello"
         \/ k = "Hello" /\ from = "hello" /\ to = "await success"
  PROVE  FInv'
<1>1. /\ peer[c] = "open" /\ step[c] = from /\ step'[c] = to
      /\ UNCHANGED <<down, peer, cz, fin, reader, writer, conn_states, inflate, inbound,
                     outbound, out, deflate, urgent, gstate>>
      /\ FTyped' /\ HelloLast(inbound') /\ \A d \in Conns : d # c => Quiet(d)
      /\ Len(up[c]) \in Nat /\ Len(up'[c]) = Len(up[c]) + 1
      /\ up'[c][Len(up[c]) + 1].kind = k
      /\ up'[c][Len(up[c]) + 1].z \in BOOLEAN /\ (up'[c][Len(up[c]) + 1].z <=> c \in cz)
      /\ \A i \in 1 .. Len(up[c]) : up'[c][i] = up[c][i]
  BY SentUp
<1> DEFINE l == Len(up[c])
<1>2. \A i \in 1 .. Len(up'[c]) : i = l + 1 \/ i \in 1 .. l
  BY <1>1, OneMore
<1>3. Ends(c) /\ Polite(c) /\ Waits(c) /\ (c \notin Eager => Incoming(c)) /\ Format(c)
  BY DEF FInv, Parts
<1>4. ~HelloSent(c) /\ ~HelloRead(c) /\ ~HelloRead(c)'
  BY <1>1, <1>3 DEF Polite, HelloRead
<1>5. k # "Hello" => ~HelloSent(c)'
  BY <1>1, <1>2, <1>4 DEF HelloSent
<1>6. \A i \in 1 .. l : up[c][i].kind # "Hello"
  BY <1>4 DEF HelloSent
<1>7. Ends(c)'
  BY <1>1, <1>3 DEF Ends
<1>8. Polite(c)'
  <2>1. step'[c] \notin {"connect", "intend"} /\ (step'[c] = "hello" => ~HelloSent(c)')
    BY <1>1, <1>5 DEF LoginIntents
  <2>2. HelloSent(c)' => step'[c] = "await success"
    <3>1. "Hello" \notin LoginIntents
      BY DEF LoginIntents
    <3> QED BY <1>1, <1>5, <3>1
  <2>3. \A i \in 1 .. Len(up'[c]) : up'[c][i].kind = "Hello" => i = Len(up'[c])
    BY <1>1, <1>2, <1>6
  <2> QED BY <1>4, <2>1, <2>2, <2>3 DEF Polite
<1>9. Waits(c)'
  <2>1. CASE k # "Hello" /\ to # "hello"
    <3>1. ~Unserved(c)'
      BY <1>1, <1>4, <1>5, <2>1 DEF Unserved
    <3> QED BY <3>1 DEF Waits
  <2>2. CASE \/ k \in LoginIntents /\ from = "intend" /\ to = "hello"
             \/ k = "Hello" /\ from = "hello" /\ to = "await success"
    <3>1. Unserved(c) /\ Asking(k)
      BY <1>1, <2>2 DEF Unserved, Asking
    <3>2. \A i \in 1 .. Len(up'[c]) : Asking(up'[c][i].kind)
      BY <1>1, <1>2, <1>3, <3>1 DEF Waits
    <3>3. Beyond(c, 2) => Beyond(c, 2)'
      BY <1>1 DEF Beyond
    <3> QED BY <1>1, <1>3, <3>1, <3>2, <3>3 DEF Waits
  <2> QED BY <2>1, <2>2
<1>10. Format(c)'
  BY <1>1, <1>3 DEF Format
<1>11. c \notin Eager => Incoming(c)'
  <2> SUFFICES ASSUME c \notin Eager
               PROVE  Incoming(c)'
    OBVIOUS
  <2>1. c \in deflate /\ c \notin cz => step[c] \notin {"await success", "acknowledge", "refused"}
    BY <1>1, <1>3 DEF Ends
  <2>2. /\ c \in cz <=> inflate[c]
        /\ c \in deflate => c \in cz
        /\ \A i \in 1 .. Len(out[c]) : out[c][i] # EnableCompression
    BY <1>1, <2>1, SendsAsRead
  <2>3. inflate[c] \in BOOLEAN /\ \A i \in 1 .. l : up[c][i].z = inflate[c]
    BY <1>3 DEF FInv, FTyped, Incoming
  <2> QED BY <1>1, <1>2, <2>2, <2>3 DEF Incoming
<1>12. Parts(c)'
  BY <1>7, <1>8, <1>9, <1>10, <1>11 DEF Parts
<1> QED BY <1>1, <1>12, OneAtATime

\* A client opens its connection.
LEMMA ConnectFormats ==
  ASSUME NInv, FInv, NEW c \in Conns, Connect(c)
  PROVE  FInv'
<1>1. /\ step[c] = "connect" /\ step' = [step EXCEPT ![c] = "intend"]
      /\ peer' = [peer EXCEPT ![c] = "open"]
      /\ UNCHANGED <<up, down, cz, fin, reader, writer, conn_states, inflate, inbound, outbound,
                     out, deflate, urgent, gstate>>
  BY DEF Connect, ClientSame, gvars
<1>2. /\ step'[c] = "intend" /\ peer'[c] = "open"
      /\ \A d \in Conns : d # c => step'[d] = step[d] /\ peer'[d] = peer[d]
  BY <1>1 DEF FInv, FTyped
<1>3. FTyped' /\ HelloLast(inbound')
  BY <1>1 DEF FInv, FTyped, Steps
<1>4. \A d \in Conns : d # c => Quiet(d)
  BY <1>1, <1>2 DEF Quiet
<1>5. Ends(c) /\ Polite(c) /\ Waits(c) /\ Format(c) /\ (c \notin Eager => Incoming(c))
  BY DEF FInv, Parts
<1>6. /\ peer[c] = "absent" /\ reader[c] = "absent" /\ ~HelloSent(c) /\ ~HelloRead(c)
      /\ up[c] = <<>> /\ Of(inbound, c) = {} /\ Unserved(c)
  BY <1>1, <1>5 DEF Ends, Polite, Unserved
<1>7. ~HelloSent(c)' /\ ~HelloRead(c)'
  BY <1>1, <1>6 DEF HelloSent, HelloRead
<1>8. Ends(c)'
  BY <1>1, <1>2, <1>5, <1>6 DEF Ends, Past
<1>9. Polite(c)'
  BY <1>1, <1>2, <1>5, <1>6, <1>7 DEF Polite
<1>10. Waits(c)'
  <2>1. Beyond(c, 2) => Beyond(c, 2)'
    BY <1>1 DEF Beyond
  <2> QED BY <1>1, <1>5, <1>6, <2>1 DEF Waits
<1>11. Format(c)' /\ c \notin deflate
  BY <1>1, <1>5, <1>6 DEF Format, Waits
<1>12. c \notin Eager => Incoming(c)'
  BY <1>1, <1>5, <1>11 DEF Incoming
<1>13. Parts(c)'
  BY <1>8, <1>9, <1>10, <1>11, <1>12 DEF Parts
<1> QED BY <1>3, <1>4, <1>13, OneAtATime

\* A client leaves; what it had sent may be lost.
LEMMA LeaveFormats ==
  ASSUME NInv, FInv, NEW c \in Conns, Leave(c)
  PROVE  FInv'
<1>1. /\ peer[c] = "open" /\ peer' = [peer EXCEPT ![c] = "closed"]
      /\ up' = up \/ up' = [up EXCEPT ![c] = <<>>]
      /\ down' = [down EXCEPT ![c] = <<>>] /\ step' = [step EXCEPT ![c] = "left"]
      /\ cz' = cz \ {c}
      /\ UNCHANGED <<fin, reader, writer, conn_states, inflate, inbound, outbound, out,
                     deflate, urgent, gstate>>
  BY DEF Leave, ClientSame, gvars
<1>2. <<>> \in Seq(Wire) /\ Len(<<>>) = 0
  BY EmptySeq
<1>3. /\ step'[c] = "left" /\ peer'[c] = "closed" /\ down'[c] = <<>>
      /\ up'[c] = up[c] \/ up'[c] = <<>>
      /\ \A d \in Conns : d # c => /\ step'[d] = step[d] /\ peer'[d] = peer[d]
                                   /\ down'[d] = down[d] /\ up'[d] = up[d]
  BY <1>1 DEF NInv, Typed, FInv, FTyped
<1>4. FTyped' /\ HelloLast(inbound')
  BY <1>1, <1>2 DEF FInv, FTyped, Steps
<1>5. \A d \in Conns : d # c => Quiet(d)
  BY <1>1, <1>3 DEF Quiet
<1>6. Ends(c) /\ Polite(c) /\ Waits(c) /\ (c \notin Eager => Incoming(c))
  BY DEF FInv, Parts
<1>7. PICK l \in Seq(Upward) : l = up'[c] /\ (l = up[c] \/ \A i \in 1 .. Len(l) : FALSE)
  <2>1. up[c] \in Seq(Upward) /\ <<>> \in Seq(Upward)
    BY EmptySeq DEF NInv, Typed, Upward
  <2>2. \A i \in 1 .. Len(<<>>) : FALSE
    BY <1>2
  <2> QED BY <1>3, <2>1, <2>2
<1>8. (HelloSent(c)' => HelloSent(c)) /\ (HelloRead(c)' <=> HelloRead(c))
  BY <1>1, <1>7 DEF HelloSent, HelloRead
<1>9. Unserved(c)' => Unserved(c)
  BY <1>3, <1>8 DEF Unserved
<1>10. Ends(c)'
  BY <1>1, <1>3, <1>6 DEF Ends, Past
<1>11. Polite(c)'
  <2>1. \A i \in 1 .. Len(l) : l[i].kind = "Hello" => i = Len(l) /\ ~HelloRead(c)
    BY <1>6, <1>7 DEF Polite
  <2>2. HelloRead(c) => up'[c] = <<>>
    BY <1>3, <1>6 DEF Polite
  <2> QED BY <1>3, <1>7, <1>8, <2>1, <2>2 DEF Polite
<1>12. Waits(c)'
  <2> SUFFICES ASSUME Unserved(c)
               PROVE  Waits(c)'
    BY <1>9 DEF Waits
  <2>1. Refusals(down'[c])
    BY <1>2, <1>3 DEF Refusals
  <2>2. \A i \in 1 .. Len(l) : Asking(l[i].kind)
    BY <1>6, <1>7 DEF Waits
  <2>3. Beyond(c, 2) => Beyond(c, 2)'
    BY <1>1 DEF Beyond
  <2> QED BY <1>1, <1>6, <1>7, <2>1, <2>2, <2>3 DEF Waits
<1>13. Format(c)'
  BY <1>3 DEF Format
<1>14. c \notin Eager => Incoming(c)'
  <2> SUFFICES ASSUME c \notin Eager
               PROVE  Incoming(c)'
    OBVIOUS
  <2>1. \A i \in 1 .. Len(l) : l[i].z = inflate[c]
    BY <1>6, <1>7 DEF Incoming
  <2>2. (\E i \in 1 .. Len(out[c]) : out[c][i] = EnableCompression) => up'[c] = <<>>
    BY <1>3, <1>6 DEF Incoming
  <2> QED BY <1>1, <1>3, <1>7, <2>1, <2>2 DEF Incoming
<1>15. Parts(c)'
  BY <1>10, <1>11, <1>12, <1>13, <1>14 DEF Parts
<1> QED BY <1>4, <1>5, <1>15, OneAtATime

\* A client reads a frame: a refusal while it may still be let in; LoginCompression
\* is where it goes over to the packed format.
LEMMA ReadFormats ==
  ASSUME NInv, FInv, NEW c \in Conns, Read(c)
  PROVE  FInv'
<1> DEFINE h == Head(down[c])
           t == Tail(down[c])
           s == OnRead(step[c], h.kind)
<1>1. /\ peer[c] = "open" /\ down[c] # <<>> /\ down' = [down EXCEPT ![c] = t]
      /\ step' = [step EXCEPT ![c] = s]
      /\ cz' = IF h.kind = "LoginCompression" THEN cz \cup {c} ELSE cz
      /\ UNCHANGED <<up, peer, fin, reader, writer, conn_states, inflate, inbound, outbound, out,
                     deflate, urgent, gstate>>
  BY DEF Read, ClientSame, gvars
<1>2. down[c] \in Seq(Wire) /\ step[c] \in Steps
  BY DEF FInv, FTyped
<1>3. h \in Wire /\ t \in Seq(Wire)
  BY <1>1, <1>2, TailFacts
<1>4. /\ s \in Steps
      /\ s \in {"connect", "intend", "hello", "left"} => s = step[c]
      /\ h.kind = "LoginDisconnect" => s = "refused"
      /\ step[c] \in {"await success", "acknowledge", "refused"} =>
           s \in {"await success", "acknowledge", "refused"}
  BY <1>2, OnReadFacts
<1>5. Ends(c) /\ Polite(c) /\ Waits(c) /\ Format(c) /\ (c \notin Eager => Incoming(c))
  BY DEF FInv, Parts
<1>6. Refusals(down[c]) => Refusals(t) /\ h.kind = "LoginDisconnect"
  BY <1>1, <1>2, HeadOfWire
<1>7. /\ Plain(down[c]) => Plain(t) /\ h.kind # "LoginCompression"
      /\ Packed(down[c]) => Packed(t)
      /\ Seam(down[c]) => IF h.kind = "LoginCompression" THEN Packed(t) ELSE Seam(t)
  BY <1>1, <1>2, HeadOfWire, HeadOfSeam
<1> HIDE DEF h, t, s
<1>8. /\ step'[c] = s /\ down'[c] = t
      /\ \A d \in Conns : d # c => step'[d] = step[d] /\ down'[d] = down[d]
      /\ \A d \in Conns : d # c => (d \in cz' <=> d \in cz)
      /\ c \in cz' <=> c \in cz \/ h.kind = "LoginCompression"
  BY <1>1 DEF FInv, FTyped
<1>9. FTyped' /\ HelloLast(inbound')
  BY <1>1, <1>3, <1>4 DEF FInv, FTyped
<1>10. \A d \in Conns : d # c => Quiet(d)
  BY <1>1, <1>8 DEF Quiet
<1>11. (HelloSent(c)' <=> HelloSent(c)) /\ (HelloRead(c)' <=> HelloRead(c))
  BY <1>1 DEF HelloSent, HelloRead
<1>12. Unserved(c)' => Unserved(c)
  BY <1>4, <1>8, <1>11 DEF Unserved
<1>13. Ends(c)'
  BY <1>1, <1>4, <1>5, <1>8 DEF Ends
<1>14. Polite(c)'
  <2>1. HelloSent(c) \/ HelloRead(c) => s = "refused"
    BY <1>4, <1>5, <1>6 DEF Waits, Unserved
  <2> QED BY <1>1, <1>4, <1>5, <1>8, <1>11, <2>1 DEF Polite
<1>15. Waits(c)'
  <2>1. Beyond(c, 2) => Beyond(c, 2)'
    BY <1>1 DEF Beyond
  <2> QED BY <1>1, <1>5, <1>6, <1>8, <1>12, <2>1 DEF Waits
<1>16. Format(c)'
  BY <1>1, <1>5, <1>7, <1>8 DEF Format
<1>17. c \notin Eager => Incoming(c)'
  BY <1>1, <1>4, <1>5, <1>8 DEF Incoming
<1>18. Parts(c)'
  BY <1>13, <1>14, <1>15, <1>16, <1>17 DEF Parts
<1> QED BY <1>9, <1>10, <1>18, OneAtATime

\* What a client does on its own.
LEMMA ClientFormats ==
  ASSUME NInv, FInv, NEW c \in Conns, ClientStep(c) \/ Connect(c) \/ Leave(c)
  PROVE  FInv'
<1>1. CASE SendStatus(c)
  <2>1. /\ \A k \in StatusIntents : k \in ClientKinds /\ k # "Hello"
        /\ "StatusRequest" \in ClientKinds /\ "Ping" \in ClientKinds
        /\ "request" \in Steps /\ "await status" \in Steps /\ "await ping" \in Steps
    BY DEF ClientKinds, StatusIntents, Steps
  <2>2. CASE \E k \in Intents[c] \cap StatusIntents : Send(c, "intend", k, "request")
    <3>1. PICK k \in StatusIntents : Send(c, "intend", k, "request")
      BY <2>2
    <3> QED BY <2>1, <3>1, SendFormats
  <2>3. CASE \/ Send(c, "request", "StatusRequest", "await status")
             \/ Send(c, "ping", "Ping", "await ping")
    BY <2>1, <2>3, SendFormats
  <2> QED BY <1>1, <2>2, <2>3 DEF SendStatus
<1>2. CASE SendLogin(c)
  <2>1. CASE \E k \in Intents[c] \cap LoginIntents : Send(c, "intend", k, "hello")
    <3>1. PICK k \in LoginIntents : Send(c, "intend", k, "hello")
      BY <2>1
    <3>2. k \in ClientKinds /\ "hello" \in Steps
      BY DEF ClientKinds, Steps
    <3> QED BY <3>1, <3>2, SendFormats
  <2>2. CASE Send(c, "hello", "Hello", "await success")
    <3>1. "Hello" \in ClientKinds /\ "await success" \in Steps
      BY DEF ClientKinds, Steps
    <3> QED BY <2>2, <3>1, SendFormats
  <2>3. CASE \/ /\ Compress /\ c \notin Eager => c \in cz
                /\ Send(c, "acknowledge", "Ack", "inform")
             \/ Send(c, "inform", "ClientInformation", "configure")
             \/ Send(c, "finish", "Ack", "join")
    <3>1. /\ "Ack" \in ClientKinds /\ "ClientInformation" \in ClientKinds
          /\ "inform" \in Steps /\ "configure" \in Steps /\ "join" \in Steps
      BY DEF ClientKinds, Steps
    <3> QED BY <2>3, <3>1, SendFormats
  <2> QED BY <1>2, <2>1, <2>2, <2>3 DEF SendLogin
<1>3. CASE SendMove(c)
  <2>1. "Move" \in ClientKinds /\ "play" \in Steps
    BY DEF ClientKinds, Steps
  <2> QED BY <1>3, <2>1, SendFormats DEF SendMove
<1>4. CASE Read(c)
  BY <1>4, ReadFormats
<1>5. CASE Connect(c)
  BY <1>5, ConnectFormats
<1>6. CASE Leave(c)
  BY <1>6, LeaveFormats
<1> QED BY <1>1, <1>2, <1>3, <1>4, <1>5, <1>6 DEF ClientStep

----------------------------------------------------------------------------
(* Who is let in *)

\* A client that may still be let in has no player.
JInv == \A c \in Conns : Unserved(c) => c \notin joined

\* What the game does to what clients have sent: it takes messages out of the line.
LEMMA GameTakes ==
  ASSUME GameStep
  PROVE  /\ UNCHANGED <<up, step>>
         /\ inbound' = inbound \/ (inbound # <<>> /\ inbound' = Tail(inbound))
         /\ joined' = joined \/ \E c \in Conns : HandleHello(c)
<1> DEFINE P == /\ UNCHANGED <<up, step>>
                /\ inbound' = inbound \/ (inbound # <<>> /\ inbound' = Tail(inbound))
           Q == joined' = joined \/ \E c \in Conns : HandleHello(c)
<1>0. ASSUME NEW c, NEW s, NEW k, Receive(c, s, k)
      PROVE  P
  BY <1>0 DEF Receive, evars
<1> HIDE DEF P
<1>1. ASSUME NEW c \in Conns, NEW s \in States, NEW k \in ClientKinds, Undispatched(c, s, k)
      PROVE  P /\ Q
  BY <1>0, <1>1 DEF Undispatched
<1>2. ASSUME NEW c \in Conns, NEW k \in ClientKinds, HandleIntention(c, k) \/ HandleStatus(c, k)
      PROVE  P /\ Q
  BY <1>0, <1>2 DEF HandleIntention, HandleStatus
<1>3. ASSUME NEW c \in Conns,
             \/ HelloIgnored(c) \/ HandleLoginAcknowledged(c) \/ HandleClientInformation(c)
             \/ HandleFinishConfiguration(c) \/ HandlePlayerPosition(c)
      PROVE  P /\ Q
  BY <1>0, <1>3 DEF HelloIgnored, HandleLoginAcknowledged, HandleClientInformation,
     HandleFinishConfiguration, HandlePlayerPosition
<1>4. ASSUME NEW c \in Conns, HandleHello(c)
      PROVE  P /\ Q
  BY <1>0, <1>4 DEF HandleHello
<1>5. ASSUME NEW c \in Conns, HandleClosed(c) \/ FlushFrame(c)
      PROVE  P /\ Q
  BY <1>5 DEF HandleClosed, FlushFrame, evars, P
<1>6. ASSUME ReceiveEnds \/ TickBeginDiscard \/ TickBegin
      PROVE  P /\ Q
  BY <1>6 DEF ReceiveEnds, TickBeginDiscard, TickBegin, lvars, evars, P
<1> HIDE DEF Q
<1>7. P /\ Q
  BY <1>1, <1>2, <1>3, <1>4, <1>5, <1>6 DEF GameStep
<1> QED BY <1>7 DEF P, Q

\* A longer line holds one message more.
LEMMA LongerLine ==
  ASSUME NEW q \in Seq(Message), NEW n \in Message, NEW c
  PROVE  Of(Append(q, n), c) \subseteq Of(q, c) \cup {n}
<1> DEFINE t == Append(q, n)
           l == Len(q)
<1>1. /\ l \in Nat /\ Len(t) = l + 1 /\ t[l + 1] = n /\ \A i \in 1 .. l : t[i] = q[i]
  BY AppendFacts
<1> HIDE DEF t, l
<1>2. ASSUME NEW i \in 1 .. Len(t), t[i].conn = c
      PROVE  t[i] = n \/ (i \in 1 .. l /\ t[i] = q[i] /\ q[i].conn = c)
  <2>1. i = l + 1 \/ i \in 1 .. l
    BY <1>1, OneMore
  <2> QED BY <1>1, <1>2, <2>1
<1> QED BY <1>2 DEF Of, t, l

\* Nobody becomes one that may be let in again.
LEMMA UnservedBefore ==
  ASSUME NInv, FInv, [NNext]_nvars, NEW c \in Conns, Unserved(c)'
  PROVE  Unserved(c)
<1>0. inbound \in Seq(Message) /\ Orderly(inbound)
  BY DEF NInv, Typed
<1>1. CASE UNCHANGED nvars
  BY <1>1 DEF nvars, lvars, evars, Unserved, HelloSent, HelloRead, Of
<1>2. CASE GameStep
  <2>1. up' = up /\ step' = step /\ Of(inbound', c) \subseteq Of(inbound, c)
    BY <1>0, <1>2, GameTakes, LineShortened
  <2> QED BY <2>1 DEF Unserved, HelloSent, HelloRead
<1>3. ASSUME NEW d \in Conns, ListenerStep(d)
      PROVE  Unserved(c)
  <2>1. step' = step
    BY <1>3 DEF ListenerStep, evars
  <2>2. HelloSent(c)' => HelloSent(c)
    <3>1. up'[c] = up[c] \/ (up[c] # <<>> /\ up'[c] = Tail(up[c]))
      BY <1>3 DEF NInv, Typed, ListenerStep, Accept, RemoveOutbound, DropGarbled, ProcessFrame,
         ReadEnds, SendClosed, AbortWriter, WriterStep, WriteFrame, WriteEnableCompression,
         WriterEnds
    <3>2. CASE up'[c] = up[c]
      BY <3>2 DEF HelloSent
    <3>3. CASE up[c] # <<>> /\ up'[c] = Tail(up[c])
      <4>1. \A i \in 1 .. Len(up'[c]) : i + 1 \in 1 .. Len(up[c]) /\ up'[c][i] = up[c][i + 1]
        BY <3>3, HeadOfUp
      <4> QED BY <4>1 DEF HelloSent
    <3> QED BY <3>1, <3>2, <3>3
  <2>3. HelloRead(c)' => HelloRead(c) \/ HelloSent(c)
    <3>1. CASE inbound' = inbound
      BY <3>1 DEF HelloRead, Of
    <3>2. CASE SendClosed(d)
      <4> DEFINE m == Closed(d)
      <4>1. m \in Message /\ m.conn = d /\ m.type = "Closed"
        BY DEF Closed, Message
      <4>2. inbound' = Append(inbound, m)
        BY <3>2 DEF SendClosed
      <4> HIDE DEF m
      <4>3. Of(inbound', c) \subseteq Of(inbound, c) \cup {m}
        BY <1>0, <4>1, <4>2, LongerLine
      <4> QED BY <4>1, <4>3 DEF HelloRead, IsHello
    <3>3. CASE ProcessFrame(d) /\ inbound' # inbound
      <4> DEFINE k == Head(up[d]).kind
                 m == Packet(d, conn_states[d], k)
      <4>1. up[d] # <<>> /\ inbound' = Append(inbound, m) /\ conn_states[d] \in States
        BY <3>3 DEF ProcessFrame, NInv, Typed, Sane, Tagged
      <4>2. /\ k = up[d][1].kind /\ k \in ClientKinds /\ 1 \in 1 .. Len(up[d])
        BY <4>1, HeadOfUp
      <4>3. m \in Message /\ m.conn = d /\ m.kind = k
        BY <4>1, <4>2 DEF Packet, Message
      <4> HIDE DEF m
      <4>4. /\ Of(inbound', c) \subseteq Of(inbound, c) \cup {m}
            /\ \A n \in Of(inbound', c) : n.conn = c
        BY <1>0, <4>1, <4>3, LongerLine DEF Of
      <4>5. k = "Hello" => HelloSent(d)
        BY <4>2 DEF HelloSent
      <4> QED BY <4>3, <4>4, <4>5 DEF HelloRead, IsHello
    <3> QED BY <1>3, <3>1, <3>2, <3>3 DEF ListenerStep, Accept, RemoveOutbound, DropGarbled,
            ReadEnds, AbortWriter, WriterStep, WriteFrame, WriteEnableCompression, WriterEnds
  <2> QED BY <2>1, <2>2, <2>3 DEF Unserved
<1>4. ASSUME NEW d \in Conns, ClientStep(d) \/ Connect(d) \/ Leave(d)
      PROVE  Unserved(c)
  <2>1. inbound' = inbound
    BY <1>4 DEF ClientStep, SendStatus, SendLogin, SendMove, Send, Read, Connect, Leave, ClientSame
  <2>2. HelloRead(c)' => HelloRead(c)
    BY <2>1 DEF HelloRead, Of
  <2>3. step \in [Conns -> Steps] /\ up \in [Conns -> Seq(Upward)]
    BY DEF NInv, Typed, FInv, FTyped, Upward
  <2>4. ASSUME NEW from, NEW k, NEW to, Send(d, from, k, to),
               \/ k # "Hello" /\ to \notin {"connect", "intend", "hello"}
               \/ from \in {"intend", "hello"}
        PROVE  Unserved(c)
    <3> DEFINE f == Frame(k, d \in cz)
    <3>1. /\ step[d] = from /\ up' = [up EXCEPT ![d] = Append(@, f)]
          /\ step' = [step EXCEPT ![d] = to]
      BY <2>4 DEF Send
    <3>2. f.kind = k
      BY DEF Frame
    <3> HIDE DEF f
    <3>3. CASE d # c
      <4>1. up'[c] = up[c] /\ step'[c] = step[c]
        BY <2>3, <3>1, <3>3
      <4> QED BY <2>2, <4>1 DEF Unserved, HelloSent
    <3>4. CASE d = c /\ from \in {"intend", "hello"}
      BY <3>1, <3>4 DEF Unserved
    <3>5. CASE d = c /\ k # "Hello" /\ to \notin {"connect", "intend", "hello"}
      <4>1. up'[c] = Append(up[c], f) /\ step'[c] = to /\ up[c] \in Seq(Upward)
        BY <2>3, <3>1, <3>5
      <4>2. /\ Len(up[c]) \in Nat /\ Len(up'[c]) = Len(up[c]) + 1
            /\ up'[c][Len(up[c]) + 1] = f
            /\ \A i \in 1 .. Len(up[c]) : up'[c][i] = up[c][i]
        BY <4>1
      <4>3. HelloSent(c)' => HelloSent(c)
        BY <3>2, <3>5, <4>2 DEF HelloSent
      <4> QED BY <2>2, <3>5, <4>1, <4>3 DEF Unserved
    <3> QED BY <2>4, <3>3, <3>4, <3>5
  <2>5. CASE SendStatus(d) \/ SendLogin(d) \/ SendMove(d)
    <3>1. \A k : k \in Intents[d] \cap StatusIntents => k # "Hello"
      BY DEF StatusIntents
    <3>2. CASE SendStatus(d)
      BY <2>4, <3>1, <3>2, ZenonT(60) DEF SendStatus
    <3>3. CASE SendLogin(d)
      BY <2>4, <3>3, ZenonT(60) DEF SendLogin
    <3>4. CASE SendMove(d)
      BY <2>4, <3>4, ZenonT(60) DEF SendMove
    <3> QED BY <2>5, <3>2, <3>3, <3>4
  <2>6. CASE Read(d)
    <3> DEFINE k == Head(down[d]).kind
    <3>1. up' = up /\ (step'[c] = step[c] \/ step'[c] = OnRead(step[c], k))
      BY <2>3, <2>6 DEF Read
    <3> HIDE DEF k
    <3>2. step'[c] \in {"connect", "intend", "hello"} => step'[c] = step[c]
      BY <2>3, <3>1, OnReadFacts
    <3> QED BY <2>2, <3>1, <3>2 DEF Unserved, HelloSent
  <2>7. CASE Connect(d)
    <3>1. up' = up /\ step[d] = "connect" /\ step' = [step EXCEPT ![d] = "intend"]
      BY <2>7 DEF Connect
    <3> QED BY <2>2, <2>3, <3>1 DEF Unserved, HelloSent
  <2>8. CASE Leave(d)
    <3>1. /\ up'[c] = up[c] \/ up'[c] = <<>>
          /\ step'[c] = step[c] \/ step'[c] = "left"
      BY <2>3, <2>8 DEF Leave
    <3>2. Len(<<>>) = 0
      BY EmptySeq
    <3>3. HelloSent(c)' => HelloSent(c)
      BY <3>1, <3>2 DEF HelloSent
    <3> QED BY <2>2, <3>1, <3>3 DEF Unserved
  <2> QED BY <1>4, <2>5, <2>6, <2>7, <2>8 DEF ClientStep
<1> QED BY <1>1, <1>2, <1>3, <1>4 DEF NNext

\* Only Hello lets a client in, and it is said once.
LEMMA LetInOnce ==
  ASSUME NInv, FInv, JInv, [NNext]_nvars
  PROVE  JInv'
<1> SUFFICES ASSUME NEW c \in Conns, Unserved(c)'
             PROVE  c \notin joined'
  BY DEF JInv
<1>1. c \notin joined
  BY UnservedBefore DEF JInv
<1>2. joined' = joined \/ \E d \in Conns : HandleHello(d)
  <2>1. CASE UNCHANGED nvars
    BY <2>1 DEF nvars, gvars
  <2>2. CASE GameStep
    BY <2>2, GameTakes
  <2>3. ASSUME NEW d \in Conns, ListenerStep(d)
        PROVE  joined' = joined
    BY <2>3 DEF ListenerStep, gvars
  <2>4. ASSUME NEW d \in Conns, ClientStep(d) \/ Connect(d) \/ Leave(d)
        PROVE  joined' = joined
    BY <2>4 DEF ClientStep, SendStatus, SendLogin, SendMove, Send, Read, Connect, Leave,
       ClientSame, gvars
  <2> QED BY <2>1, <2>2, <2>3, <2>4 DEF NNext
<1>3. ASSUME NEW d \in Conns, HandleHello(d)
      PROVE  c \notin joined'
  <2>1. joined' = joined \cup {d}
    BY <1>3 DEF HandleHello
  <2>2. d # c
    <3> SUFFICES ASSUME d = c
                 PROVE  FALSE
      OBVIOUS
    <3>1. /\ Receive(c, "Login", "Hello") /\ "Login" \in States
      BY <1>3 DEF HandleHello, States
    <3>2. up' = up /\ step' = step /\ HelloRead(c) /\ ~HelloRead(c)'
      BY <3>1, Received
    <3>3. up[c] = <<>> /\ step[c] \in {"await success", "refused", "left"}
      BY <3>2 DEF FInv, Parts, Polite
    <3>4. ~HelloSent(c)'
      <4>1. up'[c] = <<>> /\ Len(<<>>) = 0
        BY <3>2, <3>3, EmptySeq
      <4> QED BY <4>1 DEF HelloSent
    <3> QED BY <3>2, <3>3, <3>4 DEF Unserved
  <2> QED BY <1>1, <2>1, <2>2
<1> QED BY <1>1, <1>2, <1>3

\* The systems behind network_receive send nothing to a connection that may still
\* be let in, or has not been accepted: it has no player, and no Login is queued.
LEMMA SystemsFormats ==
  ASSUME NInv, FInv, JInv, ReceiveEnds
  PROVE  FInv'
<1>1. UNCHANGED <<lvars, gstate, deflate, evars, bound>>
  BY DEF ReceiveEnds
<1>2. /\ urgent' \in [Conns -> Seq(Queued)]
      /\ \A d \in Conns : ~EntersPlay(d) /\ d \notin bound => urgent'[d] = urgent[d]
  <2>1. urgent \in [Conns -> Seq(Queued)] /\ Spawning \subseteq Queued
    BY QueuedFrames DEF FInv, FTyped
  <2> QED BY <2>1, SystemsSend
<1>3. FTyped' /\ HelloLast(inbound')
  BY <1>1, <1>2 DEF FInv, FTyped, lvars, evars
<1>4. ASSUME NEW d \in Conns
      PROVE  Parts(d)'
  <2>1. Parts(d)
    BY DEF FInv
  <2>2. CASE Unserved(d) \/ reader[d] = "absent"
    <3>1. d \notin bound
      BY <2>2 DEF JInv, NInv, Sane, Tagged, Owned
    <3>2. ~EntersPlay(d)
      <4>1. urgent[d] \in Seq(Queued) /\ DOMAIN urgent[d] = 1 .. Len(urgent[d])
        BY LenProperties DEF FInv, FTyped
      <4>2. CASE Unserved(d)
        BY <2>1, <4>1, <4>2 DEF Parts, Waits, EntersPlay
      <4>3. CASE reader[d] = "absent"
        <5>1. urgent[d] = <<>> /\ Len(<<>>) = 0
          BY <2>1, <4>3, EmptySeq DEF Parts, Ends
        <5> QED BY <4>1, <5>1 DEF EntersPlay
      <4> QED BY <2>2, <4>2, <4>3
    <3>3. Quiet(d)
      BY <1>1, <1>2, <3>1, <3>2 DEF Quiet, lvars, evars
    <3> QED BY <2>1, <3>3, QuietParts
  <2>3. CASE ~Unserved(d) /\ reader[d] # "absent"
    <3>1. Resting(d)
      BY <1>1 DEF Resting, lvars, evars
    <3>2. Polite(d)' /\ (Unserved(d)' => Unserved(d))
      BY <2>1, <3>1, PoliteKept
    <3>3. Waits(d)'
      BY <2>3, <3>2 DEF Waits
    <3>4. Ends(d)'
      BY <1>1, <2>1, <2>3 DEF Parts, Ends, lvars, evars
    <3>5. Format(d)' /\ (d \notin Eager => Incoming(d)')
      BY <1>1, <2>1 DEF Parts, Format, Incoming, lvars, evars
    <3> QED BY <3>2, <3>3, <3>4, <3>5 DEF Parts
  <2> QED BY <2>2, <2>3
<1> QED BY <1>3, <1>4 DEF FInv

----------------------------------------------------------------------------
(* The whole *)

\* The steps of the game.
LEMMA GameFormats ==
  ASSUME 3 <= OutCap, NInv, FInv, JInv, GameStep
  PROVE  FInv'
<1>1. CASE phase = "receive" /\ \E c \in Conns, s \in States, k \in ClientKinds : Undispatched(c, s, k)
  BY <1>1, IgnoredFormats
<1>2. CASE \E c \in Conns, k \in ClientKinds : HandleIntention(c, k) \/ HandleStatus(c, k)
  BY <1>2, IntentionFormats, AnsweredFormats
<1>3. ASSUME NEW c \in Conns,
             \/ HelloIgnored(c) \/ HandleHello(c) \/ HandleLoginAcknowledged(c)
             \/ HandleClientInformation(c) \/ HandleFinishConfiguration(c)
             \/ HandlePlayerPosition(c) \/ HandleClosed(c) \/ FlushFrame(c)
      PROVE  FInv'
  <2>1. CASE HelloIgnored(c) \/ HandlePlayerPosition(c)
    <3>1. PICK s : s \in States
      BY DEF States
    <3> QED BY <2>1, <3>1, IgnoredFormats
  <2>2. CASE HandleLoginAcknowledged(c) \/ HandleClientInformation(c) \/ HandleFinishConfiguration(c)
    BY <2>2, AnsweredFormats
  <2>3. CASE HandleHello(c)
    BY <2>3, HelloFormats
  <2>4. CASE HandleClosed(c) \/ FlushFrame(c)
    BY <2>4, ClosedFormats, FlushFormats
  <2> QED BY <1>3, <2>1, <2>2, <2>3, <2>4
<1>4. CASE ReceiveEnds \/ TickBegin
  <2>1. CASE ReceiveEnds
    BY <2>1, SystemsFormats
  <2>2. CASE TickBegin
    BY <2>2, PhaseFormats DEF TickBegin
  <2> QED BY <1>4, <2>1, <2>2
<1>5. CASE TickBeginDiscard
  BY <1>5, DiscardFormats
<1> QED BY <1>1, <1>2, <1>3, <1>4, <1>5 DEF GameStep

\* The steps of the tasks of a connection.
LEMMA ListenerFormats ==
  ASSUME NInv, FInv, NEW c \in Conns, ListenerStep(c)
  PROVE  FInv'
<1>1. UNCHANGED <<gvars, evars>>
  BY DEF ListenerStep
<1>2. CASE Accept(c) \/ RemoveOutbound(c)
  BY <1>1, <1>2, AcceptFormats, RemoveOutboundFormats
<1>3. CASE DropGarbled(c) \/ ProcessFrame(c) \/ ReadEnds(c) \/ SendClosed(c) \/ AbortWriter(c)
  BY <1>1, <1>3, DropGarbledFormats, ProcessFrameFormats, ReadEndsFormats, SendClosedFormats,
     AbortWriterFormats
<1>4. CASE WriterStep(c)
  BY <1>1, <1>4, WriteFrameFormats, WriteEnableFormats, WriterEndsFormats DEF WriterStep
<1> QED BY <1>2, <1>3, <1>4 DEF ListenerStep

\* With channels that take the three messages of a login, the frames on the way in
\* both directions are in the format of their stretch, and the client that may
\* still be let in has nothing on the way to it but a refusal.
THEOREM FormatsHold ==
  ASSUME 3 <= OutCap
  PROVE  NSpec => []FInv /\ []JInv
<1>1. NInit => FInv /\ JInv
  BY InitFormats DEF NInit, JInv
<1>2. NInv /\ FInv /\ JInv /\ [NNext]_nvars => FInv' /\ JInv'
  <2> SUFFICES ASSUME NInv, FInv, JInv, [NNext]_nvars
               PROVE  FInv'
    BY LetInOnce
  <2>1. CASE UNCHANGED nvars
    <3>1. UNCHANGED <<lvars, gstate, deflate, urgent, evars>>
      BY <2>1 DEF nvars, gvars
    <3> QED BY <3>1, PhaseFormats
  <2>2. CASE GameStep
    BY <2>2, GameFormats
  <2>3. ASSUME NEW c \in Conns, ListenerStep(c)
        PROVE  FInv'
    BY <2>3, ListenerFormats
  <2>4. ASSUME NEW c \in Conns, ClientStep(c) \/ Connect(c) \/ Leave(c)
        PROVE  FInv'
    BY <2>4, ClientFormats
  <2> QED BY <2>1, <2>2, <2>3, <2>4 DEF NNext
<1> QED BY <1>1, <1>2, ConnectionsSane, PTL DEF NSpec

\* Every frame a client reads is in the format it expects, also one that does not
\* wait for LoginCompression before it answers (network_receive.rs:374-380).
THEOREM ClientsReadFormat ==
  ASSUME 3 <= OutCap
  PROVE  NSpec => []ClientReadsFormat
<1>1. FInv => ClientReadsFormat
  <2> SUFFICES ASSUME FInv, NEW c \in Conns, peer[c] = "open", down[c] # <<>>
               PROVE  Head(down[c]).z = (c \in cz)
    BY DEF ClientReadsFormat
  <2>1. Format(c) /\ down[c] \in Seq(Wire)
    BY DEF FInv, FTyped, Parts
  <2>2. /\ c \notin cz => Plain(down[c]) \/ Seam(down[c])
        /\ c \in cz => Packed(down[c])
    BY <2>1 DEF Format
  <2>3. Plain(down[c]) \/ Seam(down[c]) => Head(down[c]).z = FALSE
    BY <2>1, HeadOfWire, HeadOfSeam
  <2>4. Packed(down[c]) => Head(down[c]).z = TRUE
    BY <2>1, HeadOfWire
  <2>5. /\ c \notin cz => (c \in cz) = FALSE
        /\ c \in cz => (c \in cz) = TRUE
    OBVIOUS
  <2> QED BY <2>2, <2>3, <2>4, <2>5
<1> QED BY <1>1, FormatsHold, PTL

\* The frame of a client that waits for LoginCompression before it answers is read in
\* the format it was sent in: the write task obeys the order to inflate before it
\* writes the frame the client waits for (network_receive.rs:379-380).
LEMMA WaitersAreRead ==
  ASSUME NInv, FInv, NEW c \in Conns \ Eager, up[c] # <<>>
  PROVE  ~Garbled(c)
<1>1. Head(up[c]) = up[c][1] /\ 1 \in 1 .. Len(up[c])
  BY HeadOfUp
<1> QED BY <1>1 DEF FInv, Parts, Incoming, Garbled

\* What the server reads is in the format it expects, of every client that waits for
\* LoginCompression and whatever the others do (network_receive.rs:379-380).
THEOREM ServersReadFormat ==
  ASSUME 3 <= OutCap
  PROVE  /\ NSpec => [](\A c \in Conns \ Eager : up[c] # <<>> => ~Garbled(c))
         /\ Eager \cap Conns = {} => (NSpec => []ServerReadsFormat)
<1>1. NInv /\ FInv => \A c \in Conns \ Eager : up[c] # <<>> => ~Garbled(c)
  BY WaitersAreRead
<1>2. ASSUME Eager \cap Conns = {}
      PROVE  NInv /\ FInv => ServerReadsFormat
  BY <1>1, <1>2 DEF ServerReadsFormat
<1>3. NSpec => [](\A c \in Conns \ Eager : up[c] # <<>> => ~Garbled(c))
  BY <1>1, ConnectionsSane, FormatsHold, PTL
<1>4. ASSUME Eager \cap Conns = {}
      PROVE  NSpec => []ServerReadsFormat
  BY <1>2, <1>4, ConnectionsSane, FormatsHold, PTL
<1> QED BY <1>3, <1>4

----------------------------------------------------------------------------
(***************************************************************************)
(* Proofs about the room in the outbound channels: no channel ever fills   *)
(* up, on the way into play, that takes five bursts.  Whatever the game    *)
(* sends to a connection on that way, it sends for a frame of it: a packet *)
(* for each registry and three more for its client information, or four    *)
(* packets, the chunks around the player between two more and its items    *)
(* when it enters play.  A burst is as long as all of that, and a client   *)
(* sends no more than five frames that are answered.  So the answers still *)
(* to come and those on their way to the write task are bounded by what    *)
(* the client has sent (Owed).                                             *)
(***************************************************************************)

\* How many messages in line q are in A.
Count(q, A) == Cardinality({i \in 1 .. Len(q) : q[i] \in A})

\* What a client sends that may be answered, and what is in line of it.
Requests == {f \in Upward : f.kind # "Move"}
Asks(c) == {m \in Message : m.type = "Packet" /\ m.conn = c /\ m.kind # "Move"}

\* How many of those a client has sent at most.
Sent == [s \in Steps |->
  CASE s \in {"connect", "intend"} -> 0
    [] s \in {"request", "hello"} -> 1
    [] s \in {"await status", "await success", "ping", "acknowledge"} -> 2
    [] s \in {"inform", "await ping", "done"} -> 3
    [] s \in {"configure", "finish"} -> 4
    [] OTHER -> 5]

\* What the systems behind network_receive have still to send, in this tick or,
\* the items, in a later one.
Coming(c) ==
  (IF c \in full_sync THEN 1 ELSE 0) + (IF phase = "receive" THEN Spawned(c) ELSE 0)

\* The answers of the game that have not been flushed.
Due(c) == Len(urgent[c]) + Coming(c)

\* No answer is longer.
Burst == Registries + SpawnChunks + 6

\* What has been answered is on its way, and what is still unanswered is in line.
Owed(c) ==
  Len(out[c]) + Due(c) + Burst * (Count(up[c], Requests) + Count(inbound, Asks(c)))
    <= Burst * Sent[step[c]]

RInv == \A c \in Conns : Owed(c)

----------------------------------------------------------------------------
(* Counting *)

\* The messages of a line that are in A are finitely many.
LEMMA Counted ==
  ASSUME NEW S, NEW q \in Seq(S), NEW A
  PROVE  IsFiniteSet({i \in 1 .. Len(q) : q[i] \in A}) /\ Count(q, A) \in Nat
<1>1. Len(q) \in Nat
  BY LenProperties
<1>2. IsFiniteSet(1 .. Len(q))
  BY <1>1, FS_Interval
<1>3. {i \in 1 .. Len(q) : q[i] \in A} \in SUBSET (1 .. Len(q))
  OBVIOUS
<1>4. IsFiniteSet({i \in 1 .. Len(q) : q[i] \in A})
  BY <1>2, <1>3, FS_Subset
<1> QED BY <1>4, FS_CardinalityType DEF Count

\* An empty line holds none.
LEMMA CountedNone ==
  ASSUME NEW q, q = <<>>, NEW A
  PROVE  Count(q, A) = 0
<1>1. {i \in 1 .. Len(q) : q[i] \in A} = {}
  OBVIOUS
<1> QED BY <1>1, FS_EmptySet DEF Count

\* The head leaves the line, and is counted no more.
LEMMA CountedTail ==
  ASSUME NEW S, NEW q \in Seq(S), q # <<>>, NEW A
  PROVE  /\ Count(Tail(q), A) <= Count(q, A)
         /\ Head(q) \in A => Count(Tail(q), A) + 1 <= Count(q, A)
<1> DEFINE new == {i \in 1 .. Len(Tail(q)) : Tail(q)[i] \in A}
           old == {i \in 1 .. Len(q) : q[i] \in A}
           rest == old \ {1}
           f == [i \in new |-> i + 1]
<1>1. /\ Tail(q) \in Seq(S) /\ Head(q) = q[1]
      /\ Len(q) \in Nat /\ Len(q) >= 1 /\ Len(Tail(q)) = Len(q) - 1
      /\ \A i \in 1 .. Len(q) - 1 : Tail(q)[i] = q[i + 1]
  BY TailFacts
<1>2. IsFiniteSet(old) /\ Count(q, A) \in Nat
  BY Counted
<1>3. f \in Injection(new, rest)
  <2>1. f \in [new -> rest]
    BY <1>1
  <2>2. \A i, j \in new : f[i] = f[j] => i = j
    OBVIOUS
  <2> QED BY <2>1, <2>2 DEF Injection, IsInjective
<1>4. /\ IsFiniteSet(rest)
      /\ Cardinality(rest) = IF 1 \in old THEN Cardinality(old) - 1 ELSE Cardinality(old)
  BY <1>2, FS_RemoveElement
<1>5. Cardinality(new) <= Cardinality(rest)
  <2> HIDE DEF new, rest, f
  <2> QED BY <1>3, <1>4, FS_Injection
<1>6. Count(Tail(q), A) = Cardinality(new) /\ Count(q, A) = Cardinality(old)
  BY DEF Count
<1>7. Head(q) \in A => 1 \in old
  BY <1>1
<1>8. Count(Tail(q), A) \in Nat
  BY <1>1, Counted
<1> HIDE DEF new, old, rest, f
<1> QED BY <1>2, <1>4, <1>5, <1>6, <1>7, <1>8

\* One more message in line.
LEMMA CountedAppend ==
  ASSUME NEW S, NEW q \in Seq(S), NEW m \in S, NEW A
  PROVE  /\ m \notin A => Count(Append(q, m), A) = Count(q, A)
         /\ Count(Append(q, m), A) <= Count(q, A) + 1
<1> DEFINE new == {i \in 1 .. Len(Append(q, m)) : Append(q, m)[i] \in A}
           old == {i \in 1 .. Len(q) : q[i] \in A}
           n == Len(q) + 1
<1>1. /\ Append(q, m) \in Seq(S) /\ Len(q) \in Nat /\ Len(Append(q, m)) = n
      /\ Append(q, m)[n] = m
      /\ \A i \in 1 .. Len(q) : Append(q, m)[i] = q[i]
  BY AppendFacts
<1>2. IsFiniteSet(old) /\ Cardinality(old) \in Nat
  BY Counted, FS_CardinalityType
<1>3. new = IF m \in A THEN old \cup {n} ELSE old
  <2>1. 1 .. n = (1 .. Len(q)) \cup {n}
    BY <1>1
  <2> QED BY <1>1, <2>1
<1>4. Count(Append(q, m), A) = Cardinality(new) /\ Count(q, A) = Cardinality(old)
  BY DEF Count
<1> HIDE DEF new, old, n
<1>5. Cardinality(old \cup {n}) = IF n \in old THEN Cardinality(old) ELSE Cardinality(old) + 1
  BY <1>2, FS_AddElement
<1> QED BY <1>2, <1>3, <1>4, <1>5

----------------------------------------------------------------------------
(* Bursts *)

\* How the sums of bursts compare.
LEMMA Times ==
  ASSUME NEW b \in Nat, NEW x \in Nat, NEW y \in Nat
  PROVE  /\ b * x \in Nat /\ b * (x + 1) = b * x + b
         /\ x <= y => b * x <= b * y
<1>1. b * x \in Nat /\ b * (x + 1) = b * x + b
  OBVIOUS
<1>2. ASSUME x <= y
      PROVE  b * x <= b * y
  <2>1. PICK z \in Nat : y = x + z
    BY <1>2
  <2>2. b * y = b * x + b * z /\ b * z \in Nat /\ b * x \in Nat
    BY <2>1
  <2> QED BY <2>2
<1> QED BY <1>1, <1>2

LEMMA BurstLength == Burst \in Nat /\ SpawnChunks \in Nat /\ Registries \in Nat
  BY BurstAssumption DEF Burst

\* What is due is a number, and no less than what is queued.
LEMMA DueIsNumber ==
  ASSUME NEW c, Len(urgent[c]) \in Nat
  PROVE  Due(c) \in Nat /\ Len(urgent[c]) <= Due(c)
<1>1. Coming(c) \in Nat
  BY BurstLength DEF Coming, Spawned
<1> QED BY <1>1 DEF Due

----------------------------------------------------------------------------
(* Steps that owe nothing new *)

\* What a step may do to a connection without owing it more.
Kept(d) ==
  /\ Len(out'[d]) + Due(d)' <= Len(out[d]) + Due(d)
  /\ Count(up'[d], Requests) <= Count(up[d], Requests)
  /\ Count(inbound', Asks(d)) <= Count(inbound, Asks(d))
  /\ Sent[step[d]] <= Sent[step'[d]]

\* A client sends five frames at most that are answered.
LEMMA SentRange == \A s \in Steps : Sent[s] \in 0 .. 5
<1>1. \A s \in Steps : Sent[s] \in {0, 1, 2, 3, 4, 5}
  BY DEF Sent
<1> QED BY <1>1

\* How many it has sent where it stands.
LEMMA SentFrames ==
  /\ Sent["connect"] = 0 /\ Sent["intend"] = 0
  /\ Sent["request"] = 1 /\ Sent["hello"] = 1
  /\ Sent["await status"] = 2 /\ Sent["await success"] = 2
  /\ Sent["ping"] = 2 /\ Sent["acknowledge"] = 2
  /\ Sent["inform"] = 3 /\ Sent["await ping"] = 3 /\ Sent["done"] = 3
  /\ Sent["configure"] = 4 /\ Sent["finish"] = 4
  /\ Sent["join"] = 5 /\ Sent["play"] = 5 /\ Sent["refused"] = 5 /\ Sent["left"] = 5
  BY DEF Sent, Steps

\* Nothing is above five.
LEMMA NoLess == \A m, n \in 0 .. 5 : m = n \/ n = 5 => m <= n
  OBVIOUS

\* Where a client goes without sending anything, it has sent no less.
LEMMA SentBefore ==
  ASSUME NEW s \in Steps, NEW t \in Steps,
         \/ t \in {s, "refused", "left"}
         \/ s = "connect" /\ t = "intend"
         \/ s = "await success" /\ t = "acknowledge"
         \/ s = "configure" /\ t = "finish"
         \/ s = "join" /\ t = "play"
         \/ s = "await status" /\ t = "ping"
         \/ s = "await ping" /\ t = "done"
  PROVE  Sent[s] <= Sent[t]
<1>1. Sent[s] \in 0 .. 5 /\ Sent[t] \in 0 .. 5
  BY SentRange
<1>2. Sent[s] = Sent[t] \/ Sent[t] = 5
  BY SentFrames
<1> QED BY <1>1, <1>2, NoLess

\* The numbers are numbers.
LEMMA Numbers ==
  /\ \A s \in Steps : Sent[s] \in 0 .. 5
  /\ NInv /\ FInv =>
       \A d \in Conns :
         /\ Len(out[d]) \in Nat /\ Len(urgent[d]) \in Nat /\ Due(d) \in Nat
         /\ Count(up[d], Requests) \in Nat /\ Count(inbound, Asks(d)) \in Nat
         /\ step[d] \in Steps
<1>1. \A s \in Steps : Sent[s] \in 0 .. 5
  BY SentRange
<1>2. ASSUME NInv, FInv, NEW d \in Conns
      PROVE  /\ Len(out[d]) \in Nat /\ Len(urgent[d]) \in Nat /\ Due(d) \in Nat
             /\ Count(up[d], Requests) \in Nat /\ Count(inbound, Asks(d)) \in Nat
             /\ step[d] \in Steps
  <2>1. /\ out[d] \in Seq(Wire) /\ urgent[d] \in Seq(ServerKinds) /\ up[d] \in Seq(Upward)
        /\ inbound \in Seq(Message) /\ step[d] \in Steps
    BY <1>2 DEF NInv, Typed, FInv, FTyped, Upward
  <2>2. /\ Len(out[d]) \in Nat /\ Len(urgent[d]) \in Nat
        /\ Count(up[d], Requests) \in Nat /\ Count(inbound, Asks(d)) \in Nat
    BY <2>1, Counted, LenProperties
  <2> QED BY <2>1, <2>2, DueIsNumber
<1> QED BY <1>1, <1>2

\* The invariants before and after a step.
Both == NInv /\ FInv /\ NInv' /\ FInv'

\* The same before and after a step.
LEMMA NumbersOfStep ==
  ASSUME Both, NEW d \in Conns
  PROVE  /\ Len(out[d]) \in Nat /\ Len(urgent[d]) \in Nat /\ Due(d) \in Nat
         /\ Count(up[d], Requests) \in Nat /\ Count(inbound, Asks(d)) \in Nat
         /\ step[d] \in Steps /\ Sent[step[d]] \in 0 .. 5
         /\ Len(out'[d]) \in Nat /\ Len(urgent'[d]) \in Nat /\ Due(d)' \in Nat
         /\ Count(up'[d], Requests) \in Nat /\ Count(inbound', Asks(d)) \in Nat
         /\ step'[d] \in Steps /\ Sent[step'[d]] \in 0 .. 5
<1>1. /\ out'[d] \in Seq(Wire) /\ urgent'[d] \in Seq(ServerKinds) /\ up'[d] \in Seq(Upward)
      /\ inbound' \in Seq(Message) /\ step'[d] \in Steps
  BY DEF Both, NInv, Typed, FInv, FTyped, Upward
<1>2. /\ Len(out'[d]) \in Nat /\ Len(urgent'[d]) \in Nat
      /\ Count(up'[d], Requests) \in Nat /\ Count(inbound', Asks(d)) \in Nat
  BY <1>1, Counted, LenProperties
<1>3. Due(d)' \in Nat
  <2>1. Coming(d)' \in Nat
    BY BurstLength DEF Coming, Spawned
  <2> QED BY <1>2, <2>1 DEF Due
<1> QED BY <1>1, <1>2, <1>3, Numbers DEF Both

\* What stays is no more than it was.
LEMMA AsMany ==
  ASSUME Both, NEW d \in Conns
  PROVE  /\ Len(out[d]) <= Len(out[d]) /\ Due(d) <= Due(d)
         /\ Len(out[d]) + Due(d) <= Len(out[d]) + Due(d)
         /\ Count(up[d], Requests) <= Count(up[d], Requests)
         /\ Count(inbound, Asks(d)) <= Count(inbound, Asks(d))
         /\ Sent[step[d]] <= Sent[step[d]]
<1>1. /\ Len(out[d]) \in Nat /\ Due(d) \in Nat
      /\ Count(up[d], Requests) \in Nat /\ Count(inbound, Asks(d)) \in Nat
      /\ Sent[step[d]] \in 0 .. 5
  BY NumbersOfStep
<1> QED BY <1>1

\* A step that leaves the queue of d, or empties it.
LEMMA DueKept ==
  ASSUME Both, NEW d \in Conns, phase' = phase, d \in full_sync' => d \in full_sync,
         urgent'[d] = urgent[d] \/ urgent'[d] = <<>>
  PROVE  Due(d)' <= Due(d)
<1>1. Len(urgent[d]) \in Nat /\ Len(urgent'[d]) \in Nat
  BY NumbersOfStep
<1>2. CASE urgent'[d] = urgent[d]
  <2>1. Spawned(d)' = Spawned(d) /\ Spawned(d) \in Nat
    BY <1>2, BurstLength DEF Spawned, EntersPlay
  <2>2. Coming(d)' <= Coming(d) /\ Coming(d) \in Nat /\ Coming(d)' \in Nat
    <3> HIDE DEF Spawned
    <3>1. CASE d \in full_sync'
      BY <2>1, <3>1 DEF Coming
    <3>2. CASE d \notin full_sync'
      BY <2>1, <3>2 DEF Coming
    <3> QED BY <3>1, <3>2
  <2> QED BY <1>1, <1>2, <2>2 DEF Due
<1>3. CASE urgent'[d] = <<>>
  <2>1. Len(urgent'[d]) = 0 /\ Spawned(d)' = 0 /\ Spawned(d) \in Nat
    BY <1>3, BurstLength DEF Spawned, EntersPlay
  <2>2. Coming(d)' <= Coming(d) /\ Coming(d) \in Nat /\ Coming(d)' \in Nat
    BY <2>1 DEF Coming
  <2> QED BY <1>1, <2>1, <2>2 DEF Due
<1> QED BY <1>2, <1>3

\* Such a step owes no more.
LEMMA KeptOwed ==
  ASSUME Both, NEW d \in Conns, Owed(d), Kept(d)
  PROVE  Owed(d)'
<1> DEFINE o == Len(out[d])    u == Due(d)
           r == Count(up[d], Requests)    a == Count(inbound, Asks(d))
           s == Sent[step[d]]
           o2 == Len(out'[d])    u2 == Due(d)'
           r2 == Count(up'[d], Requests)    a2 == Count(inbound', Asks(d))
           s2 == Sent[step'[d]]
           b == Burst
<1>1. /\ o \in Nat /\ u \in Nat /\ r \in Nat /\ a \in Nat /\ s \in 0 .. 5
      /\ o2 \in Nat /\ u2 \in Nat /\ r2 \in Nat /\ a2 \in Nat /\ s2 \in 0 .. 5
  BY NumbersOfStep
<1>2. o2 + u2 <= o + u /\ r2 <= r /\ a2 <= a /\ s <= s2
  BY DEF Kept
<1>3. o + u + b * (r + a) <= b * s
  BY DEF Owed
<1>4. Owed(d)' <=> o2 + u2 + b * (r2 + a2) <= b * s2
  BY DEF Owed, Burst
<1>5. b \in Nat
  BY BurstLength
<1> HIDE DEF o, u, r, a, s, o2, u2, r2, a2, s2, b
<1>6. r2 + a2 \in Nat /\ r + a \in Nat /\ r2 + a2 <= r + a /\ s \in Nat /\ s2 \in Nat
  BY <1>1, <1>2
<1>7. /\ b * (r2 + a2) <= b * (r + a) /\ b * s <= b * s2
      /\ b * (r2 + a2) \in Nat /\ b * (r + a) \in Nat /\ b * s \in Nat /\ b * s2 \in Nat
  BY <1>2, <1>5, <1>6, Times
<1>8. o2 + u2 + b * (r2 + a2) <= b * s2
  BY <1>1, <1>2, <1>3, <1>7
<1> QED BY <1>4, <1>8

\* A line that stays, loses its head, or gets a message that asks for nothing.
LEMMA LineKept ==
  ASSUME Both, NEW d \in Conns,
         \/ inbound' = inbound
         \/ inbound # <<>> /\ inbound' = Tail(inbound)
         \/ \E m \in Message \ Asks(d) : inbound' = Append(inbound, m)
  PROVE  Count(inbound', Asks(d)) <= Count(inbound, Asks(d))
<1>1. inbound \in Seq(Message)
  BY DEF Both, NInv, Typed
<1>2. Count(inbound, Asks(d)) \in Nat
  BY NumbersOfStep
<1>3. CASE inbound' = inbound
  BY <1>2, <1>3
<1>4. CASE inbound # <<>> /\ inbound' = Tail(inbound)
  BY <1>1, <1>4, CountedTail
<1>5. ASSUME NEW m \in Message \ Asks(d), inbound' = Append(inbound, m)
      PROVE  Count(inbound', Asks(d)) <= Count(inbound, Asks(d))
  <2>1. Count(inbound', Asks(d)) = Count(inbound, Asks(d))
    BY <1>1, <1>5, CountedAppend
  <2> QED BY <1>2, <2>1
<1> QED BY <1>3, <1>4, <1>5

\* The same for what a client has sent.
LEMMA UpKept ==
  ASSUME Both, NEW d \in Conns,
         \/ up'[d] = up[d]
         \/ up[d] # <<>> /\ up'[d] = Tail(up[d])
         \/ up'[d] = <<>>
  PROVE  Count(up'[d], Requests) <= Count(up[d], Requests)
<1>1. up[d] \in Seq(Upward)
  BY DEF Both, NInv, Typed, Upward
<1> QED BY <1>1, CountedTail, CountedNone, NumbersOfStep

\* Comparing the sums is enough.
LEMMA KeptSums ==
  ASSUME Both, NEW d \in Conns,
         Count(up'[d], Requests) <= Count(up[d], Requests),
         Count(inbound', Asks(d)) <= Count(inbound, Asks(d)),
         Sent[step[d]] <= Sent[step'[d]],
         \/ /\ Len(out'[d]) <= Len(out[d])
            /\ Due(d)' <= Due(d)
         \/ /\ Len(out'[d]) <= Len(out[d]) + 1
            /\ Due(d)' + 1 <= Due(d)
  PROVE  Kept(d)
<1> DEFINE o == Len(out[d])    u == Due(d)
           o2 == Len(out'[d])    u2 == Due(d)'
<1>1. o \in Nat /\ u \in Nat /\ o2 \in Nat /\ u2 \in Nat
  BY NumbersOfStep
<1>2. (o2 <= o /\ u2 <= u) \/ (o2 <= o + 1 /\ u2 + 1 <= u)
  OBVIOUS
<1> HIDE DEF o, u, o2, u2
<1>3. o2 + u2 <= o + u
  BY <1>1, <1>2
<1>4. Len(out'[d]) + Due(d)' <= Len(out[d]) + Due(d)
  BY <1>3 DEF o, u, o2, u2
<1> QED BY <1>4 DEF Kept

\* What is asked, reported or answered owes no more in sum.
LEMMA OwedSums ==
  ASSUME Both, NEW d \in Conns, Owed(d),
         LET a == Len(out[d]) + Due(d)              b == Len(out'[d]) + Due(d)'
             r == Count(up[d], Requests)            q == Count(up'[d], Requests)
             l == Count(inbound, Asks(d))           n == Count(inbound', Asks(d))
             s == Sent[step[d]]                     t == Sent[step'[d]]
         IN  \/ b <= a     /\ q <= r + 1 /\ n <= l     /\ t = s + 1
             \/ b <= a     /\ q + 1 <= r /\ n <= l + 1 /\ t = s
             \/ b <= a + Burst /\ q <= r /\ n + 1 <= l /\ t = s
  PROVE  Owed(d)'
<1> DEFINE o == Len(out[d])    u == Due(d)
           r == Count(up[d], Requests)    l == Count(inbound, Asks(d))
           s == Sent[step[d]]
           o2 == Len(out'[d])    u2 == Due(d)'
           q == Count(up'[d], Requests)    n == Count(inbound', Asks(d))
           t == Sent[step'[d]]
           b == Burst
<1>1. /\ o \in Nat /\ u \in Nat /\ r \in Nat /\ l \in Nat /\ s \in 0 .. 5
      /\ o2 \in Nat /\ u2 \in Nat /\ q \in Nat /\ n \in Nat /\ t \in 0 .. 5
  BY NumbersOfStep
<1>2. \/ o2 + u2 <= o + u     /\ q <= r + 1 /\ n <= l     /\ t = s + 1
      \/ o2 + u2 <= o + u     /\ q + 1 <= r /\ n <= l + 1 /\ t = s
      \/ o2 + u2 <= o + u + b /\ q <= r     /\ n + 1 <= l /\ t = s
  OBVIOUS
<1>3. o + u + b * (r + l) <= b * s
  BY DEF Owed
<1>4. Owed(d)' <=> o2 + u2 + b * (q + n) <= b * t
  BY DEF Owed, Burst
<1>5. b \in Nat
  BY BurstLength
<1> HIDE DEF o, u, r, l, s, o2, u2, q, n, t, b
<1>6. r + l \in Nat /\ q + n \in Nat /\ s \in Nat /\ t \in Nat
  BY <1>1
<1>7. /\ b * (r + l) \in Nat /\ b * (q + n) \in Nat /\ b * s \in Nat /\ b * t \in Nat
      /\ b * ((r + l) + 1) = b * (r + l) + b /\ b * (s + 1) = b * s + b
      /\ b * ((q + n) + 1) = b * (q + n) + b
  BY <1>5, <1>6, Times
<1>8. CASE o2 + u2 <= o + u /\ q <= r + 1 /\ n <= l /\ t = s + 1
  <2>1. (r + l) + 1 \in Nat /\ q + n <= (r + l) + 1
    BY <1>1, <1>8
  <2>2. b * (q + n) <= b * ((r + l) + 1)
    BY <1>5, <1>6, <2>1, Times
  <2> QED BY <1>1, <1>3, <1>4, <1>5, <1>7, <1>8, <2>2
<1>9. CASE o2 + u2 <= o + u /\ q + 1 <= r /\ n <= l + 1 /\ t = s
  <2>1. q + n <= r + l
    BY <1>1, <1>9
  <2>2. b * (q + n) <= b * (r + l)
    BY <1>5, <1>6, <2>1, Times
  <2> QED BY <1>1, <1>3, <1>4, <1>7, <1>9, <2>2
<1>10. CASE o2 + u2 <= o + u + b /\ q <= r /\ n + 1 <= l /\ t = s
  <2>1. (q + n) + 1 \in Nat /\ (q + n) + 1 <= r + l
    BY <1>1, <1>10
  <2>2. b * ((q + n) + 1) <= b * (r + l)
    BY <1>5, <1>6, <2>1, Times
  <2> QED BY <1>1, <1>3, <1>4, <1>5, <1>7, <1>10, <2>2
<1> QED BY <1>2, <1>8, <1>9, <1>10

\* A step that leaves both lines and the client alone, and sends nothing.
LEMMA IdleKept ==
  ASSUME Both, NEW d \in Conns, out'[d] = out[d], Due(d)' <= Due(d), up'[d] = up[d],
         step'[d] = step[d],
         \/ inbound' = inbound
         \/ inbound # <<>> /\ inbound' = Tail(inbound)
         \/ \E m \in Message \ Asks(d) : inbound' = Append(inbound, m)
  PROVE  Kept(d)
<1>1. Count(inbound', Asks(d)) <= Count(inbound, Asks(d))
  BY LineKept
<1> QED BY <1>1, AsMany, KeptSums

\* The tasks of a connection, the reporting of a frame excepted.
LEMMA TasksKept ==
  ASSUME Both, NEW c \in Conns, UNCHANGED <<gvars, evars>>,
         \/ Accept(c) \/ RemoveOutbound(c) \/ DropGarbled(c) \/ ReadEnds(c) \/ SendClosed(c)
         \/ AbortWriter(c) \/ WriterStep(c),
         NEW d \in Conns
  PROVE  Kept(d)
<1>1. Due(d)' <= Due(d) /\ step'[d] = step[d]
  BY DueKept DEF gvars, evars
<1>2. /\ up \in [Conns -> Seq(Upward)] /\ out \in [Conns -> Seq(Wire)]
  BY DEF Both, NInv, Typed, Upward
<1>3. CASE Accept(c) \/ RemoveOutbound(c) \/ ReadEnds(c)
  BY <1>1, <1>3, IdleKept DEF Accept, RemoveOutbound, ReadEnds
<1>4. CASE DropGarbled(c)
  <2>1. /\ up'[d] = up[d] \/ (up[d] # <<>> /\ up'[d] = Tail(up[d]))
        /\ out'[d] = out[d] /\ inbound' = inbound
    BY <1>2, <1>4 DEF DropGarbled
  <2>2. Count(up'[d], Requests) <= Count(up[d], Requests)
    BY <2>1, UpKept
  <2>3. /\ Len(out'[d]) <= Len(out[d]) /\ Due(d)' <= Due(d)
        /\ Count(inbound', Asks(d)) <= Count(inbound, Asks(d))
        /\ Sent[step[d]] <= Sent[step'[d]]
    BY <1>1, <2>1, AsMany
  <2> QED BY <2>2, <2>3, KeptSums
<1>5. CASE SendClosed(c)
  <2>1. Closed(c) \in Message \ Asks(d)
    BY DEF Closed, Message, Asks
  <2> QED BY <1>1, <1>5, <2>1, IdleKept DEF SendClosed
<1>6. CASE AbortWriter(c) \/ WriterStep(c)
  <2>1. up' = up /\ inbound' = inbound
    BY <1>6 DEF AbortWriter, WriterStep, WriteFrame, WriteEnableCompression, WriterEnds
  <2>2. out'[d] = out[d] \/ out'[d] = <<>> \/ (out[d] # <<>> /\ out'[d] = Tail(out[d]))
    BY <1>2, <1>6 DEF AbortWriter, WriterStep, WriteFrame, WriteEnableCompression, WriterEnds
  <2>3. out[d] # <<>> => Len(Tail(out[d])) <= Len(out[d])
    BY <1>2, TailFacts
  <2>4. Len(out'[d]) <= Len(out[d])
    <3>1. Len(out[d]) \in Nat
      BY NumbersOfStep
    <3>2. CASE out'[d] = <<>>
      BY <3>1, <3>2
    <3>3. CASE out'[d] = out[d]
      BY <3>1, <3>3
    <3>4. CASE out[d] # <<>> /\ out'[d] = Tail(out[d])
      BY <2>3, <3>4
    <3> QED BY <2>2, <3>2, <3>3, <3>4
  <2>5. /\ Due(d)' <= Due(d) /\ Sent[step[d]] <= Sent[step'[d]]
        /\ Count(up'[d], Requests) <= Count(up[d], Requests)
        /\ Count(inbound', Asks(d)) <= Count(inbound, Asks(d))
    BY <1>1, <2>1, AsMany
  <2> QED BY <2>4, <2>5, KeptSums
<1> QED BY <1>3, <1>4, <1>5, <1>6

\* The client that connects, leaves or reads.
LEMMA ClientsKept ==
  ASSUME Both, NEW c \in Conns, Connect(c) \/ Leave(c) \/ Read(c), NEW d \in Conns
  PROVE  Kept(d)
<1>1. /\ inbound' = inbound /\ out' = out /\ Due(d)' <= Due(d)
  <2>1. UNCHANGED <<inbound, out, urgent, phase, full_sync>>
    BY DEF Connect, Leave, Read, ClientSame, gvars
  <2> QED BY <2>1, DueKept
<1>2. up'[d] = up[d] \/ up'[d] = <<>>
  BY DEF Both, NInv, Typed, Connect, Leave, Read
<1>3. step[d] \in Steps /\ step'[d] \in Steps /\ step \in [Conns -> Steps]
  BY DEF Both, FInv, FTyped
<1>4. Sent[step[d]] <= Sent[step'[d]]
  <2>1. CASE Connect(c)
    <3>1. step'[d] = step[d] \/ (step[d] = "connect" /\ step'[d] = "intend")
      BY <1>3, <2>1 DEF Connect
    <3> QED BY <1>3, <3>1, SentBefore
  <2>2. CASE Leave(c)
    <3>1. step'[d] = step[d] \/ step'[d] = "left"
      BY <1>3, <2>2 DEF Leave
    <3> QED BY <1>3, <3>1, SentBefore
  <2>3. CASE Read(c)
    <3> DEFINE k == Head(down[c]).kind
    <3>1. step'[d] = step[d] \/ step'[d] = OnRead(step[d], k)
      BY <1>3, <2>3 DEF Read
    <3> HIDE DEF k
    <3>2. Sent[step[d]] <= Sent[step'[d]]
      <4>1. \/ OnRead(step[d], k) \in {step[d], "refused", "left"}
            \/ step[d] = "await success" /\ OnRead(step[d], k) = "acknowledge"
            \/ step[d] = "configure" /\ OnRead(step[d], k) = "finish"
            \/ step[d] = "join" /\ OnRead(step[d], k) = "play"
            \/ step[d] = "await status" /\ OnRead(step[d], k) = "ping"
            \/ step[d] = "await ping" /\ OnRead(step[d], k) = "done"
        BY DEF OnRead
      <4> QED BY <1>3, <3>1, <4>1, SentBefore
    <3> QED BY <3>2
  <2> QED BY <2>1, <2>2, <2>3
<1> QED BY <1>1, <1>2, <1>4, UpKept, AsMany, KeptSums

\* The game's steps that answer nothing.
LEMMA SilentKept ==
  ASSUME Both, NEW d \in Conns,
         UNCHANGED <<out, up, step>>, Due(d)' <= Due(d),
         inbound' = inbound \/ (inbound # <<>> /\ inbound' = Tail(inbound))
  PROVE  Kept(d)
<1>2. Count(inbound', Asks(d)) <= Count(inbound, Asks(d))
  BY LineKept
<1> QED BY <1>2, AsMany, KeptSums

\* When network_send has done its work nobody's Login is queued.
LEMMA NobodyEnters ==
  ASSUME Both, NEW queued, SendPhase(queued) = "receive", NEW d \in Conns
  PROVE  queued[d] = <<>>
  BY DEF SendPhase

\* A frame that is flushed moves from one channel to the other, or is lost.
LEMMA FlushKept ==
  ASSUME Both, NEW c \in Conns, FlushFrame(c), NEW d \in Conns
  PROVE  Kept(d)
<1>1. /\ out[c] \in Seq(Wire) /\ urgent[c] \in Seq(ServerKinds)
      /\ out \in [Conns -> Seq(Wire)] /\ urgent \in [Conns -> Seq(ServerKinds)]
  BY DEF Both, NInv, Typed
<1> DEFINE m == Frame(Head(urgent[c]), c \in deflate)
<1>2. /\ urgent[c] # <<>> /\ up' = up /\ step' = step /\ inbound' = inbound
      /\ d = c => /\ urgent[d] # <<>> /\ urgent'[d] = Tail(urgent[d])
                  /\ out'[d] = TrySend(c, out[d], m)
      /\ d # c => out'[d] = out[d] /\ urgent'[d] = urgent[d]
  BY <1>1 DEF FlushFrame, evars
<1>3. (d = c => Due(d)' + 1 <= Due(d)) /\ (d # c => Due(d)' <= Due(d))
  <2>1. d = c => Len(urgent'[d]) + 1 = Len(urgent[d])
    BY <1>1, <1>2, TailFacts
  <2>2. phase = "send" /\ phase' = SendPhase(urgent') /\ full_sync' = full_sync
    BY DEF FlushFrame
  <2>3. ASSUME NEW e \in Conns
        PROVE  Coming(e)' = Coming(e) /\ Coming(e) \in Nat
    <3>1. phase' = "receive" => Spawned(e)' = 0
      <4> SUFFICES ASSUME phase' = "receive"
                   PROVE  Spawned(e)' = 0
        OBVIOUS
      <4>1. urgent'[e] = <<>> /\ DOMAIN <<>> = {}
        BY <2>2, NobodyEnters
      <4> QED BY <4>1 DEF Spawned, EntersPlay
    <3> QED BY <2>2, <3>1 DEF Coming
  <2>4. Len(urgent[d]) \in Nat /\ Len(urgent'[d]) \in Nat
    BY NumbersOfStep
  <2>5. Coming(d)' = Coming(d) /\ Coming(d) \in Nat
    BY <2>3
  <2> HIDE DEF Coming
  <2>6. d = c => Due(d)' + 1 <= Due(d)
    BY <2>1, <2>4, <2>5 DEF Due
  <2>7. d # c => Due(d)' <= Due(d)
    BY <1>2, <2>4, <2>5 DEF Due
  <2> QED BY <2>6, <2>7
<1> HIDE DEF m
<1>4. d = c => Len(out'[d]) <= Len(out[d]) + 1
  <2>1. Len(Append(out[d], m)) = Len(out[d]) + 1
    OBVIOUS
  <2>2. Len(out[d]) \in Nat
    BY NumbersOfStep
  <2>3. TrySend(c, out[d], m) = out[d] \/ TrySend(c, out[d], m) = Append(out[d], m)
    BY DEF TrySend
  <2> QED BY <1>2, <2>1, <2>2, <2>3
<1>5. CASE d = c
  <2>1. /\ Sent[step[d]] <= Sent[step'[d]]
        /\ Count(up'[d], Requests) <= Count(up[d], Requests)
        /\ Count(inbound', Asks(d)) <= Count(inbound, Asks(d))
    BY <1>2, AsMany
  <2>2. Due(d)' + 1 <= Due(d) /\ Len(out'[d]) <= Len(out[d]) + 1
    BY <1>3, <1>4, <1>5
  <2> QED BY <2>1, <2>2, KeptSums
<1>6. CASE d # c
  BY <1>2, <1>3, <1>6, IdleKept
<1> QED BY <1>5, <1>6

----------------------------------------------------------------------------
(* Steps that ask and answer *)

\* A frame that is reported is in line of the game instead of the socket.
LEMMA ReportedOwed ==
  ASSUME Both, RInv, NEW c \in Conns, ProcessFrame(c), UNCHANGED <<gvars, evars>>
  PROVE  RInv'
<1> DEFINE k == Head(up[c]).kind
           m == Packet(c, conn_states[c], k)
<1>1. /\ up \in [Conns -> Seq(Upward)] /\ up[c] # <<>> /\ Head(up[c]) \in Upward
      /\ inbound \in Seq(Message)
  <2>1. up \in [Conns -> Seq(Upward)] /\ inbound \in Seq(Message)
    BY DEF Both, NInv, Typed, Upward
  <2>2. up[c] # <<>>
    BY DEF ProcessFrame
  <2> QED BY <2>1, <2>2, TailFacts
<1>2. /\ up' = [up EXCEPT ![c] = Tail(@)]
      /\ inbound' = IF Len(inbound) < InCap THEN Append(inbound, m) ELSE inbound
      /\ out' = out /\ step' = step
      /\ \A d \in Conns : Due(d)' <= Due(d)
  BY DueKept DEF ProcessFrame, gvars, evars
<1>3. m \in Message
  <2>1. conn_states[c] \in States
    BY DEF Both, NInv, Typed, Sane, Tagged, ProcessFrame
  <2>2. k \in ClientKinds
    BY <1>1 DEF Upward
  <2> HIDE DEF k
  <2> QED BY <2>1, <2>2 DEF Packet, Message
<1>4. m.kind = k /\ m.conn = c
  BY DEF Packet
<1>5. k # "Move" => Head(up[c]) \in Requests
  BY <1>1 DEF Requests
<1> HIDE DEF m, k
<1>6. ASSUME NEW d \in Conns
      PROVE  Owed(d)'
  <2>1. CASE d = c /\ k # "Move"
    <3>1. Count(up'[c], Requests) + 1 <= Count(up[c], Requests)
      BY <1>1, <1>2, <1>5, <2>1, CountedTail
    <3>2. Count(inbound', Asks(c)) <= Count(inbound, Asks(c)) + 1
      <4>1. Count(inbound, Asks(c)) \in Nat
        BY NumbersOfStep
      <4>2. Count(Append(inbound, m), Asks(c)) <= Count(inbound, Asks(c)) + 1
        BY <1>1, <1>3, CountedAppend
      <4> QED BY <1>2, <4>1, <4>2
    <3>3. /\ Len(out'[c]) + Due(c)' <= Len(out[c]) + Due(c)
          /\ Sent[step'[c]] = Sent[step[c]]
      BY <1>2, NumbersOfStep
    <3> QED BY <2>1, <3>1, <3>2, <3>3, OwedSums DEF RInv
  <2>2. CASE d # c \/ k = "Move"
    <3>1. m \in Message \ Asks(d)
      BY <1>3, <1>4, <2>2 DEF Asks
    <3>2. Count(inbound', Asks(d)) <= Count(inbound, Asks(d))
      BY <1>2, <3>1, LineKept
    <3>3. Count(up'[d], Requests) <= Count(up[d], Requests)
      <4>1. up'[d] = up[d] \/ (up[d] # <<>> /\ up'[d] = Tail(up[d]))
        BY <1>1, <1>2
      <4> QED BY <4>1, UpKept
    <3>4. Kept(d)
      <4>1. /\ Len(out'[d]) <= Len(out[d]) /\ Due(d)' <= Due(d)
            /\ Sent[step[d]] <= Sent[step'[d]]
        BY <1>2, AsMany
      <4> QED BY <3>2, <3>3, <4>1, KeptSums
    <3> QED BY <3>4, KeptOwed DEF RInv
  <2> QED BY <2>1, <2>2
<1> QED BY <1>6 DEF RInv

\* An answer no longer than a burst takes the place of what was asked.
LEMMA AnswerOwed ==
  ASSUME Both, RInv, NEW c \in Conns, NEW s \in States, NEW k \in ClientKinds \ {"Move"},
         Receive(c, s, k),
         Len(out'[c]) + Due(c)' <= Len(out[c]) + Due(c) + Burst,
         \A d \in Conns : d # c => out'[d] = out[d] /\ Due(d)' <= Due(d)
  PROVE  RInv'
<1> DEFINE m == Packet(c, s, k)
<1>1. /\ inbound \in Seq(Message) /\ inbound # <<>> /\ Head(inbound) = m /\ inbound' = Tail(inbound)
      /\ up' = up /\ step' = step
  BY DEF Both, NInv, Typed, Receive, evars
<1>2. m \in Asks(c)
  BY DEF Packet, Message, Asks
<1> HIDE DEF m
<1>3. Count(inbound', Asks(c)) + 1 <= Count(inbound, Asks(c))
  BY <1>1, <1>2, CountedTail
<1>4. Owed(c)'
  <2>1. /\ Count(up'[c], Requests) <= Count(up[c], Requests)
        /\ Sent[step'[c]] = Sent[step[c]]
    BY <1>1, NumbersOfStep
  <2> QED BY <1>3, <2>1, OwedSums DEF RInv
<1>5. ASSUME NEW d \in Conns, d # c
      PROVE  Owed(d)'
  BY <1>1, <1>5, IdleKept, KeptOwed DEF RInv
<1> QED BY <1>4, <1>5 DEF RInv

\* What is due when frames are queued for c: with Login, the chunks as well.
LEMMA Enqueued ==
  ASSUME Both, NEW c \in Conns, NEW frames \in Seq(ServerKinds), Enqueue(c, frames),
         phase' = phase, \A d \in Conns : d \in full_sync' => d \in full_sync \/ d = c
  PROVE  /\ \A d \in Conns : d # c => Due(d)' <= Due(d)
         /\ Due(c)' <= Due(c) + Len(frames) + (SpawnChunks + 2)
                       + (IF full_sync' = full_sync THEN 0 ELSE 1)
         /\ (\A i \in 1 .. Len(frames) : frames[i] # "Login")
              => Due(c)' <= Due(c) + Len(frames) + (IF full_sync' = full_sync THEN 0 ELSE 1)
<1> DEFINE u == urgent[c]
           x == IF full_sync' = full_sync THEN 0 ELSE 1
           f == IF c \in full_sync THEN 1 ELSE 0
           g == IF c \in full_sync' THEN 1 ELSE 0
           w == IF phase = "receive" THEN Spawned(c) ELSE 0
           v == IF phase = "receive" THEN Spawned(c)' ELSE 0
<1>1. urgent \in [Conns -> Seq(ServerKinds)] /\ u \in Seq(ServerKinds)
  BY DEF Both, NInv, Typed
<1>2. urgent'[c] = u \o frames /\ \A d \in Conns : d # c => urgent'[d] = urgent[d]
  BY <1>1 DEF Enqueue
<1>3. ASSUME NEW d \in Conns, d # c
      PROVE  Due(d)' <= Due(d)
  BY <1>2, <1>3, DueKept
<1>4. Due(c) = Len(u) + (f + w) /\ Due(c)' = Len(urgent'[c]) + (g + v)
  BY DEF Due, Coming
<1>5. x \in Nat /\ f \in Nat /\ g \in Nat /\ g <= f + x
  OBVIOUS
<1>6. w \in Nat /\ v \in Nat /\ v <= SpawnChunks + 2 /\ SpawnChunks \in Nat
  BY BurstLength DEF Spawned
<1>7. ASSUME \A i \in 1 .. Len(frames) : frames[i] # "Login"
      PROVE  v <= w
  <2>1. /\ Len(u) \in Nat /\ Len(frames) \in Nat
        /\ DOMAIN u = 1 .. Len(u) /\ DOMAIN (u \o frames) = 1 .. Len(u) + Len(frames)
        /\ \A i \in 1 .. Len(u) + Len(frames) :
             (u \o frames)[i] = IF i <= Len(u) THEN u[i] ELSE frames[i - Len(u)]
    BY <1>1, ConcatProperties, LenProperties
  <2> HIDE DEF u
  <2>2. ASSUME NEW i \in 1 .. Len(u) + Len(frames), (u \o frames)[i] = "Login"
        PROVE  i \in 1 .. Len(u) /\ u[i] = "Login"
    <3>1. CASE i <= Len(u)
      BY <2>1, <2>2, <3>1
    <3>2. CASE i > Len(u)
      <4>1. i - Len(u) \in 1 .. Len(frames) /\ (u \o frames)[i] = frames[i - Len(u)]
        BY <2>1, <3>2
      <4> QED BY <1>7, <2>2, <4>1
    <3> QED BY <2>1, <3>1, <3>2
  <2>3. EntersPlay(c)' => EntersPlay(c)
    BY <1>2, <2>1, <2>2 DEF EntersPlay, u
  <2> QED BY <2>3, <1>6 DEF Spawned
<1>8. Len(u) \in Nat /\ Len(frames) \in Nat /\ Len(urgent'[c]) = Len(u) + Len(frames)
  <2>1. Len(u \o frames) = Len(u) + Len(frames)
    BY <1>1, ConcatProperties
  <2> QED BY <1>1, <1>2, <2>1, LenProperties
<1> DEFINE l == Len(u)    k == Len(frames)    e == Due(c)    e2 == Due(c)'
<1>9. /\ e = l + (f + w) /\ e2 = (l + k) + (g + v) /\ l \in Nat /\ k \in Nat
  BY <1>4, <1>8
<1> HIDE DEF u, x, f, g, w, v, l, k, e, e2
<1>10. e2 <= e + k + (SpawnChunks + 2) + x /\ (v <= w => e2 <= e + k + x)
  BY <1>5, <1>6, <1>9
<1> QED BY <1>3, <1>7, <1>10 DEF x, k, e, e2

\* What a handler queues for c answers what it has taken out of the line.
LEMMA QueuedOwed ==
  ASSUME Both, RInv, NEW c \in Conns, NEW s \in States, NEW k \in ClientKinds \ {"Move"},
         Receive(c, s, k), out' = out,
         \A d \in Conns : d \in full_sync' => d \in full_sync \/ d = c,
         NEW frames \in Seq(ServerKinds),
         \/ /\ \A i \in 1 .. Len(frames) : frames[i] # "Login"
            /\ Len(frames) + (IF full_sync' = full_sync THEN 0 ELSE 1) <= Burst
         \/ Len(frames) + (SpawnChunks + 2) + (IF full_sync' = full_sync THEN 0 ELSE 1) <= Burst,
         Enqueue(c, frames) \/ (urgent' = urgent /\ full_sync' = full_sync)
  PROVE  RInv'
<1>1. phase' = phase
  BY DEF Receive
<1>2. /\ Due(c)' <= Due(c) + Burst
      /\ \A d \in Conns : d # c => Due(d)' <= Due(d)
  <2>1. CASE Enqueue(c, frames)
    <3> DEFINE x == IF full_sync' = full_sync THEN 0 ELSE 1
               l == Len(frames)    e == Due(c)    e2 == Due(c)'    b == Burst
    <3>1. /\ \A d \in Conns : d # c => Due(d)' <= Due(d)
          /\ e2 <= e + l + (SpawnChunks + 2) + x
          /\ (\A i \in 1 .. Len(frames) : frames[i] # "Login") => e2 <= e + l + x
      BY <1>1, <2>1, Enqueued
    <3>2. /\ l \in Nat /\ e \in Nat /\ e2 \in Nat /\ SpawnChunks \in Nat /\ x \in Nat
          /\ b \in Nat
      BY LenProperties, BurstLength, NumbersOfStep
    <3>3. \/ e2 <= e + l + x /\ l + x <= b
          \/ e2 <= e + l + (SpawnChunks + 2) + x /\ l + (SpawnChunks + 2) + x <= b
      BY <3>1
    <3> HIDE DEF x, l, e, e2, b
    <3>4. e2 <= e + b
      BY <3>2, <3>3
    <3> QED BY <3>1, <3>4 DEF e, e2, b
  <2>2. CASE urgent' = urgent /\ full_sync' = full_sync
    <3>1. \A d \in Conns : Due(d)' <= Due(d)
      BY <1>1, <2>2, DueKept
    <3>2. Due(c) \in Nat /\ Due(c)' \in Nat /\ Burst \in Nat
      BY BurstLength, NumbersOfStep
    <3> QED BY <3>1, <3>2
  <2> QED BY <2>1, <2>2
<1>3. Len(out'[c]) + Due(c)' <= Len(out[c]) + Due(c) + Burst
  <2> DEFINE o == Len(out[c])    u == Due(c)    u2 == Due(c)'    b == Burst
  <2>1. o \in Nat /\ u \in Nat /\ u2 \in Nat /\ u2 <= u + b /\ b \in Nat
    BY <1>2, BurstLength, NumbersOfStep
  <2> HIDE DEF o, u, u2, b
  <2>2. o + u2 <= o + u + b
    BY <2>1
  <2> QED BY <2>2 DEF o, u, u2, b
<1> QED BY <1>2, <1>3, AnswerOwed

\* The three messages of a login go straight to the outbound channel.
LEMMA HelloOwed ==
  ASSUME Both, RInv, NEW c \in Conns, HandleHello(c)
  PROVE  RInv'
<1>1. Receive(c, "Login", "Hello") /\ "Login" \in States /\ "Hello" \in ClientKinds \ {"Move"}
  BY DEF HandleHello, States, ClientKinds
<1>2. CASE Compress
  <2>1. ASSUME NEW q, NEW m, Len(q) \in Nat, q \in Seq(Wire), m \in Wire
        PROVE  /\ TrySend(c, q, m) \in Seq(Wire) /\ Len(TrySend(c, q, m)) \in Nat
               /\ Len(TrySend(c, q, m)) <= Len(q) + 1
    <3>1. Append(q, m) \in Seq(Wire) /\ Len(Append(q, m)) = Len(q) + 1
      BY <2>1, AppendFacts
    <3> QED BY <2>1, <3>1 DEF TrySend
  <2> DEFINE q0 == out[c]
             q1 == TrySend(c, q0, EnableCompression)
             q2 == TrySend(c, q1, Frame("LoginSuccess", FALSE))
             q3 == TrySend(c, q2, Frame("LoginCompression", FALSE))
  <2>2. /\ EnableCompression \in Wire
        /\ Frame("LoginSuccess", FALSE) \in Wire /\ Frame("LoginCompression", FALSE) \in Wire
    BY DEF EnableCompression, Frame, Wire, ServerKinds
  <2>3. out \in [Conns -> Seq(Wire)] /\ q0 \in Seq(Wire) /\ Len(q0) \in Nat
    BY NumbersOfStep DEF Both, NInv, Typed
  <2>4. out'[c] = q3 /\ urgent' = urgent /\ \A d \in Conns : d # c => out'[d] = out[d]
    BY <1>2, <2>3 DEF HandleHello
  <2>0. phase' = phase /\ full_sync' = full_sync \cup {c}
    BY <1>1 DEF HandleHello, Receive
  <2> HIDE DEF q0
  <2>5. q1 \in Seq(Wire) /\ Len(q1) \in Nat /\ Len(q1) <= Len(q0) + 1
    BY <2>1, <2>2, <2>3
  <2> HIDE DEF q1
  <2>6. q2 \in Seq(Wire) /\ Len(q2) \in Nat /\ Len(q2) <= Len(q1) + 1
    BY <2>1, <2>2, <2>5
  <2> HIDE DEF q2
  <2>7. Len(q3) \in Nat /\ Len(q3) <= Len(q2) + 1
    BY <2>1, <2>2, <2>6
  <2> HIDE DEF q3
  <2>8. Len(out'[c]) <= Len(out[c]) + 3
    BY <2>3, <2>4, <2>5, <2>6, <2>7 DEF q0
  <2>9. Due(c)' <= Due(c) + 1 /\ \A d \in Conns : d # c => Due(d)' <= Due(d)
    <3>1. \A d \in Conns : d # c => Due(d)' <= Due(d)
      BY <2>0, <2>4, DueKept
    <3>2. Spawned(c)' = Spawned(c) /\ Spawned(c) \in Nat
      BY <2>4, BurstLength DEF Spawned, EntersPlay
    <3>3. Coming(c)' <= Coming(c) + 1 /\ Coming(c) \in Nat /\ Coming(c)' \in Nat
      BY <2>0, <3>2 DEF Coming
    <3>4. Len(urgent[c]) \in Nat
      BY NumbersOfStep
    <3> QED BY <2>4, <3>1, <3>3, <3>4 DEF Due
  <2>10. Len(out'[c]) + Due(c)' <= Len(out[c]) + Due(c) + Burst
    <3> DEFINE o == Len(out[c])    u == Due(c)    o2 == Len(out'[c])    u2 == Due(c)'
               b == Burst
    <3>1. /\ o \in Nat /\ u \in Nat /\ o2 \in Nat /\ o2 <= o + 3 /\ u2 <= u + 1
          /\ u2 \in Nat
      BY <2>8, <2>9, NumbersOfStep
    <3>2. b \in Nat /\ b >= 6
      BY BurstLength DEF Burst
    <3> HIDE DEF o, u, o2, u2, b
    <3>3. o2 + u2 <= o + u + b
      BY <3>1, <3>2
    <3> QED BY <3>3 DEF o, u, o2, u2, b
  <2> QED BY <1>1, <2>4, <2>9, <2>10, AnswerOwed
<1>3. CASE ~Compress
  <2>1. out' = out /\ full_sync' = full_sync \cup {c} /\ Enqueue(c, <<"LoginSuccess">>)
    BY <1>3 DEF HandleHello
  <2>2. <<"LoginSuccess">> \in Seq(ServerKinds) /\ Len(<<"LoginSuccess">>) = 1
    BY Frames DEF ServerKinds
  <2>3. \A i \in 1 .. Len(<<"LoginSuccess">>) : <<"LoginSuccess">>[i] # "Login"
    OBVIOUS
  <2>4. 1 + (IF full_sync' = full_sync THEN 0 ELSE 1) <= Burst
    BY BurstLength DEF Burst
  <2> QED BY <1>1, <2>1, <2>2, <2>3, <2>4, QueuedOwed
<1> QED BY <1>2, <1>3

\* The other handlers queue a frame, the registries, or what a player enters play with.
LEMMA RepliesOwed ==
  ASSUME Both, RInv, NEW c \in Conns, NEW k \in ClientKinds,
         \/ HandleIntention(c, k) \/ HandleStatus(c, k)
         \/ HandleClientInformation(c) \/ HandleFinishConfiguration(c)
  PROVE  RInv'
<1>1. \A x \in ServerKinds \ {"Login"} :
        /\ <<x>> \in Seq(ServerKinds) /\ Len(<<x>>) + 0 <= Burst
        /\ \A i \in 1 .. Len(<<x>>) : <<x>>[i] # "Login"
  <2>1. \A x \in ServerKinds : <<x>> \in Seq(ServerKinds) /\ Len(<<x>>) = 1
    BY Frames
  <2>2. 1 + 0 <= Burst
    BY BurstLength DEF Burst
  <2> QED BY <2>1, <2>2
<1>2. {"Handshake", "Status", "Configuration"} \subseteq States
  BY DEF States
<1>3. {"StatusResponse", "PingResponse", "LoginDisconnect"} \subseteq ServerKinds \ {"Login"}
  BY DEF ServerKinds
<1>4. full_sync' = full_sync /\ \A d \in Conns : d \in full_sync' => d \in full_sync \/ d = c
  BY DEF HandleIntention, HandleStatus, HandleClientInformation, HandleFinishConfiguration
<1>5. CASE HandleIntention(c, k)
  <2>1. k # "Move"
    BY <1>5 DEF HandleIntention, Known, StatusIntents, LoginIntents
  <2>2. /\ Receive(c, "Handshake", k) /\ out' = out
        /\ Enqueue(c, <<"LoginDisconnect">>) \/ urgent' = urgent
    BY <1>5 DEF HandleIntention
  <2> QED BY <1>1, <1>2, <1>3, <1>4, <2>1, <2>2, QueuedOwed
<1>6. CASE HandleStatus(c, k)
  <2>1. /\ Receive(c, "Status", k) /\ out' = out /\ k # "Move"
        /\ Enqueue(c, <<"StatusResponse">>) \/ Enqueue(c, <<"PingResponse">>)
    BY <1>6 DEF HandleStatus
  <2> QED BY <1>1, <1>2, <1>3, <1>4, <2>1, QueuedOwed
<1>7. CASE HandleClientInformation(c)
  <2>1. /\ Receive(c, "Configuration", "ClientInformation") /\ out' = out
        /\ Enqueue(c, ConfigurationFrames)
    BY <1>7 DEF HandleClientInformation
  <2>2. "ClientInformation" \in ClientKinds \ {"Move"}
    BY DEF ClientKinds
  <2>3. /\ ConfigurationFrames \in Seq(ServerKinds \ {"Login"})
        /\ ConfigurationFrames \in Seq(ServerKinds)
        /\ Len(ConfigurationFrames) = Registries + 3
    <3>1. /\ Configuring \subseteq ServerKinds \ {"Login"}
          /\ Configuring \subseteq ServerKinds
      BY DEF Configuring, ServerKinds
    <3> QED BY <3>1, ConfigurationSent
  <2>4. \A i \in 1 .. Len(ConfigurationFrames) : ConfigurationFrames[i] # "Login"
    BY <2>3, ElementOfSeq
  <2>5. Len(ConfigurationFrames) + 0 <= Burst
    BY <2>3, BurstLength DEF Burst
  <2> QED BY <1>2, <1>4, <2>1, <2>2, <2>3, <2>4, <2>5, QueuedOwed
<1>8. CASE HandleFinishConfiguration(c)
  <2>1. /\ Receive(c, "Configuration", "Ack") /\ out' = out
        /\ Enqueue(c, EntryFrames) \/ urgent' = urgent
    BY <1>8 DEF HandleFinishConfiguration
  <2>2. "Ack" \in ClientKinds \ {"Move"}
    BY DEF ClientKinds
  <2>3. EntryFrames \in Seq(ServerKinds) /\ Len(EntryFrames) = 4
    <3>1. Entering \subseteq ServerKinds
      BY DEF Entering, ServerKinds
    <3> QED BY <3>1, EntrySent
  <2>4. Len(EntryFrames) + (SpawnChunks + 2) + 0 <= Burst
    BY <2>3, BurstLength DEF Burst
  <2> QED BY <1>2, <1>4, <2>1, <2>2, <2>3, <2>4, QueuedOwed
<1> QED BY <1>5, <1>6, <1>7, <1>8

\* What the systems behind network_receive send was coming.
LEMMA SystemsOwed ==
  ASSUME Both, RInv, ReceiveEnds
  PROVE  RInv'
<1>1. /\ UNCHANGED <<out, up, step, inbound>> /\ phase = "receive" /\ phase' = "systems"
      /\ full_sync' = full_sync \ bound
  BY DEF ReceiveEnds, lvars, evars
<1>2. ASSUME NEW d \in Conns
      PROVE  Due(d)' <= Due(d)
  <2>1. Len(urgent'[d]) <= Len(urgent[d]) + Spawned(d) + Stocked(d)
    <3>1. urgent \in [Conns -> Seq(ServerKinds)] /\ Spawning \subseteq ServerKinds
      BY DEF Both, NInv, Typed, ServerKinds, Spawning
    <3> QED BY <3>1, SystemsSend
  <2>2. /\ Coming(d) = (IF d \in full_sync THEN 1 ELSE 0) + Spawned(d)
        /\ Coming(d)' = IF d \in full_sync \ bound THEN 1 ELSE 0
    BY <1>1 DEF Coming
  <2>3. Spawned(d) \in Nat /\ Len(urgent[d]) \in Nat /\ Len(urgent'[d]) \in Nat
    BY BurstLength, NumbersOfStep DEF Spawned
  <2>4. Stocked(d) + (IF d \in full_sync \ bound THEN 1 ELSE 0)
          = (IF d \in full_sync THEN 1 ELSE 0)
    BY DEF Stocked
  <2>5. Stocked(d) \in Nat
    BY DEF Stocked
  <2>6. Coming(d) \in Nat /\ Coming(d)' \in Nat /\ Spawned(d) + Stocked(d) + Coming(d)' = Coming(d)
    <3> HIDE DEF Spawned, Stocked
    <3>1. CASE d \in full_sync
      BY <2>2, <2>3, <2>4, <2>5, <3>1
    <3>2. CASE d \notin full_sync
      BY <2>2, <2>3, <2>4, <2>5, <3>2
    <3> QED BY <3>1, <3>2
  <2> HIDE DEF Spawned, Stocked, Coming
  <2> QED BY <2>1, <2>3, <2>5, <2>6 DEF Due
<1> QED BY <1>1, <1>2, SilentKept, KeptOwed DEF RInv

\* tick_begin sends nothing.
LEMMA BeginOwed ==
  ASSUME Both, RInv, TickBegin
  PROVE  RInv'
<1>1. /\ UNCHANGED <<out, up, step, inbound, urgent, full_sync>>
      /\ phase = "systems" /\ phase' = SendPhase(urgent)
  BY DEF TickBegin, lvars, evars
<1>2. ASSUME NEW d \in Conns
      PROVE  Due(d)' <= Due(d)
  <2>1. phase' = "receive" => Spawned(d)' = 0
    <3> SUFFICES ASSUME phase' = "receive"
                 PROVE  Spawned(d)' = 0
      OBVIOUS
    <3>1. urgent'[d] = <<>> /\ DOMAIN <<>> = {}
      BY <1>1, NobodyEnters
    <3> QED BY <3>1 DEF Spawned, EntersPlay
  <2>2. Coming(d)' = Coming(d) /\ Coming(d) \in Nat
    BY <1>1, <2>1 DEF Coming
  <2>3. Len(urgent[d]) \in Nat
    BY NumbersOfStep
  <2> QED BY <1>1, <2>2, <2>3 DEF Due
<1> QED BY <1>1, <1>2, SilentKept, KeptOwed DEF RInv

\* The steps of the game.
LEMMA GameOwed ==
  ASSUME Both, RInv, GameStep
  PROVE  RInv'
<1>1. ASSUME NEW c \in Conns, NEW s, NEW k, Receive(c, s, k),
             UNCHANGED <<out, urgent, full_sync>>
      PROVE  RInv'
  <2>1. UNCHANGED <<out, up, step, phase>> /\ inbound # <<>> /\ inbound' = Tail(inbound)
    BY <1>1 DEF Receive, evars
  <2>2. \A d \in Conns : Due(d)' <= Due(d)
    BY <1>1, <2>1, DueKept
  <2> QED BY <2>1, <2>2, SilentKept, KeptOwed DEF RInv
<1>2. ASSUME NEW c \in Conns, NEW s \in States, NEW k \in ClientKinds, Undispatched(c, s, k)
      PROVE  RInv'
  BY <1>1, <1>2 DEF Undispatched
<1>3. ASSUME NEW c \in Conns, HelloIgnored(c) \/ HandleLoginAcknowledged(c) \/ HandlePlayerPosition(c)
      PROVE  RInv'
  BY <1>1, <1>3 DEF HelloIgnored, HandleLoginAcknowledged, HandlePlayerPosition
<1>4. ASSUME NEW c \in Conns, NEW k \in ClientKinds, HandleIntention(c, k) \/ HandleStatus(c, k)
      PROVE  RInv'
  BY <1>4, RepliesOwed
<1>5. ASSUME NEW c \in Conns,
             HandleHello(c) \/ HandleClientInformation(c) \/ HandleFinishConfiguration(c)
      PROVE  RInv'
  <2>1. PICK k : k \in ClientKinds
    BY DEF ClientKinds
  <2> QED BY <1>5, <2>1, HelloOwed, RepliesOwed
<1>6. ASSUME NEW c \in Conns, HandleClosed(c)
      PROVE  RInv'
  <2>1. UNCHANGED <<out, up, step, phase>> /\ inbound # <<>> /\ inbound' = Tail(inbound)
    BY <1>6 DEF HandleClosed, evars
  <2>2. \A d \in Conns :
          (urgent'[d] = urgent[d] \/ urgent'[d] = <<>>) /\ (d \in full_sync' => d \in full_sync)
    BY <1>6 DEF HandleClosed, Both, NInv, Typed
  <2>3. \A d \in Conns : Due(d)' <= Due(d)
    BY <2>1, <2>2, DueKept
  <2> QED BY <2>1, <2>3, SilentKept, KeptOwed DEF RInv
<1>7. ASSUME NEW c \in Conns, FlushFrame(c)
      PROVE  RInv'
  BY <1>7, FlushKept, KeptOwed DEF RInv
<1>8. CASE TickBeginDiscard
  <2>1. /\ UNCHANGED <<out, up, step, urgent, phase, full_sync>>
        /\ inbound # <<>> /\ inbound' = Tail(inbound)
    BY <1>8 DEF TickBeginDiscard, evars
  <2>2. \A d \in Conns : Due(d)' <= Due(d)
    BY <2>1, DueKept
  <2> QED BY <2>1, <2>2, SilentKept, KeptOwed DEF RInv
<1>9. CASE ReceiveEnds \/ TickBegin
  BY <1>9, SystemsOwed, BeginOwed
<1> QED BY <1>2, <1>3, <1>4, <1>5, <1>6, <1>7, <1>8, <1>9 DEF GameStep

\* A client that asks has sent one frame more; a movement is not answered.
LEMMA ClientOwed ==
  ASSUME Both, RInv, NEW c \in Conns, ClientStep(c) \/ Connect(c) \/ Leave(c)
  PROVE  RInv'
<1>1. CASE Read(c) \/ Connect(c) \/ Leave(c)
  BY <1>1, ClientsKept, KeptOwed DEF RInv
<1>2. ASSUME NEW from \in Steps, NEW k \in ClientKinds, NEW to \in Steps, Send(c, from, k, to),
             (k = "Move" /\ from = to) \/ (k # "Move" /\ Sent[to] = Sent[from] + 1)
      PROVE  RInv'
  <2> DEFINE f == Frame(k, c \in cz)
  <2>1. /\ up \in [Conns -> Seq(Upward)] /\ step \in [Conns -> Steps] /\ step[c] = from
        /\ up' = [up EXCEPT ![c] = Append(@, f)] /\ step' = [step EXCEPT ![c] = to]
        /\ out' = out /\ inbound' = inbound
        /\ UNCHANGED <<urgent, phase, full_sync>>
    BY <1>2 DEF Both, NInv, Typed, FInv, FTyped, Upward, Send, ClientSame, gvars
  <2>0. \A d \in Conns : Due(d)' <= Due(d)
    BY <2>1, DueKept
  <2>2. f \in Upward /\ f.kind = k
    BY DEF Frame, Upward
  <2> HIDE DEF f
  <2>3. /\ Count(up'[c], Requests) <= Count(up[c], Requests) + 1
        /\ k = "Move" => Count(up'[c], Requests) = Count(up[c], Requests)
    <3>1. k = "Move" => f \notin Requests
      BY <2>2 DEF Requests
    <3> QED BY <2>1, <2>2, <3>1, CountedAppend
  <2>4. Owed(c)'
    <3>1. step'[c] = to
      BY <2>1
    <3>2. /\ Len(out'[c]) + Due(c)' <= Len(out[c]) + Due(c)
          /\ Count(inbound', Asks(c)) <= Count(inbound, Asks(c))
      BY <2>0, <2>1, NumbersOfStep
    <3>3. CASE k # "Move"
      <4>1. Sent[step'[c]] = Sent[step[c]] + 1
        BY <1>2, <2>1, <3>1, <3>3
      <4> QED BY <2>3, <3>2, <4>1, OwedSums DEF RInv
    <3>4. CASE k = "Move"
      <4>1. /\ Count(up'[c], Requests) <= Count(up[c], Requests)
            /\ Sent[step[c]] <= Sent[step'[c]]
        <5>1. step'[c] = step[c]
          BY <1>2, <2>1, <3>1, <3>4
        <5>2. Count(up'[c], Requests) = Count(up[c], Requests)
          BY <2>3, <3>4
        <5> QED BY <5>1, <5>2, NumbersOfStep
      <4>2. Kept(c)
        BY <2>0, <2>1, <3>2, <4>1, AsMany, KeptSums
      <4> QED BY <4>2, KeptOwed DEF RInv
    <3> QED BY <3>3, <3>4
  <2>5. ASSUME NEW d \in Conns, d # c
        PROVE  Owed(d)'
    <3>1. up'[d] = up[d] /\ step'[d] = step[d]
      BY <2>1, <2>5
    <3> QED BY <2>0, <2>1, <3>1, IdleKept, KeptOwed DEF RInv
  <2> QED BY <2>4, <2>5 DEF RInv
<1>3. CASE SendStatus(c) \/ SendLogin(c) \/ SendMove(c)
  <2>1. /\ \A k \in StatusIntents \cup LoginIntents : k \in ClientKinds /\ k # "Move"
        /\ "StatusRequest" \in ClientKinds /\ "Ping" \in ClientKinds /\ "Hello" \in ClientKinds
        /\ "Ack" \in ClientKinds /\ "ClientInformation" \in ClientKinds
        /\ "Move" \in ClientKinds
    BY DEF ClientKinds, StatusIntents, LoginIntents
  <2>2. /\ Sent["request"] = Sent["intend"] + 1 /\ Sent["hello"] = Sent["intend"] + 1
        /\ Sent["await status"] = Sent["request"] + 1 /\ Sent["await ping"] = Sent["ping"] + 1
        /\ Sent["await success"] = Sent["hello"] + 1 /\ Sent["inform"] = Sent["acknowledge"] + 1
        /\ Sent["configure"] = Sent["inform"] + 1 /\ Sent["join"] = Sent["finish"] + 1
    BY DEF Sent, Steps
  <2>3. /\ "intend" \in Steps /\ "request" \in Steps /\ "hello" \in Steps
        /\ "await status" \in Steps /\ "ping" \in Steps /\ "await ping" \in Steps
        /\ "await success" \in Steps /\ "acknowledge" \in Steps /\ "inform" \in Steps
        /\ "configure" \in Steps /\ "finish" \in Steps /\ "join" \in Steps /\ "play" \in Steps
    BY DEF Steps
  <2>4. CASE SendStatus(c)
    <3>1. ASSUME NEW k \in StatusIntents, Send(c, "intend", k, "request")
          PROVE  RInv'
      BY <1>2, <2>1, <2>2, <2>3, <3>1
    <3>2. CASE Send(c, "request", "StatusRequest", "await status")
      BY <1>2, <2>1, <2>2, <2>3, <3>2
    <3>3. CASE Send(c, "ping", "Ping", "await ping")
      BY <1>2, <2>1, <2>2, <2>3, <3>3
    <3> QED BY <2>4, <3>1, <3>2, <3>3 DEF SendStatus
  <2>5. CASE SendLogin(c)
    <3>1. ASSUME NEW k \in LoginIntents, Send(c, "intend", k, "hello")
          PROVE  RInv'
      BY <1>2, <2>1, <2>2, <2>3, <3>1
    <3>2. CASE Send(c, "hello", "Hello", "await success")
      BY <1>2, <2>1, <2>2, <2>3, <3>2
    <3>3. CASE Send(c, "acknowledge", "Ack", "inform")
      BY <1>2, <2>1, <2>2, <2>3, <3>3
    <3>4. CASE Send(c, "inform", "ClientInformation", "configure")
      BY <1>2, <2>1, <2>2, <2>3, <3>4
    <3>5. CASE Send(c, "finish", "Ack", "join")
      BY <1>2, <2>1, <2>2, <2>3, <3>5
    <3> QED BY <2>5, <3>1, <3>2, <3>3, <3>4, <3>5 DEF SendLogin
  <2>6. CASE SendMove(c)
    <3>1. Send(c, "play", "Move", "play")
      BY <2>6 DEF SendMove
    <3> QED BY <1>2, <2>1, <2>3, <3>1
  <2> QED BY <1>3, <2>4, <2>5, <2>6
<1> QED BY <1>1, <1>3 DEF ClientStep

\* Everything starts empty and unasked.
LEMMA InitOwed == NInit => RInv
<1> SUFFICES ASSUME NInit, NEW c \in Conns
             PROVE  Owed(c)
  BY DEF RInv
<1>1. /\ out[c] = <<>> /\ urgent[c] = <<>> /\ up[c] = <<>> /\ inbound = <<>> /\ step[c] = "connect"
  BY DEF NInit, LInit
<1>2. Sent["connect"] = 0
  BY SentFrames
<1>3. Due(c) = 0
  <2>1. full_sync = {}
    BY DEF NInit
  <2>2. Len(urgent[c]) = 0 /\ DOMAIN urgent[c] = {}
    BY <1>1
  <2> QED BY <2>1, <2>2 DEF Due, Coming, Spawned, EntersPlay
<1>4. Count(up[c], Requests) = 0 /\ Count(inbound, Asks(c)) = 0 /\ Len(out[c]) = 0
  BY <1>1, CountedNone
<1>5. 0 + 0 + Burst * (0 + 0) <= Burst * 0
  BY BurstLength
<1> QED BY <1>1, <1>2, <1>3, <1>4, <1>5 DEF Owed

\* At every moment the frames on their way to a connection that has not entered play
\* in an earlier tick are no more than the answers to what its client has sent, a
\* burst for each frame (network_receive.rs:287-663, chunk_send.rs, inventory_sync.rs).
THEOREM AnswersBounded ==
  ASSUME 3 <= OutCap
  PROVE  NSpec => []RInv
<1>1. NInit => RInv
  BY InitOwed
<1>2. Both /\ RInv /\ [NNext]_nvars => RInv'
  <2> SUFFICES ASSUME Both, RInv, [NNext]_nvars
               PROVE  RInv'
    OBVIOUS
  <2>1. CASE UNCHANGED nvars
    <3>1. UNCHANGED <<out, up, step, urgent, inbound, phase, full_sync>>
      BY <2>1 DEF nvars, lvars, gvars, evars
    <3>2. \A d \in Conns : Due(d)' <= Due(d)
      BY <3>1, DueKept
    <3> QED BY <3>1, <3>2, SilentKept, KeptOwed DEF RInv
  <2>2. CASE GameStep
    BY <2>2, GameOwed
  <2>3. ASSUME NEW c \in Conns, ListenerStep(c)
        PROVE  RInv'
    <3>1. UNCHANGED <<gvars, evars>>
      BY <2>3 DEF ListenerStep
    <3>2. CASE ProcessFrame(c)
      BY <3>1, <3>2, ReportedOwed
    <3>3. CASE \/ Accept(c) \/ RemoveOutbound(c) \/ DropGarbled(c) \/ ReadEnds(c) \/ SendClosed(c)
               \/ AbortWriter(c) \/ WriterStep(c)
      BY <3>1, <3>3, TasksKept, KeptOwed DEF RInv
    <3> QED BY <2>3, <3>2, <3>3 DEF ListenerStep
  <2>4. ASSUME NEW c \in Conns, ClientStep(c) \/ Connect(c) \/ Leave(c)
        PROVE  RInv'
    BY <2>4, ClientOwed
  <2> QED BY <2>1, <2>2, <2>3, <2>4 DEF NNext
<1>3. NSpec => []NInv /\ []FInv
  BY ConnectionsSane, FormatsHold
<1> QED BY <1>1, <1>2, <1>3, PTL DEF NSpec, Both

\* Every frame of the way into play that is flushed while the write task of its
\* connection runs reaches the channel, if that takes five bursts: the registries and
\* the chunks are delivered, although try_send gives up on a full channel
\* (client.rs:20, network_send.rs).  With 28 registries and 9 chunks that is 215
\* frames, of the 256 the channel takes.
THEOREM UrgentDelivered ==
  ASSUME 5 * Burst <= OutCap
  PROVE  NSpec => NothingLost
<1>0. Burst \in Nat /\ 6 <= Burst /\ OutCap \in Nat /\ 3 <= OutCap
  BY BurstLength, OutCapAssumption DEF Burst
<1>1. NInv /\ FInv /\ RInv /\ [NNext]_nvars =>
        [\A c \in Conns : FlushFrame(c) /\ writer[c] = "running" /\ c \in outbound
           => out'[c] # out[c]]_nvars
  <2> SUFFICES ASSUME NInv, FInv, RInv, NEW c \in Conns,
                      FlushFrame(c), writer[c] = "running", c \in outbound
               PROVE  out'[c] # out[c]
    OBVIOUS
  <2>1. /\ Len(out[c]) \in Nat /\ Len(urgent[c]) \in Nat /\ Due(c) \in Nat
        /\ Count(up[c], Requests) \in Nat /\ Count(inbound, Asks(c)) \in Nat
        /\ Sent[step[c]] \in 0 .. 5
    BY Numbers
  <2>2. out \in [Conns -> Seq(Wire)] /\ urgent[c] \in Seq(ServerKinds) /\ urgent[c] # <<>>
    BY DEF NInv, Typed, FlushFrame
  <2>3. Due(c) >= 1
    <3>1. Len(urgent[c]) >= 1 /\ Len(urgent[c]) <= Due(c)
      BY <2>1, <2>2, TailFacts, DueIsNumber
    <3> QED BY <2>1, <3>1
  <2>4. Len(out[c]) < OutCap
    <3> DEFINE o == Len(out[c])    u == Due(c)    b == Burst
               r == Count(up[c], Requests)    l == Count(inbound, Asks(c))
               s == Sent[step[c]]
    <3>1. o + u + b * (r + l) <= b * s
      BY DEF RInv, Owed
    <3>2. o \in Nat /\ u \in Nat /\ r \in Nat /\ l \in Nat /\ s \in 0 .. 5 /\ u >= 1
      BY <2>1, <2>3
    <3>3. b \in Nat /\ 5 * b <= OutCap
      BY <1>0
    <3> HIDE DEF o, u, r, l, s, b
    <3>4. r + l \in Nat /\ s \in Nat /\ s <= 5 /\ 5 \in Nat
      BY <3>2
    <3>5. b * (r + l) \in Nat /\ b * s \in Nat /\ b * s <= b * 5
      BY <3>3, <3>4, Times
    <3>6. b * 5 = 5 * b
      BY <3>3
    <3>7. o < OutCap
      BY <1>0, <3>1, <3>2, <3>3, <3>5, <3>6
    <3> QED BY <3>7 DEF o
  <2> DEFINE m == Frame(Head(urgent[c]), c \in deflate)
  <2>5. out'[c] = Append(out[c], m)
    BY <2>2, <2>4 DEF FlushFrame, TrySend
  <2> HIDE DEF m
  <2>6. Len(Append(out[c], m)) = Len(out[c]) + 1
    BY <2>2
  <2> QED BY <2>1, <2>5, <2>6
<1>2. NSpec => []NInv /\ []FInv /\ []RInv
  BY <1>0, ConnectionsSane, FormatsHold, AnswersBounded
<1> QED BY <1>1, <1>2, PTL DEF NSpec, NothingLost

==============================================================================
