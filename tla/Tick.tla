-------------------------------- MODULE Tick --------------------------------
(***************************************************************************)
(* A turn of the main loop: the systems of a tick of the main world        *)
(* (core/plugin.rs, core/system/) in the order the Schedule gives them,    *)
(* then the tick of the default instance, where the players are.  What the *)
(* systems tell the clients of one another: who is there and where, the    *)
(* chunks around a player, its inventory, and what becomes of its actions; *)
(* and where the instance lets a player fall.                              *)
(*                                                                         *)
(* A system writes messages that live until the end of the tick, so a      *)
(* system sees only those of the systems before it.  Frames come in in any *)
(* number and order the protocol of a connection allows (the Network       *)
(* module has the protocol itself); a packet queued for a client arrives   *)
(* when it is flushed.  Left out: systems that touch none of this          *)
(* (chunk_boundary, chunk_dirty_sync, tick_end, registry_sync and, without *)
(* an application, scheduler_tick, attribute_sync and command chat),       *)
(* tick_begin, which the Network module has, several instances and the     *)
(* view distance.  Of the instance's systems player_movement moves nobody  *)
(* (its step, Res<f64>, is 0 as nobody sets it in an instance world) and   *)
(* stops everybody, entity_ai leaves players alone, and physics is there.  *)
(* Positions are heights in steps of GRAVITY: with no velocity nothing     *)
(* moves a player sideways, and blocks do not change here.  The player     *)
(* entity of connection c is named c; as in the server there is a default  *)
(* instance, where players are spawned.                                    *)
(***************************************************************************)
EXTENDS Integers, Sequences, FiniteSets, SequencesExt

CONSTANTS
  Conns,      \* connections
  Positions,  \* positions a client can report, integers
  Ground,     \* those where a player stands on a block (move_axis, downwards)
  Propped,    \* those with a block one below (the first loop of physics)
  Origin,     \* where players are spawned
  Unseen,     \* what a client shows of a player it was not told of
  MaxPackets  \* bound: packets clients send in play

ASSUME ConnsAssumption == IsFiniteSet(Conns) /\ Conns \subseteq Nat \ {0}
ASSUME PositionsAssumption == Positions \subseteq Int /\ Origin \in Positions
ASSUME GroundAssumption == Ground \subseteq Int /\ Propped \subseteq Int
ASSUME UnseenAssumption == Unseen \notin Int
ASSUME PacketsAssumption == MaxPackets \in Nat

VARIABLES
  pc,        \* the system that runs next, a position in Order; behind it the instances
  rt,        \* rt[c]: state of the ConnectionManager's runtime, or "none"
  instance,  \* players in the default instance, with their position
  unsynced,  \* those whose inventory has full_sync set
  urgent, normal,  \* queues of the ClientNetwork of c
  packets,   \* packet_inbox
  enters, quits, raws, moves, actions,  \* messages written in this tick
  dispatched,  \* dispatched[c]: digs of c dispatched on the EventBus
  client,    \* client[c]: what the client of c was sent
  reported,  \* reported[c]: position its client last reported
  dug,       \* dug[c]: digs it sent
  sent       \* sent[c]: packets it sent in play

server == <<rt, instance, unsynced, urgent, normal, packets>>
messages == <<enters, quits, raws, moves, actions>>
outside == <<client, reported, dug, sent>>
tvars == <<pc, server, messages, dispatched, outside>>

----------------------------------------------------------------------------
(* The order of the systems *)

\* Systems in the order they are registered, and what runs after what.
Systems ==
  <<"network_receive", "command_chat_system", "packet_action_system",
    "block_interaction_validator", "chunk_send", "entity_sync",
    "inventory_sync", "tick_begin", "scheduler_tick", "player_input",
    "chunk_boundary", "chunk_dirty_sync", "tick_end", "attribute_sync",
    "registry_sync", "network_send">>

After ==
  {<<"command_chat_system", "network_receive">>,
   <<"packet_action_system", "network_receive">>,
   <<"block_interaction_validator", "packet_action_system">>,
   <<"chunk_send", "network_receive">>, <<"entity_sync", "network_receive">>,
   <<"inventory_sync", "entity_sync">>, <<"tick_begin", "entity_sync">>,
   <<"scheduler_tick", "tick_begin">>, <<"player_input", "scheduler_tick">>,
   <<"chunk_boundary", "player_input">>, <<"chunk_dirty_sync", "chunk_boundary">>,
   <<"tick_end", "chunk_dirty_sync">>, <<"attribute_sync", "tick_end">>,
   <<"registry_sync", "attribute_sync">>, <<"network_send", "attribute_sync">>,
   <<"network_send", "tick_end">>, <<"network_send", "command_chat_system">>,
   <<"network_send", "packet_action_system">>}

\* topo_groups: the next layer, given the systems of the layers before.  With
\* a cycle the rest is one layer.
Group(done) ==
  LET left  == DOMAIN Systems \ done
      ready == {i \in left : \A j \in left : <<Systems[i], Systems[j]>> \notin After}
  IN  IF ready = {} THEN left ELSE ready

Scheduled[n \in Nat] ==
  IF n = 0 THEN {} ELSE LET done == Scheduled[n - 1] IN done \cup Group(done)

\* Layer by layer, in a layer as registered.
RunOrder ==
  LET layer(n) == SetToSortSeq(Scheduled[n] \ Scheduled[n - 1], <)
  IN  FoldLeft(LAMBDA o, n : o \o layer(n), <<>>, [n \in DOMAIN Systems |-> n])

Modelled ==
  {"network_receive", "packet_action_system", "block_interaction_validator",
   "chunk_send", "entity_sync", "inventory_sync", "player_input", "network_send"}

Order == SelectSeq([i \in DOMAIN RunOrder |-> Systems[RunOrder[i]]],
                   LAMBDA s : s \in Modelled)

\* What that comes to.
ASSUME OrderAssumption ==
  Order = <<"network_receive", "packet_action_system", "chunk_send", "entity_sync",
            "block_interaction_validator", "inventory_sync", "player_input", "network_send">>

----------------------------------------------------------------------------

Runs(s) == pc \in DOMAIN Order /\ Order[pc] = s
InstancesRun == pc = Len(Order) + 1
Advance == pc' = pc + 1

Bound == {c \in Conns : rt[c] # "none"}
Playing == {c \in Conns : rt[c] = "Play"}

TInit ==
  /\ pc = 1
  /\ rt = [c \in Conns |-> "none"]
  /\ instance = <<>> /\ unsynced = {}
  /\ urgent = [c \in Conns |-> <<>>] /\ normal = [c \in Conns |-> <<>>]
  /\ packets = <<>>
  /\ enters = <<>> /\ quits = <<>> /\ raws = <<>> /\ moves = <<>> /\ actions = <<>>
  /\ dispatched = [c \in Conns |-> 0]
  /\ client = [c \in Conns |-> [stage |-> "new", shown |-> [d \in Conns |-> Unseen],
                                batches |-> 0, early |-> {}]]
  /\ reported = [c \in Conns |-> Origin]
  /\ dug = [c \in Conns |-> 0] /\ sent = 0

----------------------------------------------------------------------------
(* network_receive handles the frames that have come in *)

Others(c, S) == SetToSeq(S \ {c})
Show(d) == [kind |-> "SpawnEntity", who |-> d, pos |-> instance[d]]
Plain(k) == [kind |-> k, who |-> 0, pos |-> 0]
Staged(c, s) == [client EXCEPT ![c] = [client[c] EXCEPT !.stage = s]]

Hello(c) ==
  /\ client[c].stage = "new"
  /\ rt' = [rt EXCEPT ![c] = "Login"]
  /\ instance' = [d \in DOMAIN instance \cup {c} |-> IF d = c THEN Origin ELSE instance[d]]
  /\ unsynced' = unsynced \cup {c}
  /\ client' = Staged(c, "login")
  /\ UNCHANGED <<urgent, normal, packets, messages, reported, dug, sent>>

\* LoginAcknowledged and ClientInformation.
Configure(c) ==
  /\ rt[c] = "Login"
  /\ rt' = [rt EXCEPT ![c] = "Configuration"]
  /\ urgent' = [urgent EXCEPT ![c] = Append(@, Plain("FinishConfiguration"))]
  /\ UNCHANGED <<instance, unsynced, normal, packets, messages, outside>>

\* Mutant: Login goes out with the bulk.
FinishConfigurationNormal(c) ==
  /\ client[c].stage = "configured" /\ rt[c] = "Configuration"
  /\ rt' = [rt EXCEPT ![c] = "Play"]
  /\ normal' = [normal EXCEPT ![c] = Append(@, Plain("Login"))]
  /\ enters' = Append(enters, c)
  /\ UNCHANGED <<instance, unsynced, urgent, packets, quits, raws, moves, actions, outside>>

FinishConfiguration(c) ==
  /\ client[c].stage = "configured" /\ rt[c] = "Configuration"
  /\ rt' = [rt EXCEPT ![c] = "Play"]
  /\ urgent' = [urgent EXCEPT ![c] = Append(@, Plain("Login"))]
  /\ enters' = Append(enters, c)
  /\ UNCHANGED <<instance, unsynced, normal, packets, quits, raws, moves, actions, outside>>

InPlay(c) ==
  /\ client[c].stage = "play" /\ rt[c] = "Play"
  /\ sent < MaxPackets /\ sent' = sent + 1

PlayerPosition(c, p) ==
  /\ InPlay(c)
  /\ raws' = Append(raws, <<c, p>>)
  /\ reported' = [reported EXCEPT ![c] = p]
  /\ UNCHANGED <<server, enters, quits, moves, actions, client, dug>>

\* PlayerAction (a dig) and PlayerBlockPlacement.
Act(c, kind) ==
  /\ InPlay(c)
  /\ packets' = Append(packets, <<c, kind>>)
  /\ dug' = IF kind = "dig" THEN [dug EXCEPT ![c] = @ + 1] ELSE dug
  /\ UNCHANGED <<rt, instance, unsynced, urgent, normal, messages, client, reported>>

\* Mutant: the queues of a closed connection stay.
ClosedKeepsQueues(c) ==
  /\ rt[c] # "none"
  /\ instance' = [d \in DOMAIN instance \ {c} |-> instance[d]]
  /\ unsynced' = unsynced \ {c}
  /\ quits' = Append(quits, c)
  /\ rt' = [rt EXCEPT ![c] = "none"]
  /\ client' = Staged(c, "closed")
  /\ UNCHANGED <<urgent, normal, packets, enters, raws, moves, actions, reported, dug, sent>>

Closed(c) ==
  /\ rt[c] # "none"
  /\ instance' = [d \in DOMAIN instance \ {c} |-> instance[d]]
  /\ unsynced' = unsynced \ {c}
  /\ quits' = Append(quits, c)
  /\ rt' = [rt EXCEPT ![c] = "none"]
  /\ urgent' = [urgent EXCEPT ![c] = <<>>] /\ normal' = [normal EXCEPT ![c] = <<>>]
  /\ client' = Staged(c, "closed")
  /\ UNCHANGED <<packets, enters, raws, moves, actions, reported, dug, sent>>

NetworkReceive ==
  /\ Runs("network_receive")
  /\ UNCHANGED <<pc, dispatched>>
  /\ \E c \in Conns :
       \/ Hello(c)
       \/ Configure(c)
       \/ FinishConfiguration(c)
       \/ \E p \in Positions : PlayerPosition(c, p)
       \/ \E k \in {"dig", "place"} : Act(c, k)
       \/ Closed(c)

ReceiveEnds ==
  /\ Runs("network_receive") /\ Advance
  /\ UNCHANGED <<server, messages, dispatched, outside>>

----------------------------------------------------------------------------
(* The systems that follow *)

\* Actions of players that have left meanwhile are dropped.
Pass(as, p) == IF p[1] \in Bound THEN Append(as, p) ELSE as

\* Mutant: the inbox is read, not taken.
PacketActionKeeps ==
  /\ Runs("packet_action_system") /\ Advance
  /\ actions' = FoldLeft(Pass, actions, packets)
  /\ UNCHANGED <<server, enters, quits, raws, moves, dispatched, outside>>

PacketAction ==
  /\ Runs("packet_action_system") /\ Advance
  /\ actions' = FoldLeft(Pass, actions, packets)
  /\ packets' = <<>>
  /\ UNCHANGED <<rt, instance, unsynced, urgent, normal, enters, quits, raws,
                 moves, dispatched, outside>>

Digs(q, c) == Cardinality({i \in DOMAIN q : q[i] = <<c, "dig">>})

\* It looks for players in the main world, where there are none: a dig is
\* passed on unchecked, whatever its reach and chunk, and every placement is
\* rejected as none is near enough to a player.
BlockInteractionValidator ==
  /\ Runs("block_interaction_validator") /\ Advance
  /\ dispatched' = [c \in Conns |-> dispatched[c] + Digs(actions, c)]
  /\ UNCHANGED <<server, messages, outside>>

\* A batch of the chunks around each player that has entered.
SendBatch(q, c) ==
  IF c \notin DOMAIN instance THEN q
  ELSE [q EXCEPT ![c] = @ \o <<Plain("ChunkBatchStart"), Plain("MapChunk"),
                               Plain("ChunkBatchFinished")>>]

ChunkSend ==
  /\ Runs("chunk_send") /\ Advance
  /\ urgent' = FoldLeft(SendBatch, urgent, enters)
  /\ UNCHANGED <<rt, instance, unsynced, normal, packets, messages, dispatched, outside>>

\* Mutant: only those that were in play before this tick count.
EnterSyncSettled(q, c) ==
  LET old == Playing \ ToSet(enters) IN
  IF c \notin DOMAIN instance THEN q
  ELSE [d \in Conns |->
    IF d = c THEN q[c] \o [i \in DOMAIN Others(c, old) |-> Show(Others(c, old)[i])]
    ELSE IF d \in old THEN Append(q[d], Show(c)) ELSE q[d]]

\* Mutant: also players that are still being configured are told.
EnterSyncAll(q, c) ==
  IF c \notin DOMAIN instance THEN q
  ELSE [d \in Conns |->
    IF d = c
    THEN q[c] \o [i \in DOMAIN Others(c, Bound) |-> Show(Others(c, Bound)[i])]
    ELSE IF d \in Bound THEN Append(q[d], Show(c)) ELSE q[d]]

\* The players there are shown to the one that enters, which is shown to those
\* in play.
EnterSync(q, c) ==
  IF c \notin DOMAIN instance THEN q
  ELSE [d \in Conns |->
    IF d = c
    THEN q[c] \o [i \in DOMAIN Others(c, Bound) |-> Show(Others(c, Bound)[i])]
    ELSE IF d \in Playing THEN Append(q[d], Show(c)) ELSE q[d]]

\* The player that has left is looked up like one that is there.
QuitSync(q, c) ==
  IF c \notin DOMAIN instance THEN q
  ELSE [d \in Conns |->
    IF d \in Playing \ {c} THEN Append(q[d], [Plain("PlayerRemove") EXCEPT !.who = c])
    ELSE q[d]]

\* One movement per player, from where it was to where it last came.
MoveSync(q, c) ==
  LET of == {i \in DOMAIN moves : moves[i].who = c}
  IN  IF of = {} \/ c \notin Bound THEN q
      ELSE [d \in Conns |->
        IF d \in Playing \ {c}
        THEN Append(q[d], [kind |-> "RelEntityMove", who |-> c,
                           pos |-> moves[Max(of)].to - moves[Min(of)].from])
        ELSE q[d]]

EntitySync ==
  /\ Runs("entity_sync") /\ Advance
  /\ urgent' = FoldLeft(QuitSync, FoldLeft(EnterSync, urgent, enters), quits)
  /\ normal' = FoldLeft(MoveSync, normal, SetToSeq(Conns))
  /\ UNCHANGED <<rt, instance, unsynced, packets, messages, dispatched, outside>>

\* Of any player with a connection, whatever the state of that connection.
InventorySync ==
  /\ Runs("inventory_sync") /\ Advance
  /\ normal' = [c \in Conns |->
       IF c \in unsynced THEN Append(normal[c], Plain("WindowItems")) ELSE normal[c]]
  /\ unsynced' = {}
  /\ UNCHANGED <<rt, instance, urgent, packets, messages, dispatched, outside>>

\* Mutant: the first position of a tick counts.
ApplyFirst(s, r) ==
  IF r[1] \notin Bound \/ \E i \in DOMAIN s.moves : s.moves[i].who = r[1] THEN s
  ELSE [at |-> [s.at EXCEPT ![r[1]] = r[2]],
        moves |-> IF s.at[r[1]] = r[2] THEN s.moves
                  ELSE Append(s.moves, [who |-> r[1], from |-> s.at[r[1]], to |-> r[2]])]

Apply(s, r) ==
  IF r[1] \notin Bound THEN s
  ELSE [at |-> [s.at EXCEPT ![r[1]] = r[2]],
        moves |-> IF s.at[r[1]] = r[2] THEN s.moves
                  ELSE Append(s.moves, [who |-> r[1], from |-> s.at[r[1]], to |-> r[2]])]

PlayerInput ==
  /\ Runs("player_input") /\ Advance
  /\ LET s == FoldLeft(Apply, [at |-> instance, moves |-> moves], raws)
     IN  instance' = s.at /\ moves' = s.moves
  /\ UNCHANGED <<rt, unsynced, urgent, normal, packets, enters, quits, raws,
                 actions, dispatched, outside>>

----------------------------------------------------------------------------
(* network_send: the client gets what was queued, the urgent packets first; *)
(* then the tick ends and its messages with it                              *)

PlayKinds == {"WindowItems", "SpawnEntity", "PlayerRemove", "RelEntityMove",
              "ChunkBatchStart", "MapChunk", "ChunkBatchFinished"}

Get(m, p) ==
  LET k == p.kind
      e == IF k \in PlayKinds /\ m.stage # "play" THEN [m EXCEPT !.early = @ \cup {k}] ELSE m
      seen(x) == [e.shown EXCEPT ![p.who] = x]
  IN  CASE k = "FinishConfiguration" -> [m EXCEPT !.stage = "configured"]
        [] k = "Login"              -> [m EXCEPT !.stage = "play"]
        [] k = "SpawnEntity"        -> [e EXCEPT !.shown = seen(p.pos)]
        [] k = "PlayerRemove"       -> [e EXCEPT !.shown = seen(Unseen)]
        [] k = "RelEntityMove" /\ e.shown[p.who] # Unseen
                                    -> [e EXCEPT !.shown = seen(e.shown[p.who] + p.pos)]
        [] k = "ChunkBatchFinished" -> [e EXCEPT !.batches = @ + 1]
        [] OTHER                    -> e

NetworkSend ==
  /\ Runs("network_send") /\ Advance
  /\ client' = [c \in Conns |-> FoldLeft(Get, client[c], urgent[c] \o normal[c])]
  /\ urgent' = [c \in Conns |-> <<>>] /\ normal' = [c \in Conns |-> <<>>]
  /\ enters' = <<>> /\ quits' = <<>> /\ raws' = <<>> /\ moves' = <<>> /\ actions' = <<>>
  /\ UNCHANGED <<rt, instance, unsynced, packets, dispatched, reported, dug, sent>>

----------------------------------------------------------------------------
(* tick_all: gravity in the instance                                       *)

\* Where a player without support comes in one tick.
Fall(p) == IF p \in Ground THEN p ELSE p - 1

\* Physics is done in the chunks with a player that has no block one below;
\* whom that takes in depends on who else is in the chunk.
TickAll ==
  /\ InstancesRun /\ pc' = 1
  /\ \E falling \in SUBSET Bound :
       /\ {c \in Bound : instance[c] \notin Propped} \subseteq falling
       /\ instance' = [c \in Bound |->
                         IF c \in falling THEN Fall(instance[c]) ELSE instance[c]]
  /\ UNCHANGED <<rt, unsynced, urgent, normal, packets, messages, dispatched, outside>>

System ==
  \/ ReceiveEnds \/ PacketAction \/ BlockInteractionValidator \/ ChunkSend
  \/ EntitySync \/ InventorySync \/ PlayerInput \/ NetworkSend

TNext == NetworkReceive \/ System \/ TickAll
TSpec == TInit /\ [][TNext]_tvars

----------------------------------------------------------------------------
(* Properties *)

\* Those that entered play in an earlier tick.
Settled == Playing \ ToSet(enters)

TTypeOK ==
  /\ pc \in 1 .. Len(Order) + 1
  /\ rt \in [Conns -> {"none", "Login", "Configuration", "Play"}]
  /\ DOMAIN instance = Bound /\ \A c \in Bound : instance[c] \in Int
  /\ unsynced \subseteq Bound
  /\ \A c \in Conns \ Bound : urgent[c] = <<>> /\ normal[c] = <<>>
  /\ enters \in Seq(Conns) /\ quits \in Seq(Conns)
  /\ reported \in [Conns -> Positions]

\* Between two ticks any two players in play are shown to each other, in
\* whatever order, tick and company they entered (entity_sync).
MutualVisibility ==
  pc = 1 => \A a, b \in Settled : a # b => client[a].shown[b] # Unseen

\* A player that enters gets the world once: one batch of chunks, and nobody else
\* one (chunk_send); neither chunks nor other players before Login(play), by
\* which its client knows the world they are in (network_receive.rs:576).
WorldAfterLogin ==
  /\ \A c \in Conns : client[c].early \subseteq {"WindowItems"}
  /\ pc = 1 => \A c \in Conns :
       client[c].batches \in IF c \in Settled THEN {1}
                             ELSE IF c \in Bound THEN {0} ELSE {0, 1}

\* When the systems have run, a player that reported in the tick is where its
\* client last said, however many movements came and whoever left in it
\* (player_input).  From then on it is there or has fallen, but through no ground
\* that was below it (physics).
PositionsApplied ==
  \A c \in Bound : LET moved == \E i \in DOMAIN raws : raws[i][1] = c IN
    /\ Runs("network_send") /\ moved => instance[c] = reported[c]
    /\ ~moved => /\ instance[c] <= reported[c]
                 /\ \A g \in Ground : g <= reported[c] => g <= instance[c]

\* Every dig of a player that stays is passed on to the EventBus once, in reach or
\* not (packet_action, block_interaction_validator).  The validator's docs
\* (block_interaction_validator.rs:5-13, 42-45) have it drop digs that are out of
\* reach or in a chunk that is not loaded; looking in the main world it finds no
\* player and drops none.
DigsPassedOn ==
  pc = 1 => \A c \in Conns :
    /\ dispatched[c] <= dug[c]
    /\ c \in Bound => dispatched[c] + Digs(packets, c) = dug[c]

\* After a tick a client in play is shown no player that has left, and those
\* that did not move in the tick where they are (entity_sync.rs:5-9).
OthersShown ==
  Runs("network_send") =>
    \A a \in Playing : LET m == FoldLeft(Get, client[a], urgent[a] \o normal[a]) IN
      \A d \in Conns \ {a} : m.shown[d] # Unseen =>
        /\ d \in Bound
        /\ d \notin {moves[i].who : i \in DOMAIN moves} => m.shown[d] = instance[d]
=============================================================================
