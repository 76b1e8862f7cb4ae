------------------------------ MODULE Network -------------------------------
(***************************************************************************)
(* The game side of the network (core/system/network_receive.rs with       *)
(* resource/connection_manager.rs, network/client.rs and                   *)
(* system/network_send.rs) composed with the Listener and with clients.    *)
(* A tick handles the reported frames one by one until the inbound channel *)
(* is empty; the systems that follow run; one of them, tick_begin, throws  *)
(* away what was reported in the meantime; and the tick ends by flushing   *)
(* what the handlers queued, under the lock of the outbound map.  A client *)
(* (external) follows the protocol: it waits for the reply it needs before *)
(* it goes on, and it may leave at any moment.  The player entity of       *)
(* connection c is named c.  The frames are those of the code one by one,  *)
(* up to the chunks around a player that enters play; what comes behind    *)
(* them (the other players, who move, chat) is left out.                   *)
(***************************************************************************)
EXTENDS Listener

CONSTANTS
  Intents,    \* Intents[c]: what the client of c may open its connection with
  Enforce,    \* enforce_proxy: only what the proxy has signed is let in
  Compress,   \* the compression threshold is positive (256 by default)
  Eager,      \* clients that answer LoginSuccess without waiting for LoginCompression
  Registries, \* registries that are not empty: one RegistryData packet each
  SpawnChunks,\* most chunks loaded around a player that enters: 9 at the most
  MaxMoves    \* bound: movements a client sends

ASSUME IntentsAssumption == Intents \in [Conns -> SUBSET (StatusIntents \cup LoginIntents)]
ASSUME FlagsAssumption == Enforce \in BOOLEAN /\ Compress \in BOOLEAN
ASSUME BurstAssumption == Registries \in Nat /\ SpawnChunks \in Nat
ASSUME MovesAssumption == MaxMoves \in Nat

VARIABLES
  phase,      \* where the tick is: "receive", "systems" or "send"
  gstate,     \* gstate[c]: state of the connection in ConnectionManager, or "none"
  bound,      \* connections whose runtime has an entity
  clients,    \* connections with a ClientNetwork
  deflate,    \* those whose outgoing frames are compressed
  urgent,     \* urgent[c]: frames queued for c in this tick
  players,    \* live player entities
  full_sync,  \* those whose inventory inventory_sync has still to send
  joined,     \* PlayerJoin events written
  quit,       \* quit[c]: PlayerQuit events written for the player of c
  entered,    \* entered[c]: EnterPlayEvents written for c
  swept,      \* <<type, c>>: tick_begin has thrown away such a frame of c
  step,       \* step[c]: where the client of c is in the protocol
  cz,         \* clients that have read LoginCompression
  moves       \* moves[c]: movements sent

gvars == <<phase, gstate, bound, clients, deflate, urgent, players, full_sync,
           joined, quit, entered, swept>>
evars == <<step, cz, moves>>
nvars == <<lvars, gvars, evars>>

NInit ==
  /\ LInit
  /\ phase = "receive"
  /\ gstate = [c \in Conns |-> "none"]
  /\ bound = {} /\ clients = {} /\ deflate = {}
  /\ urgent = [c \in Conns |-> <<>>]
  /\ players = {} /\ full_sync = {} /\ joined = {}
  /\ quit = [c \in Conns |-> 0]
  /\ entered = [c \in Conns |-> 0]
  /\ swept = {}
  /\ step = [c \in Conns |-> "connect"]
  /\ cz = {}
  /\ moves = [c \in Conns |-> 0]

----------------------------------------------------------------------------
(* Receiving *)

\* dispatch: the packets known in each state.
Known ==
  [Handshake     |-> StatusIntents \cup LoginIntents,
   Status        |-> {"StatusRequest", "Ping"},
   Login         |-> {"Hello", "Ack"},
   Configuration |-> {"ClientInformation", "Ack"},
   Play          |-> {"Move"}]

\* The oldest frame of the inbound channel is a packet of c.
Receive(c, s, k) ==
  /\ phase = "receive"
  /\ inbound # <<>> /\ Head(inbound) = Packet(c, s, k)
  /\ inbound' = Tail(inbound)
  /\ clients' = clients \cup {c}
  /\ UNCHANGED <<up, down, peer, fin, reader, writer, conn_states, inflate,
                 outbound, phase, swept, evars>>

Enqueue(c, frames) == urgent' = [urgent EXCEPT ![c] = @ \o frames]

Undispatched(c, s, k) ==
  /\ k \notin Known[s]
  /\ Receive(c, s, k)
  /\ UNCHANGED <<out, gstate, bound, deflate, urgent, players, full_sync, joined, quit,
                 entered>>

HandleIntention(c, k) ==
  /\ k \in Known["Handshake"]
  /\ Receive(c, "Handshake", k)
  /\ IF Enforce /\ k \in {"DirectStatus", "DirectLogin"}
     THEN /\ Enqueue(c, <<"LoginDisconnect">>)
          /\ gstate' = [gstate EXCEPT ![c] = "none"]
          /\ bound' = bound \ {c}
     ELSE /\ gstate' = [gstate EXCEPT ![c] = "Handshake"]
          /\ UNCHANGED <<bound, urgent>>
  /\ UNCHANGED <<out, deflate, players, full_sync, joined, quit, entered>>

HandleStatus(c, k) ==
  /\ Receive(c, "Status", k)
  /\ \/ k = "StatusRequest" /\ Enqueue(c, <<"StatusResponse">>)
     \/ k = "Ping" /\ Enqueue(c, <<"PingResponse">>)
  /\ UNCHANGED <<out, gstate, bound, deflate, players, full_sync, joined, quit, entered>>

\* Hello of a connection that was refused.
HelloIgnored(c) ==
  /\ gstate[c] = "none"
  /\ Receive(c, "Login", "Hello")
  /\ UNCHANGED <<out, gstate, bound, deflate, urgent, players, full_sync, joined, quit,
                 entered>>

\* Mutant: LoginCompression goes before LoginSuccess, as in later protocols.
HandleHelloSwapped(c) ==
  /\ gstate[c] # "none"
  /\ Receive(c, "Login", "Hello")
  /\ players' = players \cup {c}
  /\ full_sync' = full_sync \cup {c}
  /\ bound' = bound \cup {c}
  /\ gstate' = [gstate EXCEPT ![c] = "Login"]
  /\ joined' = joined \cup {c}
  /\ out' = [out EXCEPT ![c] =
        TrySend(c, TrySend(c, TrySend(c, @, EnableCompression),
                           Frame("LoginCompression", FALSE)),
                Frame("LoginSuccess", FALSE))]
  /\ deflate' = deflate \cup {c}
  /\ UNCHANGED <<urgent, quit, entered>>

\* Mutant: the order to inflate comes last.
HandleHelloLateInflate(c) ==
  /\ gstate[c] # "none"
  /\ Receive(c, "Login", "Hello")
  /\ players' = players \cup {c}
  /\ full_sync' = full_sync \cup {c}
  /\ bound' = bound \cup {c}
  /\ gstate' = [gstate EXCEPT ![c] = "Login"]
  /\ joined' = joined \cup {c}
  /\ out' = [out EXCEPT ![c] =
        TrySend(c, TrySend(c, TrySend(c, @, Frame("LoginSuccess", FALSE)),
                           Frame("LoginCompression", FALSE)),
                EnableCompression)]
  /\ deflate' = deflate \cup {c}
  /\ UNCHANGED <<urgent, quit, entered>>

\* Mutant: the login phase is skipped.
HandleHelloSkips(c) ==
  /\ gstate[c] # "none"
  /\ Receive(c, "Login", "Hello")
  /\ players' = players \cup {c}
  /\ full_sync' = full_sync \cup {c}
  /\ bound' = bound \cup {c}
  /\ gstate' = [gstate EXCEPT ![c] = "Configuration"]
  /\ joined' = joined \cup {c}
  /\ Enqueue(c, <<"LoginSuccess">>)
  /\ UNCHANGED <<out, deflate, quit, entered>>

\* With compression, LoginSuccess and LoginCompression go straight to the
\* outbound channel in the plain format, behind the order to read what comes
\* in as compressed; all that follows is compressed.
HandleHello(c) ==
  /\ gstate[c] # "none"
  /\ Receive(c, "Login", "Hello")
  /\ players' = players \cup {c}
  /\ full_sync' = full_sync \cup {c}
  /\ bound' = bound \cup {c}
  /\ gstate' = [gstate EXCEPT ![c] = "Login"]
  /\ joined' = joined \cup {c}
  /\ IF Compress
     THEN /\ out' = [out EXCEPT ![c] =
               TrySend(c, TrySend(c, TrySend(c, @, EnableCompression),
                                  Frame("LoginSuccess", FALSE)),
                       Frame("LoginCompression", FALSE))]
          /\ deflate' = deflate \cup {c}
          /\ UNCHANGED urgent
     ELSE /\ Enqueue(c, <<"LoginSuccess">>)
          /\ UNCHANGED <<out, deflate>>
  /\ UNCHANGED <<quit, entered>>

HandleLoginAcknowledged(c) ==
  /\ Receive(c, "Login", "Ack")
  /\ gstate' = [gstate EXCEPT ![c] = IF @ = "none" THEN @ ELSE "Configuration"]
  /\ UNCHANGED <<out, bound, deflate, urgent, players, full_sync, joined, quit, entered>>

ConfigurationFrames ==
  [i \in 1 .. Registries |-> "RegistryData"]
    \o <<"UpdateTags", "FeatureFlags", "FinishConfiguration">>

HandleClientInformation(c) ==
  /\ Receive(c, "Configuration", "ClientInformation")
  /\ Enqueue(c, ConfigurationFrames)
  /\ UNCHANGED <<out, gstate, bound, deflate, players, full_sync, joined, quit, entered>>

EntryFrames == <<"Login", "Position", "UpdateHealth", "PlayerInfo">>

HandleFinishConfiguration(c) ==
  /\ Receive(c, "Configuration", "Ack")
  /\ gstate' = [gstate EXCEPT ![c] = IF @ = "none" THEN @ ELSE "Play"]
  /\ IF c \in bound
     THEN /\ Enqueue(c, EntryFrames)
          /\ entered' = [entered EXCEPT ![c] = @ + 1]
     ELSE UNCHANGED <<urgent, entered>>
  /\ UNCHANGED <<out, bound, deflate, players, full_sync, joined, quit>>

\* A movement becomes an event of this tick, read by player_input.
HandlePlayerPosition(c) ==
  /\ Receive(c, "Play", "Move")
  /\ UNCHANGED <<out, gstate, bound, deflate, urgent, players, full_sync, joined, quit,
                 entered>>

\* Mutant: the player is left in its world.
HandleClosedLeavesPlayer(c) ==
  /\ phase = "receive"
  /\ inbound # <<>> /\ Head(inbound) = Closed(c)
  /\ inbound' = Tail(inbound)
  /\ quit' = [quit EXCEPT ![c] = IF c \in bound THEN @ + 1 ELSE @]
  /\ gstate' = [gstate EXCEPT ![c] = "none"]
  /\ bound' = bound \ {c}
  /\ clients' = clients \ {c}
  /\ deflate' = deflate \ {c}
  /\ urgent' = [urgent EXCEPT ![c] = <<>>]
  /\ UNCHANGED <<up, down, peer, fin, reader, writer, conn_states, inflate,
                 outbound, out, phase, players, full_sync, joined, entered, swept, evars>>

\* Mutant: the send state is kept.
HandleClosedKeepsClient(c) ==
  /\ phase = "receive"
  /\ inbound # <<>> /\ Head(inbound) = Closed(c)
  /\ inbound' = Tail(inbound)
  /\ players' = players \ {c}
  /\ full_sync' = full_sync \ {c}
  /\ quit' = [quit EXCEPT ![c] = IF c \in bound THEN @ + 1 ELSE @]
  /\ gstate' = [gstate EXCEPT ![c] = "none"]
  /\ bound' = bound \ {c}
  /\ UNCHANGED <<up, down, peer, fin, reader, writer, conn_states, inflate,
                 outbound, out, phase, clients, deflate, urgent, joined,
                 entered, swept, evars>>

\* Mutant: the event is written for every connection.
HandleClosedAlwaysQuits(c) ==
  /\ phase = "receive"
  /\ inbound # <<>> /\ Head(inbound) = Closed(c)
  /\ inbound' = Tail(inbound)
  /\ players' = players \ {c}
  /\ full_sync' = full_sync \ {c}
  /\ quit' = [quit EXCEPT ![c] = @ + 1]
  /\ gstate' = [gstate EXCEPT ![c] = "none"]
  /\ bound' = bound \ {c}
  /\ clients' = clients \ {c}
  /\ deflate' = deflate \ {c}
  /\ urgent' = [urgent EXCEPT ![c] = <<>>]
  /\ UNCHANGED <<up, down, peer, fin, reader, writer, conn_states, inflate,
                 outbound, out, phase, joined, entered, swept, evars>>

\* The player of a closed connection leaves its world, and everything the game
\* keeps for the connection goes.
HandleClosed(c) ==
  /\ phase = "receive"
  /\ inbound # <<>> /\ Head(inbound) = Closed(c)
  /\ inbound' = Tail(inbound)
  /\ players' = players \ (bound \cap {c})
  /\ full_sync' = full_sync \ (bound \cap {c})
  /\ quit' = [quit EXCEPT ![c] = IF c \in bound THEN @ + 1 ELSE @]
  /\ gstate' = [gstate EXCEPT ![c] = "none"]
  /\ bound' = bound \ {c}
  /\ clients' = clients \ {c}
  /\ deflate' = deflate \ {c}
  /\ urgent' = [urgent EXCEPT ![c] = <<>>]
  /\ UNCHANGED <<up, down, peer, fin, reader, writer, conn_states, inflate,
                 outbound, out, phase, joined, entered, swept, evars>>

\* chunk_send reads the EnterPlayEvents of the tick: the Login packet of the same
\* handler is then still queued, unless the connection was closed.
EntersPlay(c) == \E i \in DOMAIN urgent[c] : urgent[c][i] = "Login"

\* What it sends when n of the chunks around the player are loaded.
ChunkBatch(n) ==
  <<"ChunkBatchStart">> \o [i \in 1 .. n |-> "MapChunk"] \o <<"ChunkBatchFinished">>

\* What inventory_sync sends to the player of c after its login, with normal
\* priority: behind everything urgent.  A new inventory is empty: there is no
\* equipment to send and no slot that changed.
Items(c) == IF c \in full_sync \cap bound THEN <<"WindowItems">> ELSE <<>>

\* Mutant: the event is read anew in every tick.
ReceiveEndsAnew ==
  /\ phase = "receive" /\ inbound = <<>>
  /\ phase' = "systems"
  /\ \E n \in 0 .. SpawnChunks :
       urgent' = [c \in Conns |->
         urgent[c] \o (IF gstate[c] = "Play" THEN ChunkBatch(n) ELSE <<>>) \o Items(c)]
  /\ full_sync' = full_sync \ bound
  /\ UNCHANGED <<lvars, gstate, bound, clients, deflate, players, joined, quit,
                 entered, swept, evars>>

\* The inbound channel is empty: the systems that come after network_receive
\* run, while the read tasks go on reporting.  Of these, chunk_send and
\* inventory_sync send frames to connections that log in; what entity_sync and
\* the others send goes to connections in play, behind these.
ReceiveEnds ==
  /\ phase = "receive" /\ inbound = <<>>
  /\ phase' = "systems"
  /\ \E n \in 0 .. SpawnChunks :
       urgent' = [c \in Conns |->
         urgent[c] \o (IF EntersPlay(c) THEN ChunkBatch(n) ELSE <<>>) \o Items(c)]
  /\ full_sync' = full_sync \ bound
  /\ UNCHANGED <<lvars, gstate, bound, clients, deflate, players, joined, quit,
                 entered, swept, evars>>

\* network_send holds the lock while there are frames to flush.
SendPhase(queued) == IF \A c \in Conns : queued[c] = <<>> THEN "receive" ELSE "send"

\* tick_begin, which plugin.rs places behind network_receive and entity_sync,
\* empties the inbound channel; swept remembers what it threw away.
TickBeginDiscard ==
  /\ phase = "systems" /\ inbound # <<>>
  /\ inbound' = Tail(inbound)
  /\ swept' = swept \cup {<<Head(inbound).type, Head(inbound).conn>>}
  /\ UNCHANGED <<up, down, peer, fin, reader, writer, conn_states, inflate,
                 outbound, out, phase, gstate, bound, clients, deflate, urgent,
                 players, full_sync, joined, quit, entered, evars>>

TickBegin ==
  /\ phase = "systems" /\ inbound = <<>>
  /\ phase' = SendPhase(urgent)
  /\ UNCHANGED <<lvars, gstate, bound, clients, deflate, urgent, players, full_sync,
                 joined, quit, entered, swept, evars>>

----------------------------------------------------------------------------
(* Sending *)

\* A frame takes the format of its connection when it is flushed.
FlushFrame(c) ==
  /\ phase = "send"
  /\ urgent[c] # <<>>
  /\ out' = [out EXCEPT ![c] = TrySend(c, @, Frame(Head(urgent[c]), c \in deflate))]
  /\ urgent' = [urgent EXCEPT ![c] = Tail(@)]
  /\ phase' = SendPhase(urgent')
  /\ UNCHANGED <<up, down, peer, fin, reader, writer, conn_states, inflate,
                 inbound, outbound, gstate, bound, clients, deflate,
                 players, full_sync, joined, quit, entered, swept, evars>>

GameStep ==
  \/ phase = "receive" /\ \E c \in Conns, s \in States, k \in ClientKinds : Undispatched(c, s, k)
  \/ \E c \in Conns, k \in ClientKinds : HandleIntention(c, k) \/ HandleStatus(c, k)
  \/ \E c \in Conns :
       \/ HelloIgnored(c) \/ HandleHello(c) \/ HandleLoginAcknowledged(c)
       \/ HandleClientInformation(c) \/ HandleFinishConfiguration(c)
       \/ HandlePlayerPosition(c) \/ HandleClosed(c) \/ FlushFrame(c)
  \/ ReceiveEnds \/ TickBeginDiscard \/ TickBegin

----------------------------------------------------------------------------
(* Clients *)

ClientSame == UNCHANGED <<fin, reader, writer, conn_states, inflate, inbound,
                          outbound, out, gvars>>

Connect(c) ==
  /\ step[c] = "connect"
  /\ peer' = [peer EXCEPT ![c] = "open"]
  /\ step' = [step EXCEPT ![c] = "intend"]
  /\ UNCHANGED <<up, down, cz, moves>> /\ ClientSame

\* The client sends k, in the format in force for it, and goes on to `to'.
Send(c, from, k, to) ==
  /\ step[c] = from /\ peer[c] = "open"
  /\ up' = [up EXCEPT ![c] = Append(@, Frame(k, c \in cz))]
  /\ step' = [step EXCEPT ![c] = to]
  /\ UNCHANGED <<peer, down, cz>> /\ ClientSame

SendStatus(c) ==
  /\ \/ \E k \in Intents[c] \cap StatusIntents : Send(c, "intend", k, "request")
     \/ Send(c, "request", "StatusRequest", "await status")
     \/ Send(c, "ping", "Ping", "await ping")
  /\ UNCHANGED moves

SendLogin(c) ==
  /\ \/ \E k \in Intents[c] \cap LoginIntents : Send(c, "intend", k, "hello")
     \/ Send(c, "hello", "Hello", "await success")
     \/ /\ Compress /\ c \notin Eager => c \in cz
        /\ Send(c, "acknowledge", "Ack", "inform")
     \/ Send(c, "inform", "ClientInformation", "configure")
     \/ Send(c, "finish", "Ack", "join")
  /\ UNCHANGED moves

SendMove(c) ==
  /\ moves[c] < MaxMoves
  /\ Send(c, "play", "Move", "play")
  /\ moves' = [moves EXCEPT ![c] = @ + 1]

\* What the client does on reading frame kind k.
OnRead(s, k) ==
  CASE s = "await success" /\ k = "LoginSuccess"    -> "acknowledge"
    [] s = "configure" /\ k = "FinishConfiguration" -> "finish"
    [] s = "join" /\ k = "Login"                    -> "play"
    [] s = "await status" /\ k = "StatusResponse"   -> "ping"
    [] s = "await ping" /\ k = "PingResponse"       -> "done"
    [] k = "LoginDisconnect"                        -> "refused"
    [] OTHER                                        -> s

Read(c) ==
  /\ peer[c] = "open" /\ down[c] # <<>>
  /\ down' = [down EXCEPT ![c] = Tail(@)]
  /\ step' = [step EXCEPT ![c] = OnRead(@, Head(down[c]).kind)]
  /\ cz' = IF Head(down[c]).kind = "LoginCompression" THEN cz \cup {c} ELSE cz
  /\ UNCHANGED <<up, peer, moves>> /\ ClientSame

\* The client closes its socket at any time, or it is reset: what the server
\* had not read is then lost.  The client remembers nothing.
Leave(c) ==
  /\ peer[c] = "open"
  /\ peer' = [peer EXCEPT ![c] = "closed"]
  /\ up' \in {up, [up EXCEPT ![c] = <<>>]}
  /\ down' = [down EXCEPT ![c] = <<>>]
  /\ step' = [step EXCEPT ![c] = "left"]
  /\ cz' = cz \ {c}
  /\ moves' = [moves EXCEPT ![c] = 0]
  /\ ClientSame

ClientStep(c) == SendStatus(c) \/ SendLogin(c) \/ SendMove(c) \/ Read(c)

----------------------------------------------------------------------------

\* The outbound map is locked during the flush.
ListenerStep(c) ==
  \/ /\ phase # "send"
     /\ Accept(c) \/ RemoveOutbound(c)
     /\ UNCHANGED <<gvars, evars>>
  \/ /\ \/ DropGarbled(c) \/ ProcessFrame(c) \/ ReadEnds(c) \/ SendClosed(c)
        \/ AbortWriter(c) \/ WriterStep(c)
     /\ UNCHANGED <<gvars, evars>>

NNext ==
  \/ GameStep
  \/ \E c \in Conns : ListenerStep(c) \/ ClientStep(c) \/ Connect(c) \/ Leave(c)

NSpec == NInit /\ [][NNext]_nvars

(* Fairness: the tick loop runs, the runtime polls every task that can go   *)
(* on.  A send that waits for room in the inbound channel is served in the  *)
(* order of the waiters, so it is not overtaken for ever.  The read and the *)
(* write task of a connection are separate tasks.                           *)
ServerFairness ==
  /\ WF_nvars(GameStep)
  /\ \A c \in Conns :
       /\ SF_nvars(phase # "send" /\ Accept(c) /\ UNCHANGED <<gvars, evars>>)
       /\ SF_nvars(phase # "send" /\ RemoveOutbound(c) /\ UNCHANGED <<gvars, evars>>)
       /\ SF_nvars(SendClosed(c) /\ UNCHANGED <<gvars, evars>>)
       /\ WF_nvars((DropGarbled(c) \/ ProcessFrame(c) \/ ReadEnds(c) \/ AbortWriter(c))
                     /\ UNCHANGED <<gvars, evars>>)
       /\ WF_nvars(WriterStep(c) /\ UNCHANGED <<gvars, evars>>)

FairSpec == NSpec /\ ServerFairness

\* Clients that go on with the protocol, unless they leave.
ClientFairness == \A c \in Conns : WF_nvars(Connect(c)) /\ WF_nvars(ClientStep(c))

CooperativeSpec == FairSpec /\ ClientFairness

----------------------------------------------------------------------------
(* Properties *)

NTypeOK ==
  /\ inbound \in Seq([type : {"Packet"}, conn : Conns, state : States, kind : ClientKinds]
                       \cup [type : {"Closed"}, conn : Conns])
  /\ Len(inbound) <= InCap
  /\ \A c \in Conns : Len(out[c]) <= OutCap
  /\ gstate \in [Conns -> States \cup {"none"}]
  /\ conn_states \in [Conns -> States \cup {"none"}]
  /\ bound \cup clients \cup players \cup joined \cup outbound \cup fin \subseteq Conns

\* A live player always belongs to a connection the game knows, and a
\* connection's entity is alive: closing, refusing and logging in never leave
\* a player behind nor a dangling entity (network_receive.rs:68-88, 355-362).
PlayersOwned ==
  /\ players = bound
  /\ \A c \in players : gstate[c] # "none" /\ c \in clients

\* Nothing the game keeps for a connection outlives its close, unless tick_begin
\* threw the report of the close away: no frame of it comes after the report,
\* and no handler brings it back although every packet creates the send state
\* anew (network_receive.rs:98).
NoGhost ==
  \A c \in Conns :
    /\ \A i, j \in DOMAIN inbound :
         inbound[i] = Closed(c) /\ i < j => inbound[j].conn # c
    /\ reader[c] \in {"unmapping", "aborting", "done"}
         /\ (\A i \in DOMAIN inbound : inbound[i] # Closed(c))
         /\ <<"Closed", c>> \notin swept
       => gstate[c] = "none" /\ c \notin clients \cup bound \cup players

\* PlayerJoin and PlayerQuit pair up and EnterPlay comes once, in between,
\* whenever the connection closes and whatever frames are dropped.
EventsPaired ==
  \A c \in Conns :
    /\ quit[c] = IF c \in joined \ players THEN 1 ELSE 0
    /\ players \subseteq joined
    /\ entered[c] <= IF c \in joined THEN 1 ELSE 0

Stage(s) == [none |-> 0, Handshake |-> 1, Status |-> 2, Login |-> 3,
             Configuration |-> 4, Play |-> 5][s]

\* The game's state of a connection never gets ahead of the listener's, whose
\* tags decide what a frame means, even when frames are dropped.
GameBehindListener ==
  \A c \in Conns : conn_states[c] # "none" => Stage(gstate[c]) <= Stage(conn_states[c])

\* Every frame a client reads is in the format it expects: plain up to and
\* including LoginCompression, compressed after it, although the two go
\* through different queues (network_receive.rs:374-380).
ClientReadsFormat ==
  \A c \in Conns : peer[c] = "open" /\ down[c] # <<>> => Head(down[c]).z = (c \in cz)

\* Whatever a client sends is read in the format it was sent in: the order to
\* inflate what comes in takes effect before any reply to LoginCompression
\* (network_receive.rs:379-380).
ServerReadsFormat ==
  \A c \in Conns : reader[c] = "reading" /\ up[c] # <<>> => ~Garbled(c)

\* Whatever is sent to a connection up to the chunks around its player reaches its
\* channel as long as the write task runs, every registry and chunk included,
\* although try_send drops what a full channel does not take (client.rs:20: urgent
\* packets must be sent).  The other players that entity_sync shows it in the same
\* tick, two frames each, and what goes to players in play come behind these and
\* are not in this model.
NothingLost ==
  [][\A c \in Conns : FlushFrame(c) /\ writer[c] = "running" /\ c \in outbound
       => out'[c] # out[c]]_nvars

Forgotten(c) ==
  /\ reader[c] \in {"absent", "done"} /\ writer[c] \in {"absent", "done"}
  /\ gstate[c] = "none" /\ c \notin clients \cup players \cup outbound

\* The game forgets every connection that goes away, even when the report of
\* the close has to wait for room, unless tick_begin throws the report away;
\* the two tasks of the connection end in any case.
ClosedForgotten ==
  \A c \in Conns :
    peer[c] = "closed" ~>
      \/ Forgotten(c)
      \/ <<"Closed", c>> \in swept /\ reader[c] = "done" /\ writer[c] = "done"

\* Every connection that goes away is forgotten: "the record is removed by the
\* RawFrame::Closed branch when the Closed frame of the listener arrives"
\* (network_receive.rs:229-230).
EveryCloseHandled ==
  \A c \in Conns : peer[c] = "closed" ~> Forgotten(c)

\* A client that logs in gets to play, and one that asks for the status gets
\* it, unless they leave, are refused, or tick_begin threw a frame of theirs
\* away.
Served ==
  \A c \in Conns :
    step[c] = "intend" ~>
      \/ step[c] \in {"play", "done", "refused"} \/ peer[c] = "closed"
      \/ <<"Packet", c>> \in swept
=============================================================================
