# A verification of the ParticleMC framework in TLA+

ParticleMC is a Minecraft server framework in Rust: a hand-written ECS
(`crates/particlemc-framework-ecs`), the server core on top of it
(`crates/particlemc-framework-core`: network, protocol, game systems) and a small
binary. This directory models the parts whose correctness depends on
interleavings, on the order of messages or on long sequences of operations:
TLA+ modules, TLC configurations that check them on small instances, and proofs
that TLAPS checks. Paths below are relative to `crates/`; `ecs/` and `core/`
abbreviate `particlemc-framework-ecs/src/` and `particlemc-framework-core/src/`.

    tlc -config MCNetwork.cfg MCNetwork.tla     # one run
    tlapm CommandQueueProofs.tla                # the proofs of one component

## 1. Inventory

### How the system runs

One thread runs the tick loop at 20 Hz (`particlemc-framework-server/src/lib.rs`). A
turn of the loop is `app.update()`, which runs the systems of the main world in a fixed
order (`network_receive` first, then those that synchronise clients, `tick_begin`,
`scheduler_tick` with the delayed tasks, `player_input`, ..., `network_send` last), then
`tick_all`, which ticks the instance worlds on worker threads; each of these drains its
command queue and runs its own list (`player_movement`, `entity_ai`, `physics`). The
players live in an instance world, where the systems of the main world reach them under
the scheduler's lock and its own systems move them between the ticks of the main world.
Beside it, a tokio runtime runs one accept task and, for each connection, a read task
and a write task. Other threads (console, network) may reach a world only through its
command queue.

    client <=socket=> read task  --inbound (1024, shared)-->  network_receive
                      write task <--outbound[c] (256)-------  network_send
                                                              (and Hello, directly)
    network_receive --messages of the tick, inboxes--> systems after it
    any thread --submit--> CommandQueue (ring) --> drain at the start of a world's tick
    main world --lock_world, with_world, migrate_entity--> instance worlds
    systems --TaskScheduler--> scheduler_tick

### Components

| component | state | operations | interacts with | what makes it correct |
|---|---|---|---|---|
| `MpmcQueue` (`ecs/queue.rs`) | two positions, per slot a sequence number and an unprotected cell | `push`, `pop`, `len`, drop | any threads, without locks | cells are never touched by two threads; nothing lost, duplicated or read uninitialised; FIFO in claim order |
| `CommandQueue` (`ecs/queue.rs`) | a ring of closures | `push`, `drain`, `len` | producers; the thread of a world | each command executed once, each producer's in order, every one in the end |
| listener (`core/network/listener.rs`) | per connection: tag state, inflate flag, outbound channel; the shared inbound channel | accept, read loop, write loop, cleanup | sockets, the game through the two channels | frames tagged with the state they were sent in; a close is always reported, after everything else |
| receive system, connection manager (`core/system/network_receive.rs`, `core/resource/connection_manager.rs`) | per connection: state, entity, world, identity | one handler per packet and for the close | the listener, worlds, events, client networks | no player without a connection, no connection kept after its close, events in pairs, legal state transitions |
| client networks, send system (`core/network/client.rs`, `core/system/network_send.rs`) | per connection: urgent and normal queue, compression flag, chunk credit | enqueue, broadcast, flush, clear | every system that sends; the outbound channels | frames arrive, in order, in the format the client expects |
| entities and worlds (`ecs/entity.rs`, `ecs/world.rs`, `ecs/storage/`) | generational slots and a free stack; per archetype a list of entities and columns; an index | spawn, insert, remove, despawn, get | all systems | tables agree; values stay with their entity; old handles stay invalid |
| migration (`ecs/migration.rs`) | none of its own | `migrate_entity`, `migrate_with_retry` | two worlds | an entity is in exactly one world, with its values |
| instance scheduler (`ecs/scheduler.rs`) | a map of worlds behind one lock, a command queue per world | register, unregister, `with_world`, `lock_world`, `submit`, `tick_all` | all threads | one thread in a world at a time; no deadlock; every world ticked once per round; accepted commands executed in the next tick |
| task scheduler (`core/resource/scheduler_manager.rs`, `core/system/scheduler_tick.rs`) | the tick counter, two heaps of due ticks, a table of tasks | schedule (once, repeated, end of tick), cancel, tick | systems and extensions | each task at exactly its ticks, in order, not after it was cancelled |
| command buffer (`ecs/commands.rs`) | deferred operations | record, apply | systems of a tick | applied once, in order, on the entities meant |
| schedule, systems, queries, messages (`ecs/schedule.rs`, `system.rs`, `query.rs`, `message.rs`) | ordered systems; double-buffered inboxes | run, read, write, drain | each other | every message seen once by each reader; order of systems |
| tick systems (`core/system/entity_sync.rs`, `player_input.rs`, `chunk_send.rs`, `packet_action.rs`, ...) | messages of a tick, inboxes, queues of the clients | one function per tick | events and components | what one player does reaches the others; nothing before a client is ready for it |
| inventory, item stacks (`core/component/inventory.rs`, `core/item_stack.rs`, `core/system/inventory_sync.rs`) | slots, cursor, drag, dirty slots | clicks of seven modes, close, add, consume, sync | inventory packets, the application | no item is made or lost; the client sees what there is |
| store of chunks (`core/instance/chunk_store.rs`, `loader.rs`) | loaded chunks, dirty chunks, two orders, a limit, a loader | load, unload, write, generate, save, load all, bulk edits | systems, the light engine | blocks stay as written, whatever is packed, forgotten, saved or committed; the limit holds |
| sections (`core/instance/chunk.rs`) | a palette, packed words | get, set, fill | the store | what is written is read back |
| light (`core/instance/light_engine.rs`) | light of a chunk | recompute from blocks and neighbours | the store | light of every cell is what its surroundings give it, across chunks too |
| Anvil files, generators, fluids, heightmaps (`core/instance/`) | files, functions | read, write, compute | the store | out of scope, see section 6 |
| systems of an instance world (`core/system/player_movement.rs`, `entity_ai.rs`, `physics.rs`) | positions and velocities | one function per tick of the instance | the store, the systems of the main world | a player stays where its client said, or falls onto what is below |
| collision boxes, path finding, codecs, NBT, registries, text, event bus, extensions, console | values, tables | pure functions, synchronous calls | systems | out of scope, see section 6 |

### Hard behaviours

- **Interleaving without locks**: the ring. Two claims of one position, a cell
  read while the next round writes it, a producer suspended half way that hides
  later commands (`ecs/queue.rs:112`, `:173`, `:270`).
- **Two views of one connection**: the listener advances its tag *before* the
  game sees the frame, and drops the frame if the channel is full
  (`core/network/listener.rs:298-304`). The close is reported by a call that
  waits, frames by one that does not.
- **Two paths to the client**: at `Hello` three messages go straight to the
  outbound channel while everything else waits for the end of the tick, and the
  format changes in between (`core/system/network_receive.rs:374-401`).
- **Closing at any moment**: before, between or after the steps of a login.
- **Long sequences of legal calls**: slots reused, moved by `despawn`, taken out
  of the middle of the free stack by `migrate_entity`; partial failure of a
  migration after the source has gone.
- **Locks**: one lock for all instance worlds, guards that live across calls,
  workers that a round waits for.
- **Order within a tick**: a message is seen only by the systems that come after
  the one that writes it, and is gone when the tick ends
  (`core/system/entity_sync.rs:129`, `:156`); frames that arrive while the systems
  run meet `tick_begin` (`core/system/tick_begin.rs:15`).
- **Tables that must agree**: a palette and the entries that point beyond it
  (`core/instance/chunk.rs:147`), the loaded chunks and the two orders by which they are
  forgotten (`core/instance/chunk_store.rs:149`), the light of a chunk and that of its
  neighbours (`:385`, `:556`).
- **State that outlives its reason**: places of cancelled tasks in a heap, a drag
  interrupted by another click, what a client was last told of a slot.

`PROJECT.json` lists each hazard at its line, with the properties that cover it
or the reason why none does.

## 2. Modules

| module | models | notes |
|---|---|---|
| `BoundedFifo` | what the ring promises | abstract: a line of claimed places |
| `MpmcQueue` | `MpmcQueue<T>` | one action per atomic access |
| `CommandQueue` | `CommandQueue`, `len` | composes `MpmcQueue` with producers and the draining thread |
| `CommandQueueProofs` | theorems about `MpmcQueue` and `CommandQueue` | among them that the ring implements `BoundedFifo` |
| `Listener` | tasks and channels of the listener | |
| `Network` | the game side, composed with `Listener` and with clients | clients are external |
| `NetworkProofs` | theorems about `Network` and `Listener` | in three parts: connections, the formats of frames, the room in the outbound channels |
| `EntityStore` | what the worlds promise | abstract: live entity -> component -> value |
| `Worlds` | allocator, storage, `migrate_entity` | implements `EntityStore` |
| `WorldsProofs` | theorems about `Worlds` | |
| `Inventory` | a player's inventory, its clicks and what the client is told | operations are operators, clicks are actions |
| `Folding` | what a fold computes, for any operator | no code: induction over loops |
| `InventoryProofs` | theorems about `Inventory` | an instance of `Folding` for each loop |
| `Tick` | a turn: the systems of the main world in their order, then the instance | computes the order from the registrations |
| `TickProofs` | theorems about `Tick` | an instance of `Folding` for each loop |
| `Rounds` | what `tick_all` promises | abstract: worlds ticked once per round |
| `InstanceScheduler` | `InstanceScheduler`: table, mutex, guards, workers | implements `Rounds` |
| `TaskScheduler` | delayed and repeated tasks | one step per place of a heap |
| `ServerLoop` | the main loop | composes the two schedulers |
| `ServerLoopProofs` | theorems about the schedulers and the loop | the second half is about when tasks run |
| `Section` | `Section`: palette and packed entries | operators only |
| `LightEngine` | block light and sky light of a chunk | operators; `Explained` is the reference |
| `ChunkTable` | what the store of chunks promises | abstract: chunk -> cell -> block |
| `ChunkStore` | `ChunkStore`, `MemoryChunkLoader`, `BulkEditContext` | composes `Section` and `LightEngine`, implements `ChunkTable` |
| `ChunkStoreProofs` | theorems about `ChunkStore`, `Section` and `LightEngine` | from the words of a section up to the store |
| `MC*` | small instances | |

### The ring

Each thread has a `pc` that names the access it makes next, so loads of the
position, loads of the sequence number, the compare-and-exchange, the access to
the cell and the store of the sequence number of different threads interleave
freely. `compare_exchange_weak` may fail for no reason (`PushClaimFails`,
`PopClaimFails`). The read of a value leaves `NoValue` in the cell, which stands
for `MaybeUninit`. The positions are loaded `Relaxed`, so a thread may read an
old value; the model reads the newest one and may then let the thread sleep,
which has the same effect, as the only use of the value is a comparison with a
sequence number and a compare-and-exchange, which needs the newest position to
succeed. Sequence numbers are stored `Release` and loaded `Acquire`; what the model
assumes is that a thread that sees a sequence number also sees the cell as it
was when it was stored, which is what that pair guarantees. `Relaxed` operations
on *different* locations may be reordered; the one place where it could matter
to a user is `len`, where another thread may see `dequeue_pos` newer than
`enqueue_pos`. `EmptyHidesNothing` is therefore stated of the thread that drains
only, whose own stores it always sees.

Positions do not wrap in the model. In the code they wrap after 2^64
operations; a thread would have to sleep through 2^63 of them to be misled.
The code's capacity is a power of two and at least 8; the model and the proofs
take any capacity from 2 (with 1 the sequence number of a full slot would equal
that of a free one).

### The network

`Listener` has one action per step of a task that others can observe. A frame is
a record of its kind and its format; `LoginAcknowledged` and `FinishConfiguration`
share the kind `Ack` as they share their bytes. A frame read in the wrong format
is dropped (`DropGarbled`): it does not decode, or decodes to a packet the
dispatcher does not know.

`Network` splits a tick into the phase in which `network_receive` handles one frame per
step, the phase of the systems in between, in which `tick_begin` throws away one frame
per step of those that came in meanwhile (`swept` remembers of whom), and the phase in
which `network_send` flushes one frame per step. The flushing phase is entered only
while frames are queued; a client that has left remembers nothing. While it flushes, the
outbound map is locked: `Accept` and `RemoveOutbound` wait. Connections are flushed in
the arbitrary order of the hash map. The player of connection `c` is called `c`. Frames
are counted as the code counts them, one by one: a `RegistryData` for each registry that
is not empty, then tags, features and the end of the configuration
(`ConfigurationFrames`); `Login`, `Position`, `UpdateHealth` and `PlayerInfo` when the
player enters play (`EntryFrames`). Of the systems behind the handlers two send to a
connection that is still logging in, or just has: `inventory_sync` the contents of a new
player's inventory (`full_sync`, `Items`) and `chunk_send` the start of a batch, as many
of the chunks around the player as are loaded, which is any number up to `SpawnChunks`,
and the end of it (`ChunkBatch`). What comes behind that is left out: the other players
`entity_sync` shows in the same tick (two frames each), and what goes to players in
play. `SockCap` is what the socket of a client takes before the write task has to wait.
An intention is one of four kinds, whether it asks for the status or a login, and
whether the proxy signed it; `next_state` values other than 1 and 2 are not sent.
`OutboundMessage::Close` is left out, since only the `online-auth` feature, off by
default, ever sends it.

Clients (external) follow the protocol, may leave at any moment and may be
`Eager`, answering `LoginSuccess` before they have read `LoginCompression`.

### The worlds

`world[w]` holds the tables of a world under the names of the code; `Handle`
does what `Entity::from_parts` does to a generation of more bits than the handle
has. `Placed` is the tail that `spawn` and `spawn_exact` share, `Despawned` the
whole of `despawn`. The values that `migrate_entity` collects come out of a hash
map; when one of them has no column in the target, any subset of the others may
have been written before it stops. A component without a column, an aligned one
before its first insert, counts as having the default: that is what it has
once the column exists. Migration between archetypes does not exist in the
code. `len` of the arena and the alive count are left out.

### The tick

`Tick` takes over where `Network` leaves a frame: `rt[c]` is the connection's runtime,
`instance` the players in the default instance world, with the position of each,
`enters`, `quits`, `raws`, `moves`, `actions` the messages of the tick, `packets` the
inbox that is not cleared with them. `Systems` and `After` are the registrations of
`plugin.rs`, and `RunOrder` computes from them what `topo_groups` does, so the order of
the systems is a result and not an assumption: `OrderAssumption` spells it out for the
proofs, which could not compute it, and TLC evaluates it in both runs of `Tick`. The
systems that touch none of this state are in the order and do nothing. A client
(external) takes in what `network_send` flushes, urgent packets first, and keeps what it
shows of each other player. Several players may enter and leave in one tick; hash maps
are walked in an order the modelled results do not depend on.

Behind `network_send` the turn goes on with the instance (`TickAll`, at the `pc` behind
the last system). `player_movement` would move players by their velocity, but the step
it multiplies with is a `Res<f64>` that nobody sets in an instance world, so it moves
nobody and leaves every velocity at 0 (its docs, `core/system/player_movement.rs:5-9`,
have it take the step from `Res<TickDelta>`, kept up by `scheduler_tick`; there is no
such resource). `entity_ai` leaves players alone. `physics` then moves players in one
direction only, down, by one step of `GRAVITY` in a tick. A position is therefore the
height of a player, an integer in those steps; heights between the steps are left out.
`Propped` are the heights with a block one below, `Ground` those at which the box of the
player stands on one; blocks do not change. `physics` skips a whole chunk when every
entity in it rests and is `Propped`, so a player that is `Propped` but not on the ground
falls if somebody else in its chunk moves or falls: the model lets any set of players
fall that has all those that are not `Propped`, and those on the ground do not fall
(`Fall`). No client is told of a fall; only
who is shown a player anew sees where it has come to.

### The inventory

Every click mode is an operator from an inventory to an inventory and to whether
it changed, with the names of the code. The numbers of slots, `H` for the hotbar,
the crafting and armour slots and `B` for the backpack, are parameters (9 and 27 in
the code); the conversion between window and internal slots is defined for all.
A stack is a material, an amount and whether it still has its `max_stack_size`
component, since several operations build a new stack without it. The client
looks at one slot (`Watched`) and the cursor, which is enough for a property that
is about every slot alike. A drag click on the result slot also stores a copy of its stack in
`crafting_result_pending` (`core/system/network_receive.rs:715-723`), meant for an
application; nothing in the repository reads it, and it is left out.

### The schedulers

`InstanceScheduler` has the mutex as the variable `lock`. `&mut self` is `Exclusive`,
as the borrow checker or an outer lock guarantees it; a guard held over several
calls is `Borrowed`. `tick_all` distributes the ids in any order the hash map may
give; a worker takes an id, waits for the mutex, drains and runs the schedule under
it, and records the statistics after it has let go. The queue of a world is a
sequence here: during `tick_all` nobody can push, and in that case the drain of
`CommandQueue` takes everything. Two parts of an entry, `accepted` and `ran`, are
history. `register_new_world` panics if its number is taken; the model leaves the
table alone then.

In `TaskScheduler` a heap is a set of `<<due, id>>`, popped least first. `ServerLoop`
puts both on the main thread, with other threads that take guards and submit
between rounds. `phase` is where the main thread is.

### The chunks

`Section` keeps what decides whether a block survives: the palette, the two widths
(`bits`, which is reported, and `StorageBits`, with which entries are packed), the
words, and the entry of air, the first index beyond the palette, which every new block
moves. An entry is cut to its width when it is written and read with the width the
reader takes, so a mistake of one bit shows. The map from blocks to indices is the
inverse of `palette_ids` and left out. `LightEngine` translates the flood through its
queue and the fall of sky light; `Explained` is an equation that only one light
satisfies, as light is lost at every cell, and to which the flood is compared. The loops
that run until a queue is empty or a limit is met (`Flood`, `Evicted`) are folds over a
bound on their rounds, in which a round with nothing to do does nothing; that the bounds
are enough is proved (`FloodFacts`, `EvictedTrim`). Chunks lie in a row instead of a
grid and are one cell deep; all four directions are treated alike in the code.

`ChunkStore` has one action per operation of the store. What `finalize` does before
it computes light is one step, and each chunk of a round another, in any order;
nothing else can run in between, as a bulk edit borrows the store, so these steps
serve to choose the order and to state what holds at the end. Chunks that are not
loaded are left out of the rounds, in which nothing is done to them. After
`finalize` the context can be used again, which is the same as opening another.
A chunk is one section, and the registry of blocks is set.

## 3. Runs

| run | instance | checks |
|---|---|---|
| `mpmc` | 3 threads, 2 values, 2 slots, 4 pushes; symmetry over threads and values | `TypeOK`, `SlotExclusive`, `CellReady`, `Accounted`, `ImplementsFifo` |
| `command_queue` | 2 producers of 2 commands, 2 slots | `ExecutedOnce`, `LeftBehindHalfPush`, `EmptyHidesNothing`, `EveryCommandRuns` |
| `network` | 2 eager clients, proxy enforced, one comes through it or not and the other not; 1 registry, 1 chunk; inbound channel and sockets of 1 place, outbound of 3; 1 movement | `NTypeOK`, `PlayersOwned`, `NoGhost`, `EventsPaired`, `GameBehindListener`, `ClientReadsFormat` |
| `network_service` | 1 client, status or login, compression on; 2 registries, up to 2 chunks; inbound channel and socket of 2 places, outbound of 9; fairness | `ServerReadsFormat`, `NothingLost`, `ClosedForgotten`, `Served` |
| `closed_lost` | 1 client, direct; inbound channel of 2 places; fairness | *violates* `EveryCloseHandled` |
| `worlds` | 2 worlds of 2 slots, 2 generations each, 1 archetype, 1 aligned and 1 sparse component, 1 value and the default; symmetry over worlds | `WTypeOK`, `IndexConsistent`, `ImplementsStore` |
| `inventory` | 5 slots (`H` = 1, `B` = 2), 2 materials of stack size 2 and 1, at most 5 items, 5 operations | `NoneFromNothing`, `ItemsConserved`, `ViewTrue` |
| `tick` | 3 connections, reported heights 0 and 2, ground at 0, 2 packets in play | `TTypeOK`, `MutualVisibility`, `WorldAfterLogin`, `PositionsApplied`, `DigsPassedOn` |
| `untold` | 2 connections, 1 packet | *violates* `OthersShown` |
| `chunk_store` | 3 chunks of 2 by 2 cells, 3 blocks, palettes of 1 bit and a direct width of 2, light up to 4, a limit of 1 or none, 8 rounds; 4 operations | `OrderIsLoaded`, `LightsRight`, `ImplementsTable` |
| `seams` | the same | *violates* `SeamsLit` |
| `server_loop` | 3 worlds on 2 workers, 2 callers, 2 commands, queues of 2 places; 2 turns, 4 operations; fairness | `STypeOK`, `OneInside`, `CommandsNextTick`, `RunsWhenDue`, `TasksInOrder`, `ImplementsRounds`, `TurnEnds` |

**Why the bounds are enough.** Two slots and four pushes take the ring round twice, so a
thread may sleep over a whole round, the ring fills and empties, and three threads are
two rivals for one position and one on the other side. Commands are distinct, so that
order and repetition can be told apart; producers retry a refused command, so a full
ring occurs. An inbound channel of one place shared by two connections makes every frame
a candidate for being dropped and every report of a close wait; the outbound channel of
three places is the least in which the three messages of `Hello` fit. `NothingLost`
needs more, as one tick may queue all the packets of the configuration, or those of the
entry with the chunks: for the client of `network_service`, with two registries and two
chunks, 9 places are enough. For any clients `UrgentDelivered` needs room for five
bursts of `Registries + SpawnChunks + 6` frames: with the 28 registries of the code and
at most 9 chunks 215, of the 256 its channels have (section 5). Two slots are enough for
a `despawn` that moves another entity and for a free stack from whose middle or top a
slot is taken, and for an arena that grows by more than one slot; two generations for
reuse. In the inventory one slot of each region is enough for the conversions, a second
of the backpack for a spread and for the choice among targets; one material stacks and
one does not, and five operations hold a drag with two targets, a click that interrupts
it and a resynchronisation. Three connections let one player enter while another is
entering and a third plays; two positions let a player go and come back in one tick, and
from the upper one it falls two steps, past a height at which it may stay because a
block is near enough, to the ground. With two workers for three worlds a chunk has two
ids and a worker waits for the mutex; two turns and four operations hold a task
scheduled, repeated, cancelled and popped, and a command accepted in one turn and run in
the next. One block in a palette takes one bit and two take the direct width, so both
repackings occur; the three chunks let light, and the rounds of a bulk edit, pass
through one chunk to another, and a limit of one chunk trims by more than one; four
operations hold a bulk edit of three chunks, or of one chunk over loaded ones, or a
limit set after two chunks were loaded and another use of them. The light of the
instance settles long before round 8 (1024 in the code). `MaxPush`, `MaxMoves`,
`MaxGen`, `MaxSlots`, `MaxGiven`, `MaxOps`, `MaxPackets` and `MaxTicks` are bounds of
the model, not of the code; each is a guard on the operation that would exceed it
(`Sites`, the cells that `set_block` writes, is another), and the loop stops in order
when the turns of the bound are done, so deadlock is checked there. The inventory stops
at its bound, without deadlock checking, and so do the chunks. The worlds are a passive
library, which may stop when all slots and generations of the bound are used: deadlock
is not checked there.

**Fairness.** `CommandQueue`: the tick loop calls `drain` again and again
(strong fairness, since other calls of the same thread come in between), a drain that
runs is scheduled, a compare-and-exchange that can succeed does not fail
spuriously for ever, a producer that has *claimed* a position is scheduled until
it has published. Nothing is assumed of other producers, so the lock-free
retry loops get no help. `Network`: the tick loop runs (weak fairness of the game's
steps), each task that can go on is polled; accepting and unmapping are only possible outside
of the flush and waiting senders of a tokio channel are served in their order,
hence strong fairness for these three. Clients are fair only in
`CooperativeSpec`, and even there may leave. The liveness properties are checked
with one connection: a connection shares only the inbound channel with others,
and the safety run has two. `ServerLoop` (`FairLoop`): the main thread goes on with
the turn it has begun and the operating system runs every worker (weak fairness),
guards are given back, and the round begins although other threads borrow the
scheduler again and again (strong fairness of `RoundBegins`). Nothing is assumed of
those who register, schedule, submit or take guards, and a turn need not begin.

## 4. What the runs show

The ring is right under every interleaving of the instance, and implements
`BoundedFifo`, which also says exactly how far its answers can be trusted:
`Full` may mean that a pop is half way, `None` that the push at the head is.
It follows that one `drain` may leave commands behind, although `ecs/queue.rs:267`
says that it executes everything waiting; but only behind a push that is half way
(`LeftBehindHalfPush`), and a later one executes them.

A connection whose frames the game gets to see never leaves a player, a runtime or a
send state behind, and events pair, although frames are dropped and closes come at
any moment. The game's state never gets ahead of the listener's. A client that
follows the protocol is served and every frame it reads is in the format it
expects, unless `tick_begin` throws a frame of it away.

The tables of the worlds implement a map from entities to values.

No sequence of clicks makes an item up, clicks other than throwing, cloning and
interrupting a drag conserve items, and the client sees every change, except that a
slot the server empties on its own goes on showing what was in it
(`core/component/inventory.rs:128`: writing AIR does not make a slot dirty).

Two players in play are always shown to each other and each gets one batch of chunks; but see
below for what the others are not told. When the systems of a tick have run, a player that moved
in it is where its client said last; until its client says so again it stays there or
falls, but through no ground. Every dig of a player that stays reaches the event bus once,
*whatever it aims at*: that is what the program does and not what it is meant to do,
see below.

The store of chunks implements a table of blocks: no block is changed by packing,
forgetting, saving, loading and committing, the limit is met exactly whenever it is
applied, and a bulk edit is seen at once or never. It leaves room the code uses:
`set_max_chunks` and `load_all` apply no limit, a chunk may be forgotten in the very call
that loads or writes it, when the order of access still has it from before it was
unloaded or does not have the others (against the comment at
`core/instance/chunk_store.rs:189`), and a dirty chunk is forgotten unsaved. The light of
a chunk is right with respect to what it is computed from when a write or a bulk edit
is done; what it is computed from is finding 3. A bulk edit that fills air together
with more than 255 blocks is outside of what is shown: the entry it writes for air is
the index of the first block (`core/instance/chunk.rs:217`; `ImplementsTable` fails with
such a content among `Fills`).

A turn of the main loop that has begun ends, no two threads are in a world, an accepted command
runs in the next tick of its world, and a task at the ticks the method that scheduled it
documents (`core/resource/scheduler_manager.rs:82`, `:94`, `:113`), which is not what two other
places say (below). Workers do not
run worlds in parallel, against the comment at `ecs/scheduler.rs:323`: each holds the
global mutex while it ticks a world, so a round on four workers takes as long as on
one.

Three statements of the repository do not hold of the program (section `findings` of
`PROJECT.json` quotes them):

1. `core/system/network_receive.rs:229-230`: a connection is removed when the report
   of its close arrives. `tick_begin`, which runs behind `network_receive`, empties
   the inbound channel; a close that comes in between is lost and the player stays
   for ever, and in the same way a frame of a login, which then never goes on
   (`closed_lost`).
2. `core/system/entity_sync.rs:8-9`: others are told of quits and moves. The player
   that quits is gone before `entity_sync` looks it up, and moves are written after
   it and cleared before the next tick (`untold`).
3. `core/instance/light_engine.rs:16-18`: the light of a chunk starts from the cells of
   its neighbour beside it. The store takes the far face of the neighbour, the column
   15 cells away (`seams`).

More were seen and have no run of their own:

- A refused connection stays open until its client closes it, against
  `core/system/network_receive.rs:226`.
- The contents of the inventory go out in the tick of `Hello`, before `Login(play)`, against
  `core/system/network_receive.rs:576` (`WorldAfterLogin` therefore leaves `WindowItems` out).
- Digs are not validated. The docs of `core/system/block_interaction_validator.rs`
  (5-13, 42-45) have a dig dropped, and a rejection written, if it is out of reach or
  its chunk is not loaded, and the tests `out_of_range_block_is_rejected` and
  `unloaded_chunk_block_is_rejected` show that. They put the player into the main world.
  In the server players are in an instance world, the look-up in the main world fails
  (`:60`), and every dig is dispatched as it is (`DigsPassedOn` states this); every
  placement of a block is rejected, as no player is near enough to it.
- The comment of a test (`core/system/scheduler_tick.rs:49`) says that a task scheduled
  with a delay of 3 before the first tick does not run in the first three ticks but in
  the fourth. It runs in the third, as `schedule_after` documents; the test looks only
  after the fourth. `RunsWhenDue` requires the third.
- `schedule_end_of_tick` documents that a task runs at the end of the current tick
  (`core/resource/scheduler_manager.rs:14`, `:127-129`). That holds of a task scheduled
  before `scheduler_tick` in a turn. The ends of ticks are worked off within
  `scheduler_tick`, so one that a later system schedules runs in the next turn.
  `RunsWhenDue` requires the next execution of `scheduler_tick` in either case.
- `player_movement` takes no step from the tick, against its docs (section 2, the tick).

Others are listed under `hazards` without a run of their own: a migration that
brings an old generation back to a slot (`ecs/entity.rs:246`), a generation that
outgrows its handle (`ecs/entity.rs:130`), replies to `LoginSuccess` sent before
`LoginCompression` was read (`core/system/network_receive.rs:384`), a repeated task of
period 0 (`core/resource/scheduler_manager.rs:216`), `submit` under a guard of the
same thread (`ecs/scheduler.rs:288`), numbers of worlds registered by hand
(`ecs/scheduler.rs:218`).

## 5. What is proved

The first half of `CommandQueueProofs`, about the ring, proves for any threads and
values, any capacity of at least 2 and any `MaxPush`, from the named assumptions of
`MpmcQueue` (capacity, bound, `NoValue` outside of `Values`, and values that are none of
the answers a thread can get):

- `TypeCorrect`: `Spec => []TypeOK`;
- `Invariance`: `Spec => []IInv`, the inductive invariant;
- `Exclusive`: `Spec => []SlotExclusive`; `Ready`: `Spec => []CellReady`;
- `NothingLost`: `Spec => []Accounted`.

None of the three safety properties is inductive: each speaks of threads that
have claimed a position, and says nothing of those about to. `IInv` adds, part by
part:

- `Owners`, `Apart`: a thread past its claim keeps `sequence[Slot(pos)]` at
  `pos` (writing) or `pos + 1` (reading), and no two threads on the same side own
  the same position. As a slot has one sequence number, two threads at one slot
  would own the same or neighbouring positions, and neighbours are in different
  slots (`SlotNext`, which needs a capacity of 2): this gives `SlotExclusive`.
- `LocalCopies`: a local copy of a position is never ahead of the counter, and a
  thread at its compare-and-exchange knows that the sequence number it saw is
  still there *if* the position has not moved, which is what the exchange tests.
  This carries a claim into `Owners`.
- `Counters`, `Rounds`: the counters are at most a capacity apart, and what a
  slot's number says of them; without it a number stored in a later round could
  match a stale comparison.
- `Cells`, with `Accounted`: a cell whose slot is ready for position *p* holds
  `entered[p + 1]` unless its consumer has just moved it out, and a free slot is
  uninitialised unless its producer has just written it: this gives `CellReady`
  and the values in `left`.

Preservation is proved by one lemma for each action that touches a claim
(`PushClaimKeeps` to `PopReleaseKeeps`) and one for all the others
(`QuietActions`); the arithmetic of slots (`SlotParts` to `SlotFacts`) is stated
once, from two lemmas about multiples.

From the same assumptions follows `RingImplementsFifo`:
`Spec => ImplementsFifo`. `IInv` is not enough: it says what a sequence number that
a thread found allows it to do, whereas a refusal rests on a number that was not
there. `RingInv` adds the converse: a position the pops have passed never looks free
or ready again (`Passed`), a claimed one is ready unless its push is half way
(`Filled`), and one of the next round is free unless the pop of the round before is
half way (`Vacated`). From the last two follow exactly the two excuses that
`BoundedFifo` allows `Full` and `None`. `LineGrows`, `LineShrinks` and
`LineCompletes` say what a claim of a push, a claim of a pop and a store of a push
do to the line; every other access is a stutter or an answer.

`CommandQueueProofs` carries this into the command queue of a world, for any producers
and any programs over the values: `UsesRing` (`CSpec => Spec`: producers only push and
the world's thread only pops, so every theorem about the ring holds in the composition),
`EachExecutedOnce` (`[]ExecutedOnce`), `OnlyBehindHalfPush` (`LeftBehindHalfPush`) and
`NothingHidden` (`EmptyHidesNothing`). They need `RingInv`, and three facts that relate
the history of the ring to the queue's: an accepted command has its place and nobody
writes there (`Settled`), a place that the pops have passed is executed or in the hands
of the drain (`Executed`), and what `len` found waiting was pushed below the position it
read (`Remembered`). A drain that ends stands at `dequeue_pos` (`Passed`), so a command
still waiting lies further on, and `Filled` names the push that holds it up. For
`ExecutedOnce` the commands of the programs must be distinct (`CommandsAssumption`; in
the code each is an object of its own). Two more parts say where order comes from: a
producer that pushes has the next command of its program in hand (`Pending`), so that
the places of its commands are in the order of the program and no command has two
(`InOrder`); and as one thread drains, executing what it pops before it pops the next,
what has been executed is the line of places up to the last pop (`Copied`).

`ServerLoopProofs` proves for any worlds, callers, number of workers, commands and
capacity, in both thread modes, and any delays and periods, from the assumptions
of the two schedulers (threads are distinct from one another and from `Free`, ids
are numbers, periods are not zero):

- `LoopUsesScheduler`: `SSpec => ISpec`; every step of the loop is a step of the
  scheduler or none. What is proved of `ISpec` therefore holds in the loop;
- `TypeCorrect`: `SSpec => []STypeOK`, with `current_tick = counter` and every entry
  of a heap naming a task that was scheduled;
- `MutualExclusion`: `[]OneInside`; `CommandsExecuted`: `[]CommandsNextTick`;
- `TickAllIsRound`: `ImplementsRounds`, a refinement: the initial state maps to that
  of `Rounds`, and every step to a step of it or to a stutter.

`OneInside` is not inductive: `Holder` adds that the thread with the mutex is the one
that holds a guard or runs a schedule, and `Stable` that whoever does excludes
`Exclusive`, hence a change of the table under it. The refinement needs `Shared`:
chunks are disjoint, a world being ticked is in none of them, and every registered
world is in the results, in a chunk, or with a worker. It is established by
`DistributeParts`, which holds of either mode (for the shared pool, from the
bijection that numbers the ids), and kept by one lemma per step of a worker. For
the commands, `Emptied` adds that a worker that runs a schedule has an empty queue,
so that advancing the number of ticks stamps nothing anew.

Its second half proves of the tasks in the loop, for any delays and periods, any number of
tasks and turns, whatever is cancelled:

- `RunExactlyWhenDue`: `SSpec => []RunsWhenDue`; `RunInOrder`: `SSpec => []TasksInOrder`.

`RunsWhenDue` speaks of the time between two turns and says nothing of a heap.
`DueInv` relates the two: a task that is alive has one place, in the heap of its kind
(`Alive`, `Places`), the place stands for the task's next tick, all ticks before it have
been run, and it has not been passed (`Pending`, with `Handled`, the last tick that a
heap has been looked at for, which differs between the heaps while a tick runs); a
task that is gone ran at all its ticks until it was cancelled, or once (`Finished`).
A place that comes up therefore stands for the current tick, in which the task has not
run (`DueIsNow`), and a heap whose first place is later has passed the tick
(`HeapDoneKeeps`). That a repeated task skips no tick and runs at none in between is
arithmetic about multiples of its period (`NextBeat`). For the order, `Ordered` adds that
what ran in this tick stood before all that is still in the heap, including the place a
repeated task has just been given.

`NetworkProofs` proves for any connections, capacities of both channels and intents, with
the proxy or without, with compression or without, and for clients that stop or
leave at any time:

- `ConnectionsSane`: `NSpec => []NInv`, the inductive invariant;
- `TypeCorrect`: `[]NTypeOK`; `NoPlayerLeftBehind`: `[]PlayersOwned`;
- `NothingOutlivesTheClose`: `[]NoGhost`; `EventsPairUp`: `[]EventsPaired`;
- `GameNeverAhead`: `[]GameBehindListener`.

None of the four safety properties is inductive: a second intention of a
connection with a player would take its entity from it, a packet behind the close
would bring the connection back, a second acknowledgement would enter play twice.
That none of these is in line follows from the tags alone, not from what clients
are thought to send. `Orderly` says that along the inbound channel the tag of a frame is at
least what the frames of its connection before it lead to, and that nothing follows
the report of the close; `Tagged` that the listener is past all of them and the
game before. `Once` turns this into events: behind a `Hello` all is tagged with the
login or later (`Beyond(c, 3)`), so no intention follows, and behind the
frame that enters play all is tagged with play (`Beyond(c, 5)`). `Cleared` is
`NoGhost` with what makes it stay true: the line holds nothing of a connection
whose close was handled. Two lemmas about lines, `LineShortened` and `LineExtended`,
carry all of it through the channel; a frame that is dropped or swept only
shortens a line, which is why losses do no harm here.

Its second part proves of the same system, whatever clients do and however many of them are
eager, if a channel takes the three messages of a login (`3 <= OutCap`; in the code a
channel to the write task takes 256):

- `FormatsHold`: `NSpec => []FInv`, the inductive invariant;
- `ClientsReadFormat`: `[]ClientReadsFormat`;
- `ServersReadFormat`: no frame of a client outside `Eager` is read in the wrong format,
  and hence `[]ServerReadsFormat` if no client is eager. Of an eager client it is false
  (see `hazards`, `core/system/network_receive.rs:384`).

With a smaller capacity `try_send` could drop `LoginCompression` alone and leave the client
reading packed frames as plain ones, so the hypothesis is needed.
`ClientReadsFormat` speaks of the frame at the head of the socket only. `Format` follows
the switch through the channel and the socket: before a login all that is under way is
plain; then `LoginCompression` is the only seam (`Seam`), plain before and packed behind it,
first in the channel, then in the socket; then all is packed. That it is the only one rests
on the client: a second `Hello` would put a second seam behind the first. `Polite` says that
a client says `Hello` once and is silent until it is answered, and `Waits` that meanwhile
nothing but a refusal is queued for it, so that the order to inflate (`EnableCompression`)
stands at the head of an otherwise empty channel and nothing packed is written before it
is obeyed. Nor are items queued for it, as it has no player before its `Hello`
(`JInv`). For the other direction `Incoming` adds that a client that waits for
`LoginCompression` has nothing under way while the order is in the channel. `Ends` ties
the read and write tasks to the two ends of the connection, so that a channel is not
reset under a client that still reads.

Its third part proves that the channels have room, for any number of connections and clients
that may leave, stop, or be eager:

- `AnswersBounded`: `3 <= OutCap` implies `NSpec => []RInv`, the inductive invariant;
- `UrgentDelivered`: `5 * Burst <= OutCap` implies `NSpec => NothingLost`,

where `Burst`, `Registries + SpawnChunks + 6`, is the most that one frame of a client
can bring about: `Registries + 3` frames of configuration, or the four of the entry with
the `SpawnChunks + 2` of the batch. The code registers 28 registries and sends the
chunks at most one away, 9: a burst is 43 frames, five are 215, and its channels take
256 (`core/network/listener.rs:88`). With 37 or more registries the hypothesis fails.

`NothingLost` is about one step, but that the channel is not full at that step depends
on all that came before. Nothing the game sends up to there is unasked for. `Owed`
charges a burst for every frame of a client that is still in the socket or in line, one
for every frame in `out` and in `urgent` (`Due`), and what the systems behind the
handlers will still add to these in this tick, for a `Login` that is queued or an
inventory that is to be sent (`Coming`); a report moves the charge from the socket to
the line, an answer turns it into frames and dues, the end of the handlers turns dues
into frames, a flush moves one, and dropping, sweeping or closing only takes away. The
client raises the bound by a burst for each frame it sends that may be answered
(`Sent`), and the protocol lets it send five of them: movements, the only frames without
end, are not answered. Five bursts are not sharp, as only two of the five frames bring
one about. What goes out behind the chunks (`entity_sync` shows the other players in the
same tick, and all that is sent in play) is not in `Network`: of those frames the
theorem says nothing.

`WorldsProofs` proves for any worlds, archetypes, components (aligned or sparse) and
values, and any number of slots, as long as the generations reached fit a handle
(`NoRunOver`: `MaxGen < GenLimit`; beyond 2^24 generations of a slot the code
issues a handle of another kind, which the theorems say nothing about):

- `WorldsSound`: `WSpec => []WInv`, the inductive invariant;
- `TablesAgree`: `WSpec => []IndexConsistent`; `TypeCorrect`: `WSpec => []WTypeOK`;
- `TablesImplementStore`: `WSpec => ImplementsStore`, a refinement: every operation on
  the tables is one operation on the map from entities to values, or none.

`WInv` says of each world by itself that it is `Sound`, so an operation is a lemma
about the world it returns (`PlacedSound`, `DespawnedSound`, `WrittenSound`,
`TakenOutSound`, `GivenSound`) and an action a lemma about which worlds it
replaces. `Sound` is `IndexConsistent` made inductive: `Stack` keeps the free slots
vacant and listed once, from which `AllocateFresh` and `AllocateExactFresh` get that a
slot handed out is nobody's; `Owned` adds that every entity of the index has the
generation its slot has; `Located` makes index and slots inverse to each other,
without which `swap_remove` could leave the entity that moved with its old place;
`Filled` adds that a sparse column has values of entities of its archetype
only. The last is not needed for `IndexConsistent` but carries the refinement: an
entity in a reused slot must start from the defaults, and a sparse column is
addressed by slot, so a value left behind by `despawn` would show up as the
new entity's. `PlacedVals` to `GivenVals` say of each operation which values it
shows afterwards.

`Folding` and `InventoryProofs` are about the inventory. The clicks of `Inventory` loop
over slots (quick move, pickup all, drags, add), which the model writes as folds.
`Folding` proves, for a parameter `Op` and an assertion `P`, that what every step of a
fold preserves holds at its end (`OverSeqInduction`, `OverSetInduction`, for finite sets
in any order), from the definition of the folds and well-foundedness of the natural
numbers. An instance `INSTANCE Folding WITH Op <- ..., P <- ...` makes the induction
over one loop a fact to cite. With it `InventoryProofs` proves for any materials and
stack limits, any number of slots and operations:

- `InventoryInvariant`: `ISpec => []IInv`;
- `NothingFromNothing`: `[]NoneFromNothing`; `ClicksConserveItems`: `[]ItemsConserved`;
- `ClientSeesInventory`: `[]ViewTrue`.

The number of items of a material is a sum over slots, itself a fold, and each
loop of a click keeps it together with what the loop has in hand (`Poured` for the loops
that pour a stack into slots, `Collected` for those that take one out). `NoneFromNothing` is
not inductive. A click that interrupts a drag puts the targets back to what they held when they
joined it while the cursor keeps what it has left (`CancelFacts`), so that items
may vanish, and an item thrown from or added to a target in the meantime could come back a
second time: `Accounted` therefore bounds by what was given also the items there
would be if the drag were cancelled now (`Back`), and every operation that may run
between two steps of a drag keeps both bounds.

`TickProofs` is about the turn, for any finite set of connections, any positions, any
ground and any number of packets, joins, quits and ticks:

- `TickInvariant`: `TSpec => []TInv`; `TickTypes`: `[]TTypeOK`;
- `AllSeeAll`: `[]MutualVisibility`; `WorldOnceAfterLogin`: `[]WorldAfterLogin`;
- `PositionsAreApplied`: `[]PositionsApplied`; `DigsArePassedOn`: `[]DigsPassedOn`.

Most of them speak of the time between two ticks, or before `network_send`, and are
established by several systems one after the other. `TInv` therefore says for each value
of `pc` how far a tick has come. `Life` ties the runtime of a connection to the stage of
its client and to the first packet queued for it: while the two differ, exactly the
packet that will make them agree is at the head of the urgent queue, and only chunks and
players come behind it, which is why nothing of play reaches a client before `Login`.
`Batch` says that behind `chunk_send` the queue of a player that has entered ends
exactly one batch, and no other queue any; `Seen` that behind `entity_sync` of two
players in play one of whom has entered in this tick, each is queued for the other. `At`
follows the last movement of a player to `player_input` and says of those that did not
move that they are where they were last reported or below (`Below`: no ground lies
between), which the steps of the instance keep because nobody falls from the ground
(`FallsBelow`). `Dug` a dig from the inbox through the messages to the dispatch. What
each system does with the messages of a tick is a loop, and one lemma per loop says what
it adds to every queue (`SendsBatches`, `WelcomesAll`, `PassesDigs`, `AppliesAll`,
`GetsAll`), from the induction in `Folding`. `RemovesNobody` and `MovesNobody` prove in
passing what the run `untold` shows from the other side: the loops of `entity_sync` over
quits and movements never do anything, as those that have left are no longer in the
instance and movements are written only after it has run.

`ChunkStoreProofs` is about the store of chunks, for any coordinates, limits, saved
chunks, contents and numbers of operations, any size of a chunk and widths of entries,
with no more blocks than a word has values (`StoreAssumption`: the code has 32-bit
numbers of blocks in words of 64 bits):

- `StoreTyped`: `Spec => []Typed`; `StoreOrderIsLoaded`: `[]OrderIsLoaded`;
- with `FillsFit`, `SectionsSound`: `[]SoundStore`; `StoreLevels`: `[]LitStore`;
- with `FillsFit`, `StoreImplementsTable`: `Spec => ImplementsTable`;
- with `FillsFit`, `StoreLightsRight`: `Spec /\ []RoundsSuffice => LightsRight`.

`FillsFit` is what `fill_blocks` needs of its argument: a palette that leaves room for
the entry of air, or no air. The contents it excludes are air beside more than 255
blocks, which the code gets wrong (`core/instance/chunk.rs:217`, see section 4), and
more blocks than the direct width counts. `set_block` and the generator need no such
hypothesis: their sections grow one block at a time and are packed with the width
storage needs. `RoundsSuffice` says that `finalize` ends because no chunk is left, and
not because its 1024 rounds are used up, after which nothing is promised; the run
`chunk_store` never gets there with 8.

The proof has three layers. At the bottom an entry is a digit of a number in a base of
two to its width: what is packed is read back (`PackedEntries`), and writing one digit
leaves the others (`DigitWritten`, `EntryWritten`). A section is `Sound` when it is
empty or its palette lists different blocks, its words have the length its storage width
gives and no entry is beyond the palette; from there `BlockWritten` follows `set_block`
through all its ways (the first block, a block that is known, one that makes the palette
grow, the entries of air that move with it, a new width) to exactly one changed block,
and `FilledBlocks` and `GeneratedBlocks` do the same for whole sections. For the store,
`Typed` adds to `OrderIsLoaded` the shapes of tables and records and the orders of a
bulk edit; `ForgottenOne` says of a round of `evict_lru` that it shortens one of the
orders and takes away at most one chunk, so that after as many rounds as the orders are
long the limit is met, or was (`EvictedTrim`), and one lemma per operation
(`LoadChunkDoes`, ..., `FinalizeDoes`) what it puts into the table and that only
forgetting follows. `TableStep` maps each operation to one of `ChunkTable`.

Light is the third layer. While the queue is worked off, `Glows` and `AllSettled` keep
for every cell that its light is one of those `Explained` allows (`Grounded`: the block,
the boundary or a neighbour gives it) and that a neighbour to which it owes light is
still waiting in the queue (`Waits`, `Settled`). Each level of each cell is raised at
most once, so the length of the queue and the levels not yet reached, together, go down
in every round (`Work`), and `Width * Height * MaxLight` rounds empty the queue
(`FloodFacts`). Then nothing waits, every cell is at least what it is given and at most
something it is given, which is the equation (`BlockLightExplained`). In the rounds of
`finalize`, `Relighting` says that every chunk it is concerned with has the right light
for its neighbours or will be looked at again: `Relight` makes its own chunk right,
leaves those that are not beside it as they are (`RightFarAway`), and puts its
neighbours into the next round if anything changed. The order in which a hash set gives
the chunks does not matter.

Only model-checked, and why: all liveness, which together with `ENABLED` is out of the
prover's reach. Every safety property of a passing run is a theorem, the refinements among them.
Sky light, for which no property is stated, is computed and saved with the rest. Loops over
data are written as folds or recursive functions, about which `Folding` and the library give
induction; no module has a `RECURSIVE` operator.

## 6. Not modelled

Anvil files, generators, fluids, heightmaps, the wire format of chunks, collision boxes,
path finding and AI are computations on bulk data or floating point. Codecs, NBT,
registries, text, macros: pure conversions and data, by far the largest part of the
repository, of which the models keep what decides control (which packet is known in
which state, which format a frame is in). Of physics `Tick` has what it does to players,
who fall; other entities, and sideways movement, which needs a velocity nobody gives a
player, are left out. The event bus, extensions, command parsing and console are
synchronous calls without state between them. Online authentication is off by default.
The command buffer of the ECS applies its operations after each system;
`network_receive` uses it only while the default instance is not registered
(`core/system/network_receive.rs:351`, `:79`), and the models start behind the
registration, as the server does. In that fallback the connection keeps the placeholder
of the spawn command as its entity, see `hazards`.

Within the modelled parts: a second `Hello` or any packet out of protocol order,
aggregation of normal frames and the chunk credit, frames longer than the limit, chat
and interactions with entities, view distance and several instances, the held
slot and equipment, components of items other than the stack size, entity kinds
other than 0, handles that are reissued, the drop of a ring, several sections to a
chunk, the arithmetic of world coordinates, dynamic chunks, a cloned store and one
without a registry. The thread that holds
a guard and submits through the scheduler blocks itself: in the model callers
submit without a guard.

## 7. Plan

Done: the ring, the command queue, the network, the worlds, both schedulers and the main
loop, the tick, the inventory, the chunks; proofs of the ring and the order of commands,
of the network, its frame formats and the room in its channels, of the worlds, of the
schedulers and of the tasks, of the inventory, of the tick and of the chunks with their
light. Next, the most important first:

1. Misbehaving clients in `Network`: a second `Hello`, packets out of order.
2. `CommandBuffer`: placeholder and deferred application; several instances in `Tick`
   with `migrate_entity` between them.
3. A bound on the rounds of `finalize` from the size of the store, in place of the
   hypothesis `RoundsSuffice`.
