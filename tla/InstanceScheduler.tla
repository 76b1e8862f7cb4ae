-------------------------- MODULE InstanceScheduler --------------------------
(***************************************************************************)
(* The scheduler of the instance worlds (ecs/src/scheduler.rs): the table  *)
(* of worlds behind one mutex, the guards by which other threads work in a *)
(* world, the command queue of each world, and tick_all, which hands the   *)
(* worlds to worker threads and waits for all of them.                     *)
(*                                                                         *)
(* register_*, unregister_world, shutdown and tick_all take the scheduler  *)
(* by &mut, the rest by &: Borrowed says when a caller holds it by & over  *)
(* several steps (a guard), ticking when tick_all holds it by &mut.  The   *)
(* queue is a sequence: nobody can push (submit is &) while drain runs     *)
(* (inside tick_all), which is the case in which CommandQueue's drain      *)
(* takes everything that waits.  An id is drawn from a HashMap, so the     *)
(* order of the ids and of each chunk is any order.                        *)
(***************************************************************************)
EXTENDS Integers, Sequences, FiniteSets, Functions

CONSTANTS
  WorldIds,   \* ids of worlds, natural numbers
  Callers,    \* threads that share the scheduler by &
  N,          \* worker threads of a round
  Mode,       \* "SharedPool" or "BoundToWorld"
  Cmds,       \* external commands
  Capacity,   \* places of a command queue
  Free,       \* the mutex is held by nobody
  NoWorld     \* no guard

Workers == 0 .. N - 1

ASSUME SchedulerAssumption ==
  /\ WorldIds \subseteq Nat
  /\ N \in Nat \ {0}
  /\ Mode \in {"SharedPool", "BoundToWorld"}
  /\ Capacity \in Nat
  /\ Callers \cap Workers = {}
  /\ Free \notin Callers \cup Workers
  /\ NoWorld \notin WorldIds

VARIABLES
  worlds,     \* the registered worlds, by id
  next_id,    \* the next id register_new_world gives
  lock,       \* the thread that holds the mutex of worlds, or Free
  guard,      \* guard[c]: the world c holds an InstanceWorldGuard of, or NoWorld
  ticking,    \* tick_all is running
  chunk,      \* chunk[w]: ids that worker w has not taken yet
  pc,         \* pc[w]: where worker w is
  want,       \* want[w]: the id worker w is ticking, until it is in results
  results     \* ids with statistics in this or the last round

ivars == <<worlds, next_id, lock, guard, ticking, chunk, pc, want, results>>
workerVars == <<chunk, pc, want, results>>

\* accepted and ran are what the callers and the world itself know: the commands
\* whose submit returned Ok, and those executed, each with the number of ticks
\* the world had behind it then.
NewEntry == [queue |-> <<>>, ticks |-> 0, accepted |-> <<>>, ran |-> <<>>]

Stamp(cmds, ticks) == [i \in DOMAIN cmds |-> [cmd |-> cmds[i], at |-> ticks]]

Registered == DOMAIN worlds

Borrowed == \E c \in Callers : guard[c] # NoWorld

\* Nobody else has the scheduler: what the borrow checker, or an outer
\* lock, requires of a &mut method.
Exclusive == ~ticking /\ ~Borrowed

IInit ==
  /\ worlds = <<>>
  /\ next_id = 0
  /\ lock = Free
  /\ guard = [c \in Callers |-> NoWorld]
  /\ ticking = FALSE
  /\ chunk = [w \in Workers |-> {}]
  /\ pc = [w \in Workers |-> "next"]
  /\ want = [w \in Workers |-> NoWorld]
  /\ results = {}

----------------------------------------------------------------------------
(* Registration *)

Insert(id) == worlds' = [i \in Registered \cup {id} |-> IF i = id THEN NewEntry ELSE worlds[i]]

\* An id that is taken is answered with an error and nothing changes.
RegisterWorld(id) ==
  /\ Exclusive /\ lock = Free
  /\ id \notin Registered
  /\ Insert(id)
  /\ UNCHANGED <<next_id, lock, guard, ticking, workerVars>>

\* If the id was registered by hand before, the code panics (unreachable!)
\* when the number is already spent.
RegisterNewWorld ==
  /\ Exclusive /\ lock = Free
  /\ next_id \in WorldIds
  /\ next_id' = next_id + 1
  /\ IF next_id \in Registered THEN UNCHANGED worlds ELSE Insert(next_id)
  /\ UNCHANGED <<lock, guard, ticking, workerVars>>

\* The commands that wait go with the entry.
UnregisterWorld(id) ==
  /\ Exclusive /\ lock = Free
  /\ id \in Registered
  /\ worlds' = [i \in Registered \ {id} |-> worlds[i]]
  /\ UNCHANGED <<next_id, lock, guard, ticking, workerVars>>

Shutdown ==
  /\ Exclusive /\ lock = Free
  /\ worlds' = <<>>
  /\ UNCHANGED <<next_id, lock, guard, ticking, workerVars>>

----------------------------------------------------------------------------
(* Callers.  with_world is LockWorld and Unlock around its closure. *)

\* Mutant: the guard does not keep the mutex.
LockWorldShared(c, id) ==
  /\ ~ticking
  /\ id \in Registered
  /\ lock' = c
  /\ guard' = [guard EXCEPT ![c] = id]
  /\ UNCHANGED <<worlds, next_id, ticking, workerVars>>

LockWorld(c, id) ==
  /\ ~ticking
  /\ lock = Free
  /\ id \in Registered
  /\ lock' = c
  /\ guard' = [guard EXCEPT ![c] = id]
  /\ UNCHANGED <<worlds, next_id, ticking, workerVars>>

Unlock(c) ==
  /\ guard[c] # NoWorld
  /\ lock' = Free
  /\ guard' = [guard EXCEPT ![c] = NoWorld]
  /\ UNCHANGED <<worlds, next_id, ticking, workerVars>>

Pushed(e, cmd) == [queue |-> Append(e.queue, cmd), ticks |-> e.ticks,
                   accepted |-> e.accepted \o Stamp(<<cmd>>, e.ticks), ran |-> e.ran]

\* Refused, and without effect, when the queue is full or the world unknown.
Submit(id, cmd) ==
  /\ ~ticking
  /\ lock = Free
  /\ id \in Registered
  /\ Len(worlds[id].queue) < Capacity
  /\ worlds' = [worlds EXCEPT ![id] = Pushed(@, cmd)]
  /\ UNCHANGED <<next_id, lock, guard, ticking, workerVars>>

----------------------------------------------------------------------------
(* A round *)

\* The i-th id to worker i % n, in any order of the ids; or each id to
\* worker id % n.
Distribute(ids) ==
  IF Mode = "BoundToWorld"
  THEN {[w \in Workers |-> {id \in ids : id % N = w}]}
  ELSE {[w \in Workers |-> {order[i] : i \in {j \in DOMAIN order : j % N = w}}] :
          order \in Bijection(0 .. Cardinality(ids) - 1, ids)}

TickAll ==
  /\ Exclusive
  /\ ticking' = TRUE
  /\ chunk' \in Distribute(Registered)
  /\ results' = {}
  /\ UNCHANGED <<worlds, next_id, lock, guard, pc, want>>

\* Mutant: the commands are executed and stay in the queue.
DrainedKeeps(e) == [e EXCEPT !.ran = @ \o Stamp(e.queue, e.ticks)]

\* tick_entry, first half: the commands that wait are executed on the world.
Drained(e) == [queue |-> <<>>, ticks |-> e.ticks, accepted |-> e.accepted,
               ran |-> e.ran \o Stamp(e.queue, e.ticks)]

\* A worker takes the next id of its chunk, waits for the mutex and keeps it
\* while it ticks that world, so no two worlds are ticked at once.  (An id of
\* the snapshot is still registered: the else branch is never taken.)
Enter(w) ==
  /\ ticking
  /\ pc[w] = "next"
  /\ lock = Free
  /\ \E id \in chunk[w] :
       /\ chunk' = [chunk EXCEPT ![w] = @ \ {id}]
       /\ IF id \in Registered
          THEN /\ lock' = w
               /\ want' = [want EXCEPT ![w] = id]
               /\ worlds' = [worlds EXCEPT ![id] = Drained(@)]
               /\ pc' = [pc EXCEPT ![w] = "run"]
          ELSE UNCHANGED <<lock, want, worlds, pc>>
  /\ UNCHANGED <<next_id, guard, ticking, results>>

Ticked(e) == [e EXCEPT !.ticks = @ + 1]

\* tick_entry, second half: the world's schedule; then the mutex is released.
RunSchedule(w) ==
  /\ pc[w] = "run"
  /\ worlds' = [worlds EXCEPT ![want[w]] = Ticked(@)]
  /\ lock' = Free
  /\ pc' = [pc EXCEPT ![w] = "record"]
  /\ UNCHANGED <<next_id, guard, ticking, chunk, want, results>>

Record(w) ==
  /\ pc[w] = "record"
  /\ results' = results \cup {want[w]}
  /\ want' = [want EXCEPT ![w] = NoWorld]
  /\ pc' = [pc EXCEPT ![w] = "next"]
  /\ UNCHANGED <<worlds, next_id, lock, guard, ticking, chunk>>

\* Mutant: the round ends when the last id has been handed out.
TickAllReturnsEarly ==
  /\ ticking
  /\ \A w \in Workers : chunk[w] = {}
  /\ ticking' = FALSE
  /\ UNCHANGED <<worlds, next_id, lock, guard, workerVars>>

\* The scope joins every worker.
TickAllReturns ==
  /\ ticking
  /\ \A w \in Workers : pc[w] = "next" /\ chunk[w] = {}
  /\ ticking' = FALSE
  /\ UNCHANGED <<worlds, next_id, lock, guard, workerVars>>

Registration == RegisterNewWorld \/ Shutdown
                \/ \E id \in WorldIds : RegisterWorld(id) \/ UnregisterWorld(id)

Lending == \E c \in Callers, id \in WorldIds : LockWorld(c, id)

GivingBack == \E c \in Callers : Unlock(c)

Submission == \E id \in WorldIds, cmd \in Cmds : Submit(id, cmd)

Work(w) == Enter(w) \/ RunSchedule(w) \/ Record(w)

INext == \/ Registration \/ Lending \/ GivingBack \/ Submission
         \/ TickAll \/ (\E w \in Workers : Work(w)) \/ TickAllReturns

ISpec == IInit /\ [][INext]_ivars

----------------------------------------------------------------------------
(* Properties *)

Log == Seq([cmd : Cmds, at : Nat])

Entry == [queue : Seq(Cmds), ticks : Nat, accepted : Log, ran : Log]

ITypeOK ==
  /\ Registered \subseteq WorldIds
  /\ worlds \in [Registered -> Entry]
  /\ next_id \in Nat
  /\ lock \in Callers \cup Workers \cup {Free}
  /\ guard \in [Callers -> WorldIds \cup {NoWorld}]
  /\ ticking \in BOOLEAN
  /\ chunk \in [Workers -> SUBSET WorldIds]
  /\ pc \in [Workers -> {"next", "run", "record"}]
  /\ want \in [Workers -> WorldIds \cup {NoWorld}]
  /\ results \subseteq WorldIds

\* The world a thread is working in.
Inside(t) == IF t \in Callers THEN guard[t] ELSE IF pc[t] = "run" THEN want[t] ELSE NoWorld

\* Two threads are never in a world at once, be it the same or another, and a
\* thread that is in a world finds it registered: the unreachable! of
\* InstanceWorldGuard (scheduler.rs:165-193) is one.
OneInside ==
  /\ \A t, u \in Callers \cup Workers : Inside(t) # NoWorld /\ Inside(u) # NoWorld => t = u
  /\ \A t \in Callers \cup Workers : Inside(t) # NoWorld => Inside(t) \in Registered

\* Every accepted command is executed once, in the order of acceptance, at the
\* start of the first tick after it; what waits was accepted since the last
\* tick (scheduler.rs:283-286, 353-363).
CommandsNextTick ==
  \A id \in Registered :
    LET e == worlds[id] IN e.accepted = e.ran \o Stamp(e.queue, e.ticks)

\* The worlds a round has still to tick.
Remaining == (UNION {chunk[w] : w \in Workers})
             \cup {want[w] : w \in {v \in Workers : pc[v] = "run"}}

R == INSTANCE Rounds WITH
       Ids <- WorldIds,
       members <- Registered,
       open <- ticking,
       late <- Remaining,
       stats <- IF ticking THEN {} ELSE results

\* tick_all is a round: every registered world exactly once, and all of them
\* in the statistics it returns (scheduler.rs:295-342).
ImplementsRounds == R!Spec
=============================================================================
