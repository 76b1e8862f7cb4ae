--------------------------- MODULE ServerLoopProofs ---------------------------
(***************************************************************************)
(* Proofs about the scheduler of the instance worlds, for any number of    *)
(* worlds, workers, callers and commands, in both thread modes: types,     *)
(* mutual exclusion, what becomes of an accepted command, and that         *)
(* tick_all implements a round.  They hold of the scheduler by itself      *)
(* (ISpec) and within the main loop (SSpec).  The inductive invariant says *)
(* who holds the mutex (Holder), that a guard and a running worker exclude *)
(* a change of the table (Stable), and that the chunks, the worlds being   *)
(* ticked and the results share out the registered worlds (Shared).        *)
(***************************************************************************)
EXTENDS ServerLoop, SequenceTheorems, WellFoundedInduction, TLAPS

Holder ==
  /\ \A c \in Callers : lock = c <=> guard[c] # NoWorld
  /\ \A w \in Workers : lock = w <=> pc[w] = "run"

Stable ==
  /\ \A c \in Callers : guard[c] # NoWorld => ~ticking /\ guard[c] \in Registered
  /\ \A w \in Workers : pc[w] # "next" => ticking /\ want[w] \in Registered
  /\ ~ticking => \A w \in Workers : chunk[w] = {}

Shared ==
  ticking =>
    /\ results \subseteq Registered
    /\ \A w \in Workers : chunk[w] \subseteq Registered
    /\ \A v, w \in Workers : v # w => chunk[v] \cap chunk[w] = {}
    /\ \A v, w \in Workers : pc[v] = "run" => want[v] \notin chunk[w]
    /\ \A id \in Registered :
         \/ id \in results
         \/ \E w \in Workers : id \in chunk[w]
         \/ \E w \in Workers : pc[w] # "next" /\ want[w] = id

IInv == ITypeOK /\ Holder /\ Stable /\ Shared

----------------------------------------------------------------------------
(* The chunks of a round *)

\* Either mode gives each id of a round to exactly one worker
\* (scheduler.rs:369-384).
LEMMA DistributeParts ==
  ASSUME NEW ids, ids \subseteq Nat, NEW c \in Distribute(ids)
  PROVE  /\ c \in [Workers -> SUBSET ids]
         /\ \A v, w \in Workers : v # w => c[v] \cap c[w] = {}
         /\ \A id \in ids : \E w \in Workers : id \in c[w]
<1>1. \A n \in Nat : n % N \in Workers
  BY SchedulerAssumption DEF Workers
<1>2. CASE Mode = "BoundToWorld"
  <2>1. c = [w \in Workers |-> {id \in ids : id % N = w}]
    BY <1>2 DEF Distribute
  <2> QED BY <1>1, <2>1
<1>3. CASE Mode # "BoundToWorld"
  <2>1. PICK order \in Bijection(0 .. Cardinality(ids) - 1, ids) :
          c = [w \in Workers |-> {order[i] : i \in {j \in DOMAIN order : j % N = w}}]
    BY <1>3 DEF Distribute
  <2>2. /\ order \in [0 .. Cardinality(ids) - 1 -> ids]
        /\ \A i, j \in DOMAIN order : order[i] = order[j] => i = j
        /\ \A id \in ids : \E i \in DOMAIN order : order[i] = id
    BY DEF Bijection, Injection, Surjection, IsInjective
  <2>3. \A i \in DOMAIN order : i \in Nat /\ order[i] \in ids
    BY <2>2
  <2>4. c \in [Workers -> SUBSET ids]
    BY <2>1, <2>3
  <2>5. ASSUME NEW v \in Workers, NEW w \in Workers, NEW id, id \in c[v], id \in c[w]
        PROVE  v = w
    <3>1. PICK i \in DOMAIN order : i % N = v /\ id = order[i]
      BY <2>1, <2>5
    <3>2. PICK j \in DOMAIN order : j % N = w /\ id = order[j]
      BY <2>1, <2>5
    <3> QED BY <2>2, <3>1, <3>2
  <2>6. ASSUME NEW id \in ids
        PROVE  \E w \in Workers : id \in c[w]
    <3>1. PICK i \in DOMAIN order : order[i] = id
      BY <2>2
    <3>2. i % N \in Workers
      BY <1>1, <2>3
    <3> QED BY <2>1, <3>1, <3>2
  <2> QED BY <2>4, <2>5, <2>6
<1> QED BY <1>2, <1>3
----------------------------------------------------------------------------
(* The table of worlds *)

\* Stamping commands gives a log.
LEMMA StampType ==
  ASSUME NEW q \in Seq(Cmds), NEW t \in Nat
  PROVE  Stamp(q, t) \in Log
<1> DEFINE E == [cmd : Cmds, at : Nat]
<1>1. q \in [1 .. Len(q) -> Cmds] /\ Len(q) \in Nat
  BY LenProperties
<1>2. Stamp(q, t) \in [1 .. Len(q) -> E]
  BY <1>1 DEF Stamp
<1>3. Log = UNION {[1 .. n -> E] : n \in Nat}
  BY SeqDef, Zenon DEF Log
<1> HIDE DEF E
<1> QED BY <1>1, <1>2, <1>3, Zenon

\* Logs are joined in any grouping.
LEMMA LogAssociative ==
  ASSUME NEW r \in Log, NEW s \in Log, NEW t \in Log
  PROVE  (r \o s) \o t = r \o (s \o t)
<1> DEFINE E == [cmd : Cmds, at : Nat]
<1>1. r \in Seq(E) /\ s \in Seq(E) /\ t \in Seq(E)
  BY DEF Log
<1> HIDE DEF E
<1> QED BY <1>1, ConcatAssociative

\* What submit notes and what drain executes are the same log: one more command
\* adds one entry.
LEMMA StampLog ==
  ASSUME NEW q \in Seq(Cmds), NEW c \in Cmds, NEW t \in Nat
  PROVE  /\ Stamp(<<c>>, t) \in Log
         /\ Stamp(Append(q, c), t) = Stamp(q, t) \o Stamp(<<c>>, t)
<1>1. Stamp(<<c>>, t) = <<[cmd |-> c, at |-> t]>>
  BY DEF Stamp
<1>2. Stamp(<<c>>, t) \in Log
  <2>1. <<c>> \in Seq(Cmds)
    OBVIOUS
  <2> QED BY <2>1, StampType
<1>3. Stamp(q, t) \in Log
  BY StampType
<1>4. Stamp(Append(q, c), t) = Append(Stamp(q, t), [cmd |-> c, at |-> t])
  <2>1. /\ Append(q, c) \in Seq(Cmds) /\ Len(Append(q, c)) = Len(q) + 1
        /\ \A i \in 1 .. Len(q) : Append(q, c)[i] = q[i]
        /\ Append(q, c)[Len(q) + 1] = c
    BY AppendProperties
  <2>2. /\ \A i \in 1 .. Len(q) : Stamp(q, t)[i] = [cmd |-> q[i], at |-> t]
        /\ Len(Stamp(q, t)) = Len(q)
    BY <1>3 DEF Stamp, Log
  <2>3. Stamp(Append(q, c), t) \in Log
    BY <2>1, StampType
  <2>4. /\ \A i \in 1 .. Len(q) + 1 : Stamp(Append(q, c), t)[i] = [cmd |-> Append(q, c)[i], at |-> t]
        /\ Len(Stamp(Append(q, c), t)) = Len(q) + 1
    BY <2>1, <2>3 DEF Stamp, Log
  <2>5. [cmd |-> c, at |-> t] \in [cmd : Cmds, at : Nat]
    OBVIOUS
  <2> QED BY <1>3, <2>1, <2>2, <2>3, <2>4, <2>5, SeqEqual, AppendProperties DEF Log
<1>5. \A s \in Log, e \in [cmd : Cmds, at : Nat] : Append(s, e) = s \o <<e>>
  BY AppendIsConcat DEF Log
<1> QED BY <1>1, <1>2, <1>3, <1>4, <1>5

\* The log of an entry: what was executed, then what waits.
Logged(e) == e.accepted = e.ran \o Stamp(e.queue, e.ticks)

\* A fresh entry is well-formed (scheduler.rs:237-245).
LEMMA NewEntryLogged == NewEntry \in Entry /\ Logged(NewEntry)
<1>1. NewEntry \in Entry
  BY DEF NewEntry, Entry, Log
<1>2. Stamp(<<>>, 0) = <<>>
  BY DEF Stamp
<1>3. Logged(NewEntry)
  BY <1>2 DEF NewEntry, Logged
<1> QED BY <1>1, <1>3

\* An accepted command waits at the end of the log (scheduler.rs:287-293).
LEMMA PushedLogged ==
  ASSUME NEW e \in Entry, NEW c \in Cmds
  PROVE  Pushed(e, c) \in Entry /\ (Logged(e) => Logged(Pushed(e, c)))
<1>1. /\ e.queue \in Seq(Cmds) /\ e.ticks \in Nat /\ e.accepted \in Log /\ e.ran \in Log
  BY DEF Entry
<1>2. /\ Stamp(e.queue, e.ticks) \in Log /\ Stamp(<<c>>, e.ticks) \in Log
      /\ Stamp(Append(e.queue, c), e.ticks) = Stamp(e.queue, e.ticks) \o Stamp(<<c>>, e.ticks)
  BY <1>1, StampType, StampLog
<1>3. Append(e.queue, c) \in Seq(Cmds)
  BY <1>1
<1>4. e.accepted \o Stamp(<<c>>, e.ticks) \in Log
  BY <1>1, <1>2 DEF Log
<1>5. Pushed(e, c) \in Entry
  BY <1>1, <1>3, <1>4 DEF Pushed, Entry
<1> DEFINE s == Stamp(e.queue, e.ticks)
           t == Stamp(<<c>>, e.ticks)
<1>6. (e.ran \o s) \o t = e.ran \o (s \o t)
  BY <1>1, <1>2, LogAssociative
<1>7. /\ Pushed(e, c).accepted = e.accepted \o Stamp(<<c>>, e.ticks)
      /\ Pushed(e, c).ran = e.ran /\ Pushed(e, c).ticks = e.ticks
      /\ Pushed(e, c).queue = Append(e.queue, c)
  BY DEF Pushed
<1>8. ASSUME Logged(e) PROVE Logged(Pushed(e, c))
  <2>1. e.accepted = e.ran \o Stamp(e.queue, e.ticks)
    BY <1>8 DEF Logged
  <2>2. Pushed(e, c).accepted = e.ran \o (s \o t)
    BY <1>6, <1>7, <2>1
  <2> QED BY <1>2, <1>7, <2>2 DEF Logged
<1> QED BY <1>5, <1>8

\* Draining keeps the log whole and leaves nothing of it to be stamped later
\* (scheduler.rs:353-356).
LEMMA DrainedLogged ==
  ASSUME NEW e \in Entry
  PROVE  /\ Drained(e) \in Entry /\ Drained(e).queue = <<>>
         /\ Logged(e) => Logged(Drained(e))
<1>1. /\ e.queue \in Seq(Cmds) /\ e.ticks \in Nat /\ e.accepted \in Log /\ e.ran \in Log
  BY DEF Entry
<1>2. Stamp(e.queue, e.ticks) \in Log
  BY <1>1, StampType
<1>3. e.ran \o Stamp(e.queue, e.ticks) \in Log
  BY <1>1, <1>2 DEF Log
<1>4. Drained(e) \in Entry /\ Drained(e).queue = <<>>
  BY <1>1, <1>3 DEF Drained, Entry
<1>5. \A t : Stamp(<<>>, t) = <<>>
  BY DEF Stamp
<1>6. \A s \in Log : s \o <<>> = s
  BY DEF Log
<1>7. /\ Drained(e).accepted = e.accepted
      /\ Drained(e).ran = e.ran \o Stamp(e.queue, e.ticks)
  BY DEF Drained
<1>8. ASSUME Logged(e) PROVE Logged(Drained(e))
  <2>1. Drained(e).ran \o Stamp(Drained(e).queue, Drained(e).ticks) = Drained(e).ran
    BY <1>3, <1>4, <1>5, <1>6, <1>7
  <2> QED BY <1>7, <1>8, <2>1 DEF Logged
<1> QED BY <1>4, <1>8

\* An empty queue stays logged when the world has ticked (scheduler.rs:357-358).
LEMMA TickedLogged ==
  ASSUME NEW e \in Entry
  PROVE  /\ Ticked(e) \in Entry /\ Ticked(e).queue = e.queue
         /\ e.queue = <<>> /\ Logged(e) => Logged(Ticked(e))
<1>1. Ticked(e) \in Entry
  BY DEF Ticked, Entry
<1>2. /\ Ticked(e).queue = e.queue /\ Ticked(e).ran = e.ran
      /\ Ticked(e).accepted = e.accepted
  BY DEF Ticked, Entry
<1>3. \A t : Stamp(<<>>, t) = <<>>
  BY DEF Stamp
<1> QED BY <1>1, <1>2, <1>3 DEF Logged

\* Whatever a &mut method does to the table, no thread is in it.
LEMMA TableKeeps ==
  ASSUME IInv, Exclusive,
         DOMAIN worlds' \subseteq WorldIds,
         worlds' \in [DOMAIN worlds' -> Entry],
         next_id' \in Nat,
         UNCHANGED <<lock, guard, ticking, workerVars>>
  PROVE  IInv'
<1>1. ITypeOK'
  BY DEF IInv, ITypeOK, Registered, workerVars
<1>2. Holder'
  BY DEF IInv, Holder, workerVars
<1>3. Stable'
  BY DEF IInv, Stable, Exclusive, Borrowed, workerVars
<1>4. Shared'
  BY DEF Shared, Exclusive
<1> QED BY <1>1, <1>2, <1>3, <1>4 DEF IInv

\* An entry that is replaced by a well-formed one changes nothing else.
LEMMA EntryKeeps ==
  ASSUME ITypeOK, NEW id \in Registered, NEW e \in Entry,
         worlds' = [worlds EXCEPT ![id] = e]
  PROVE  Registered' = Registered /\ worlds' \in [Registered -> Entry]
  BY DEF ITypeOK, Registered
----------------------------------------------------------------------------
(* The invariant *)

\* While the schedule of a world runs, nothing waits for it.
Emptied == \A w \in Workers : pc[w] = "run" => worlds[want[w]].queue = <<>>

Inv == IInv /\ CommandsNextTick /\ Emptied

\* Outside of a round nobody runs a schedule.
LEMMA IdleEmptied ==
  ASSUME Stable', ~ticking'
  PROVE  Emptied'
  BY DEF Stable, Emptied

\* A new scheduler knows no world and nobody is inside.
LEMMA InitInv == IInit => Inv
<1> SUFFICES ASSUME IInit PROVE Inv
  OBVIOUS
<1>1. Registered = {}
  BY DEF IInit, Registered
<1>2. ITypeOK
  <2>1. worlds \in [Registered -> Entry]
    BY <1>1 DEF IInit, Registered
  <2>2. /\ guard \in [Callers -> WorldIds \cup {NoWorld}]
        /\ chunk \in [Workers -> SUBSET WorldIds]
        /\ pc \in [Workers -> {"next", "run", "record"}]
        /\ want \in [Workers -> WorldIds \cup {NoWorld}]
    BY DEF IInit
  <2>3. /\ next_id \in Nat /\ lock \in Callers \cup Workers \cup {Free}
        /\ ticking \in BOOLEAN /\ results \subseteq WorldIds
    BY DEF IInit
  <2> QED BY <1>1, <2>1, <2>2, <2>3 DEF ITypeOK
<1>3. Holder
  <2>1. /\ \A c \in Callers : lock # c /\ guard[c] = NoWorld
        /\ \A w \in Workers : lock # w /\ pc[w] = "next"
    BY SchedulerAssumption DEF IInit
  <2> QED BY <2>1 DEF Holder
<1>4. Stable /\ Shared /\ Emptied
  BY DEF IInit, Stable, Shared, Emptied
<1>5. CommandsNextTick
  BY <1>1 DEF CommandsNextTick
<1> QED BY <1>2, <1>3, <1>4, <1>5 DEF Inv, IInv

\* Registration changes the table while nobody is in it, and a new entry has an
\* empty log (scheduler.rs:214-254, 347-349).
LEMMA RegistrationKeeps ==
  ASSUME Inv, Registration
  PROVE  Inv'
<1> USE DEF Inv, IInv
<1>0. ASSUME IInv', CommandsNextTick'
      PROVE  Inv'
  <2>1. ~ticking'
    BY DEF Registration, RegisterNewWorld, Shutdown, RegisterWorld, UnregisterWorld, Exclusive
  <2>2. Emptied'
    BY <1>0, <2>1, IdleEmptied
  <2> QED BY <1>0, <2>2
<1>1. ASSUME NEW id \in WorldIds, Insert(id)
      PROVE  /\ DOMAIN worlds' \subseteq WorldIds
             /\ worlds' \in [DOMAIN worlds' -> Entry]
             /\ CommandsNextTick'
  <2>1. /\ DOMAIN worlds' = Registered \cup {id}
        /\ \A i \in DOMAIN worlds' : worlds'[i] = IF i = id THEN NewEntry ELSE worlds[i]
    BY <1>1 DEF Insert
  <2>2. worlds' \in [DOMAIN worlds' -> Entry]
    BY <1>1, <2>1, NewEntryLogged DEF Insert, ITypeOK
  <2>3. \A i \in DOMAIN worlds' : Logged(worlds'[i])
    BY <2>1, NewEntryLogged DEF CommandsNextTick, Logged, Registered
  <2> QED BY <2>1, <2>2, <2>3 DEF ITypeOK, CommandsNextTick, Logged, Registered
<1>2. CASE RegisterNewWorld
  <2>1. next_id' \in Nat /\ next_id \in WorldIds
    BY <1>2 DEF RegisterNewWorld, ITypeOK
  <2>2. CASE next_id \in Registered
    <3>1. worlds' = worlds
      BY <1>2, <2>2 DEF RegisterNewWorld
    <3>2. CommandsNextTick'
      BY <3>1 DEF CommandsNextTick, Registered
    <3> QED BY <1>0, <1>2, <2>1, <3>1, <3>2, TableKeeps DEF RegisterNewWorld, ITypeOK, Registered
  <2>3. CASE next_id \notin Registered
    <3>1. Insert(next_id)
      BY <1>2, <2>3 DEF RegisterNewWorld
    <3> QED BY <1>0, <1>1, <1>2, <2>1, <3>1, TableKeeps DEF RegisterNewWorld
  <2> QED BY <2>2, <2>3
<1>3. CASE Shutdown
  <2>1. worlds' = <<>> /\ DOMAIN worlds' = {} /\ next_id' \in Nat
    BY <1>3 DEF Shutdown, ITypeOK
  <2>2. CommandsNextTick'
    BY <2>1 DEF CommandsNextTick, Registered
  <2>3. worlds' \in [DOMAIN worlds' -> Entry]
    BY <2>1
  <2> QED BY <1>0, <1>3, <2>1, <2>2, <2>3, TableKeeps DEF Shutdown
<1>4. ASSUME NEW id \in WorldIds, RegisterWorld(id)
      PROVE  Inv'
  <2>1. Insert(id) /\ next_id' \in Nat
    BY <1>4 DEF RegisterWorld, ITypeOK
  <2> QED BY <1>0, <1>1, <1>4, <2>1, TableKeeps DEF RegisterWorld
<1>5. ASSUME NEW id \in WorldIds, UnregisterWorld(id)
      PROVE  Inv'
  <2>1. /\ worlds' = [i \in Registered \ {id} |-> worlds[i]]
        /\ DOMAIN worlds' = Registered \ {id} /\ next_id' \in Nat
    BY <1>5 DEF UnregisterWorld, ITypeOK
  <2>2. worlds' \in [DOMAIN worlds' -> Entry]
    BY <2>1 DEF ITypeOK
  <2>3. CommandsNextTick'
    BY <2>1 DEF CommandsNextTick, Registered
  <2>4. DOMAIN worlds' \subseteq WorldIds
    BY <2>1 DEF ITypeOK
  <2> QED BY <1>0, <1>5, <2>1, <2>2, <2>3, <2>4, TableKeeps DEF UnregisterWorld
<1> QED BY <1>2, <1>3, <1>4, <1>5 DEF Registration

\* A guard is taken of a registered world and with the mutex, and given back
\* with it (scheduler.rs:158-193, 260-281).
LEMMA CallsKeep ==
  ASSUME Inv, Lending \/ GivingBack
  PROVE  Inv'
<1> USE DEF Inv, IInv
<1>1. ASSUME NEW c \in Callers, NEW id \in WorldIds, LockWorld(c, id)
      PROVE  Inv'
  <2>1. ITypeOK' /\ CommandsNextTick'
    BY <1>1 DEF LockWorld, ITypeOK, workerVars, CommandsNextTick, Registered
  <2>2. Holder'
    BY <1>1, SchedulerAssumption DEF LockWorld, Holder, ITypeOK, workerVars
  <2>3. Stable' /\ Shared'
    BY <1>1 DEF LockWorld, Stable, Shared, ITypeOK, workerVars, Registered
  <2>4. Emptied'
    BY <1>1 DEF LockWorld, Emptied, workerVars
  <2> QED BY <2>1, <2>2, <2>3, <2>4
<1>2. ASSUME NEW c \in Callers, Unlock(c)
      PROVE  Inv'
  <2>1. ITypeOK' /\ CommandsNextTick'
    BY <1>2 DEF Unlock, ITypeOK, workerVars, CommandsNextTick, Registered
  <2>2. lock = c
    BY <1>2 DEF Unlock, Holder
  <2>3. Holder'
    BY <1>2, <2>2, SchedulerAssumption DEF Unlock, Holder, ITypeOK, workerVars
  <2>4. Stable' /\ Shared'
    BY <1>2, SchedulerAssumption DEF Unlock, Stable, Shared, ITypeOK, workerVars, Registered
  <2>5. Emptied'
    BY <1>2 DEF Unlock, Emptied, workerVars
  <2> QED BY <2>1, <2>3, <2>4, <2>5
<1> QED BY <1>1, <1>2 DEF Lending, GivingBack
\* A command is added to a queue only between rounds (scheduler.rs:287-293).
LEMMA SubmissionKeeps ==
  ASSUME Inv, Submission
  PROVE  Inv'
<1> USE DEF Inv, IInv
<1>1. PICK id \in WorldIds, cmd \in Cmds : Submit(id, cmd)
  BY DEF Submission
<1>2. /\ worlds[id] \in Entry /\ Logged(worlds[id]) /\ id \in Registered
  BY <1>1 DEF Submit, ITypeOK, CommandsNextTick, Logged, Registered
<1>3. Pushed(worlds[id], cmd) \in Entry /\ Logged(Pushed(worlds[id], cmd))
  BY <1>2, PushedLogged
<1>4. worlds' = [worlds EXCEPT ![id] = Pushed(worlds[id], cmd)]
  BY <1>1 DEF Submit
<1>5. Registered' = Registered /\ worlds' \in [Registered -> Entry]
  BY <1>2, <1>3, <1>4, EntryKeeps
<1>6. ITypeOK'
  BY <1>1, <1>5 DEF Submit, ITypeOK, workerVars
<1>7. CommandsNextTick'
  <2>1. \A i \in Registered : Logged(worlds'[i])
    BY <1>2, <1>3, <1>4 DEF CommandsNextTick, Logged, Registered
  <2> QED BY <1>5, <2>1 DEF CommandsNextTick, Logged
<1>8. Holder' /\ Stable' /\ Shared'
  BY <1>1, <1>5 DEF Submit, Holder, Stable, Shared, workerVars
<1>9. Emptied'
  BY <1>1, <1>8, IdleEmptied DEF Submit
<1> QED BY <1>6, <1>7, <1>8, <1>9

\* A round begins with every registered world in one chunk
\* (scheduler.rs:300-311).
LEMMA TickAllKeeps ==
  ASSUME Inv, TickAll
  PROVE  Inv'
<1> USE DEF Inv, IInv
<1>1. Registered \subseteq Nat
  BY SchedulerAssumption DEF ITypeOK
<1>2. /\ chunk' \in [Workers -> SUBSET Registered]
      /\ \A v, w \in Workers : v # w => chunk'[v] \cap chunk'[w] = {}
      /\ \A id \in Registered : \E w \in Workers : id \in chunk'[w]
  BY <1>1, DistributeParts DEF TickAll
<1>3. Registered' = Registered
  BY DEF TickAll, Registered
<1>4. ITypeOK' /\ CommandsNextTick'
  BY <1>2, <1>3 DEF TickAll, ITypeOK, CommandsNextTick
<1>5. \A w \in Workers : pc[w] = "next" /\ pc'[w] = "next"
  BY DEF TickAll, Exclusive, Stable
<1>6. Holder'
  BY DEF TickAll, Holder
<1>7. Stable'
  BY <1>3, <1>5 DEF TickAll, Stable, Exclusive, Borrowed
<1>8. Shared'
  BY <1>2, <1>3, <1>5 DEF TickAll, Shared
<1>9. Emptied'
  BY <1>5 DEF Emptied
<1> QED BY <1>4, <1>6, <1>7, <1>8, <1>9

\* A worker enters a world of its chunk, which no other worker has
\* (scheduler.rs:319-331, 353-356).
LEMMA EnterKeeps ==
  ASSUME Inv, NEW w \in Workers, Enter(w)
  PROVE  Inv'
<1> USE DEF Inv, IInv
<1>1. PICK id \in chunk[w] :
        /\ chunk' = [chunk EXCEPT ![w] = chunk[w] \ {id}]
        /\ id \in Registered =>
             /\ lock' = w
             /\ want' = [want EXCEPT ![w] = id]
             /\ worlds' = [worlds EXCEPT ![id] = Drained(worlds[id])]
             /\ pc' = [pc EXCEPT ![w] = "run"]
  BY DEF Enter
<1>2. id \in Registered /\ id \in WorldIds
  BY <1>1 DEF Enter, Shared, ITypeOK
<1>3. /\ ticking /\ ticking' = ticking /\ lock = Free /\ pc[w] = "next"
      /\ guard' = guard /\ next_id' = next_id /\ results' = results
  BY DEF Enter
<1>4. worlds[id] \in Entry /\ Logged(worlds[id])
  BY <1>2 DEF ITypeOK, CommandsNextTick, Logged
<1>5. Registered' = Registered /\ worlds' \in [Registered -> Entry]
  BY <1>1, <1>2, <1>4, DrainedLogged, EntryKeeps
<1>6. ITypeOK'
  BY <1>1, <1>2, <1>3, <1>5 DEF ITypeOK
<1>7. CommandsNextTick'
  <2>1. \A i \in Registered : Logged(worlds'[i])
    BY <1>1, <1>2, <1>4, DrainedLogged DEF CommandsNextTick, Logged, Registered
  <2> QED BY <1>5, <2>1 DEF CommandsNextTick, Logged
<1>8. \A v \in Workers : pc[v] # "run"
  BY <1>3, SchedulerAssumption DEF Holder
<1>9. /\ \A v \in Workers : pc'[v] = IF v = w THEN "run" ELSE pc[v]
      /\ \A v \in Workers : want'[v] = IF v = w THEN id ELSE want[v]
      /\ \A v \in Workers : chunk'[v] = IF v = w THEN chunk[w] \ {id} ELSE chunk[v]
  BY <1>1, <1>2 DEF ITypeOK
<1>10. Holder'
  BY <1>1, <1>2, <1>3, <1>8, <1>9, SchedulerAssumption DEF Holder
<1>11. Stable'
  BY <1>2, <1>3, <1>5, <1>9 DEF Stable
<1>12. Shared'
  BY <1>1, <1>2, <1>3, <1>5, <1>8, <1>9 DEF Shared
<1>13. Emptied'
  BY <1>1, <1>2, <1>4, <1>8, <1>9, DrainedLogged DEF Emptied, ITypeOK
<1> QED BY <1>6, <1>7, <1>10, <1>11, <1>12, <1>13

\* The schedule runs with an empty queue and then the mutex is free
\* (scheduler.rs:357-362).
LEMMA RunScheduleKeeps ==
  ASSUME Inv, NEW w \in Workers, RunSchedule(w)
  PROVE  Inv'
<1> USE DEF Inv, IInv
<1> DEFINE id == want[w]
<1>1. /\ worlds' = [worlds EXCEPT ![id] = Ticked(worlds[id])]
      /\ lock' = Free /\ pc' = [pc EXCEPT ![w] = "record"] /\ pc[w] = "run"
      /\ UNCHANGED <<next_id, guard, ticking, chunk, want, results>>
  BY DEF RunSchedule
<1>2. id \in Registered /\ ticking /\ lock = w
  BY <1>1 DEF Stable, Holder
<1>3. worlds[id] \in Entry /\ Logged(worlds[id]) /\ worlds[id].queue = <<>>
  BY <1>1, <1>2 DEF ITypeOK, CommandsNextTick, Logged, Emptied
<1>4. Registered' = Registered /\ worlds' \in [Registered -> Entry]
  BY <1>1, <1>2, <1>3, TickedLogged, EntryKeeps
<1>5. ITypeOK'
  BY <1>1, <1>4 DEF ITypeOK
<1>6. CommandsNextTick'
  <2>1. \A i \in Registered : Logged(worlds'[i])
    BY <1>1, <1>2, <1>3, TickedLogged DEF CommandsNextTick, Logged, Registered
  <2> QED BY <1>4, <2>1 DEF CommandsNextTick, Logged
<1>7. \A v \in Workers : pc'[v] = IF v = w THEN "record" ELSE pc[v]
  BY <1>1 DEF ITypeOK
<1>8. Holder'
  BY <1>1, <1>2, <1>7, SchedulerAssumption DEF Holder
<1>9. Stable' /\ Shared'
  BY <1>1, <1>2, <1>4, <1>7 DEF Stable, Shared
<1>10. Emptied'
  BY <1>1, <1>2, <1>7, SchedulerAssumption DEF Emptied, Holder
<1> QED BY <1>5, <1>6, <1>8, <1>9, <1>10
\* What a worker has ticked joins the results, and a round returns when nothing
\* is left of it (scheduler.rs:332-342).
LEMMA RecordKeeps ==
  ASSUME Inv, NEW w \in Workers, Record(w)
  PROVE  Inv'
<1> USE DEF Inv, IInv
<1>1. /\ pc[w] = "record" /\ results' = results \cup {want[w]}
      /\ want' = [want EXCEPT ![w] = NoWorld] /\ pc' = [pc EXCEPT ![w] = "next"]
      /\ UNCHANGED <<worlds, next_id, lock, guard, ticking, chunk>>
  BY DEF Record
<1>2. want[w] \in Registered /\ want[w] \in WorldIds
  BY <1>1 DEF Stable, ITypeOK
<1>3. /\ \A v \in Workers : pc'[v] = IF v = w THEN "next" ELSE pc[v]
      /\ \A v \in Workers : want'[v] = IF v = w THEN NoWorld ELSE want[v]
  BY <1>1 DEF ITypeOK
<1>4. ITypeOK' /\ CommandsNextTick'
  BY <1>1, <1>2 DEF ITypeOK, CommandsNextTick, Registered
<1>5. Holder'
  BY <1>1, <1>3 DEF Holder
<1>6. Stable'
  BY <1>1, <1>3 DEF Stable, Registered
<1>7. Shared'
  BY <1>1, <1>2, <1>3 DEF Shared, Registered
<1>8. Emptied'
  BY <1>1, <1>3 DEF Emptied
<1> QED BY <1>4, <1>5, <1>6, <1>7, <1>8

\* A round that is over leaves nobody in the table (scheduler.rs:336-342).
LEMMA TickAllReturnsKeeps ==
  ASSUME Inv, TickAllReturns
  PROVE  Inv'
<1> USE DEF Inv, IInv, TickAllReturns, workerVars
<1>1. ITypeOK' /\ CommandsNextTick'
  BY DEF ITypeOK, CommandsNextTick, Registered
<1>2. Holder' /\ Emptied'
  BY DEF Holder, Emptied
<1>3. Stable' /\ Shared'
  BY DEF Stable, Shared, Registered
<1> QED BY <1>1, <1>2, <1>3

\* Every step of the scheduler preserves the inductive invariant.
LEMMA NextInv == Inv /\ [INext]_ivars => Inv'
<1> SUFFICES ASSUME Inv, [INext]_ivars PROVE Inv'
  OBVIOUS
<1>1. CASE Registration
  BY <1>1, RegistrationKeeps
<1>2. CASE Lending \/ GivingBack
  BY <1>2, CallsKeep
<1>3. CASE Submission
  BY <1>3, SubmissionKeeps
<1>4. CASE TickAll
  BY <1>4, TickAllKeeps
<1>5. CASE \E w \in Workers : Work(w)
  BY <1>5, EnterKeeps, RunScheduleKeeps, RecordKeeps DEF Work
<1>6. CASE TickAllReturns
  BY <1>6, TickAllReturnsKeeps
<1>7. CASE UNCHANGED ivars
  BY <1>7 DEF ivars, workerVars, Inv, IInv, ITypeOK, Holder, Stable, Shared, CommandsNextTick,
     Emptied, Registered
<1> QED BY <1>1, <1>2, <1>3, <1>4, <1>5, <1>6, <1>7 DEF INext

\* The main loop only does to the scheduler what the scheduler allows
\* (lib.rs:109-142).
THEOREM LoopUsesScheduler == SSpec => ISpec
<1>1. SInit => IInit
  BY DEF SInit
<1>2. SNext => INext \/ UNCHANGED ivars
  BY DEF SNext, UpdateBegins, RunTasks, Systems, SetUp, Sharing, GiveBack, RoundBegins,
     RoundWork, RoundEnds, Stop, Stopped, svars, INext
<1>3. UNCHANGED svars => UNCHANGED ivars
  BY DEF svars
<1>4. [SNext]_svars => [INext]_ivars
  BY <1>2, <1>3
<1> QED BY <1>1, <1>4, PTL DEF SSpec, ISpec

\* The inductive invariant holds of every run of the scheduler.
LEMMA InvariantHolds == ISpec => []Inv
  BY InitInv, NextInv, PTL DEF ISpec

\* At most one thread is in any world, through a guard or a worker, and what it
\* is in stays registered: the unreachable! of InstanceWorldGuard is one
\* (scheduler.rs:158-193, 319-331).
THEOREM MutualExclusion == (ISpec => []OneInside) /\ (SSpec => []OneInside)
<1>1. Inv => OneInside
  <2> SUFFICES ASSUME Inv PROVE OneInside
    OBVIOUS
  <2>1. ASSUME NEW t \in Callers \cup Workers, Inside(t) # NoWorld
        PROVE  lock = t /\ Inside(t) \in Registered
    <3>1. CASE t \in Callers
      BY <2>1, <3>1 DEF Inv, IInv, Inside, Holder, Stable
    <3>2. CASE t \notin Callers
      <4>1. t \in Workers /\ pc[t] = "run" /\ Inside(t) = want[t]
        BY <2>1, <3>2 DEF Inside
      <4> QED BY <4>1 DEF Inv, IInv, Holder, Stable
    <3> QED BY <3>1, <3>2
  <2> QED BY <2>1 DEF OneInside
<1> QED BY <1>1, InvariantHolds, LoopUsesScheduler, PTL

\* Every accepted command is executed once, in order and in the first tick after
\* it was accepted (scheduler.rs:283-293, 353-363).
THEOREM CommandsExecuted == (ISpec => []CommandsNextTick) /\ (SSpec => []CommandsNextTick)
<1>1. Inv => CommandsNextTick
  BY DEF Inv
<1> QED BY <1>1, InvariantHolds, LoopUsesScheduler, PTL
----------------------------------------------------------------------------
(* tick_all is a round *)

\* Outside of a round nothing remains to be ticked.
LEMMA IdleRemaining ==
  ASSUME Stable, ~ticking
  PROVE  Remaining = {}
<1>1. \A w \in Workers : chunk[w] = {} /\ pc[w] # "run"
  BY DEF Stable
<1> QED BY <1>1 DEF Remaining

\* A new scheduler is a new set of members.
LEMMA InitRound == IInit => R!Init
<1> SUFFICES ASSUME IInit PROVE R!Init
  OBVIOUS
<1>1. Registered = {} /\ ~ticking /\ results = {}
  BY DEF IInit, Registered
<1>2. Remaining = {}
  BY DEF IInit, Remaining
<1> QED BY <1>1, <1>2 DEF R!Init, IInit

\* A change of the table is a change of the members.
LEMMA RegistrationRound ==
  ASSUME Inv, Inv', Registration
  PROVE  R!Change
<1>1. ~ticking /\ ticking' = ticking /\ results' = results
  BY DEF Registration, RegisterNewWorld, Shutdown, RegisterWorld, UnregisterWorld,
     Exclusive, workerVars
<1>2. Remaining = {} /\ Remaining' = {}
  <2>1. Stable /\ Stable'
    BY DEF Inv, IInv
  <2>2. \A w \in Workers : chunk'[w] = {} /\ pc'[w] # "run"
    BY <1>1, <2>1 DEF Stable
  <2> QED BY <1>1, <2>1, <2>2, IdleRemaining DEF Remaining
<1>3. Registered' \in SUBSET WorldIds
  BY DEF Inv, IInv, ITypeOK
<1> QED BY <1>1, <1>2, <1>3 DEF R!Change

\* Guards, submissions and records are not seen.
LEMMA CallsRound ==
  ASSUME Inv, Lending \/ GivingBack \/ Submission
  PROVE  UNCHANGED R!vars
<1>1. UNCHANGED <<ticking, chunk, pc, want, results>>
  BY DEF Lending, GivingBack, Submission, LockWorld, Unlock, Submit, workerVars
<1>2. Registered' = Registered
  <2>1. CASE Lending \/ GivingBack
    BY <2>1 DEF Lending, GivingBack, LockWorld, Unlock, Registered
  <2>2. CASE Submission
    BY <2>2 DEF Submission, Submit, Registered, Inv, IInv, ITypeOK
  <2> QED BY <2>1, <2>2
<1>3. Remaining' = Remaining
  BY <1>1 DEF Remaining
<1> QED BY <1>1, <1>2, <1>3 DEF R!vars

\* A round begins with the registered worlds as those that remain.
LEMMA TickAllRound ==
  ASSUME Inv, TickAll
  PROVE  R!Begin
<1>1. Registered' = Registered /\ ~ticking /\ ticking'
  BY DEF TickAll, Registered, Exclusive
<1>2. Registered \subseteq Nat
  BY SchedulerAssumption DEF Inv, IInv, ITypeOK
<1>3. /\ chunk' \in [Workers -> SUBSET Registered]
      /\ \A id \in Registered : \E w \in Workers : id \in chunk'[w]
  BY <1>2, DistributeParts DEF TickAll
<1>4. \A w \in Workers : pc'[w] # "run"
  BY DEF TickAll, Inv, IInv, Stable, Exclusive
<1>5. Remaining' = Registered
  BY <1>3, <1>4 DEF Remaining
<1>6. ticking' = TRUE
  BY DEF TickAll
<1> QED BY <1>1, <1>5, <1>6 DEF R!Begin

\* A world stays late until its schedule has run.
LEMMA EnterRound ==
  ASSUME Inv, NEW w \in Workers, Enter(w)
  PROVE  UNCHANGED R!vars
<1>1. PICK id \in chunk[w] :
        /\ chunk' = [chunk EXCEPT ![w] = chunk[w] \ {id}]
        /\ id \in Registered =>
             /\ lock' = w
             /\ want' = [want EXCEPT ![w] = id]
             /\ worlds' = [worlds EXCEPT ![id] = Drained(worlds[id])]
             /\ pc' = [pc EXCEPT ![w] = "run"]
  BY DEF Enter
<1>2. id \in Registered
  BY <1>1 DEF Enter, Inv, IInv, Shared
<1>3. lock = Free /\ ticking' = ticking /\ results' = results
  BY DEF Enter
<1>4. \A v \in Workers : pc[v] # "run"
  BY <1>3, SchedulerAssumption DEF Inv, IInv, Holder
<1>5. /\ \A v \in Workers : pc'[v] = IF v = w THEN "run" ELSE pc[v]
      /\ \A v \in Workers : want'[v] = IF v = w THEN id ELSE want[v]
      /\ \A v \in Workers : chunk'[v] = IF v = w THEN chunk[w] \ {id} ELSE chunk[v]
  BY <1>1, <1>2 DEF Inv, IInv, ITypeOK
<1>6. Registered' = Registered
  BY <1>1, <1>2 DEF Inv, IInv, ITypeOK, Registered
<1>7. Remaining = UNION {chunk[v] : v \in Workers}
  BY <1>4 DEF Remaining
<1>8. Remaining' = (UNION {chunk'[v] : v \in Workers}) \cup {id}
  BY <1>4, <1>5 DEF Remaining
<1>9. (UNION {chunk'[v] : v \in Workers}) \cup {id} = UNION {chunk[v] : v \in Workers}
  BY <1>1, <1>5
<1> QED BY <1>3, <1>6, <1>7, <1>8, <1>9 DEF R!vars

\* Running the schedule ticks one of the worlds that remain.
LEMMA RunScheduleRound ==
  ASSUME Inv, NEW w \in Workers, RunSchedule(w)
  PROVE  \E id \in WorldIds : R!Tick(id)
<1>1. /\ pc[w] = "run" /\ pc' = [pc EXCEPT ![w] = "record"]
      /\ UNCHANGED <<ticking, chunk, want, results>>
      /\ worlds' = [worlds EXCEPT ![want[w]] = Ticked(worlds[want[w]])]
  BY DEF RunSchedule
<1>2. want[w] \in WorldIds /\ want[w] \in Registered /\ ticking
  BY <1>1 DEF Inv, IInv, ITypeOK, Stable
<1>3. Registered' = Registered
  BY <1>1 DEF Inv, IInv, ITypeOK, Registered
<1>4. \A v \in Workers : pc[v] = "run" <=> v = w
  BY <1>1 DEF Inv, IInv, Holder
<1>5. \A v \in Workers : pc'[v] # "run"
  BY <1>1, <1>4 DEF Inv, IInv, ITypeOK
<1>6. \A v \in Workers : want[w] \notin chunk[v]
  BY <1>1, <1>2 DEF Inv, IInv, Shared
<1>7. Remaining = (UNION {chunk[v] : v \in Workers}) \cup {want[w]}
  BY <1>4 DEF Remaining
<1>8. Remaining' = UNION {chunk[v] : v \in Workers}
  BY <1>1, <1>5 DEF Remaining
<1>9. want[w] \in Remaining /\ Remaining' = Remaining \ {want[w]}
  BY <1>6, <1>7, <1>8
<1>10. R!Tick(want[w])
  BY <1>1, <1>2, <1>3, <1>9 DEF R!Tick
<1> QED BY <1>2, <1>10

\* Recording a result ticks nothing.
LEMMA RecordRound ==
  ASSUME Inv, NEW w \in Workers, Record(w)
  PROVE  UNCHANGED R!vars
<1>1. /\ pc[w] = "record" /\ pc' = [pc EXCEPT ![w] = "next"]
      /\ want' = [want EXCEPT ![w] = NoWorld]
      /\ UNCHANGED <<worlds, ticking, chunk>>
  BY DEF Record
<1>2. ticking
  BY <1>1 DEF Inv, IInv, Stable
<1>3. Registered' = Registered
  BY <1>1 DEF Registered
<1>4. \A v \in Workers : (pc'[v] = "run" <=> pc[v] = "run") /\ (pc[v] = "run" => want'[v] = want[v])
  BY <1>1 DEF Inv, IInv, ITypeOK
<1>5. Remaining' = Remaining
  BY <1>1, <1>4 DEF Remaining
<1> QED BY <1>1, <1>2, <1>3, <1>5 DEF R!vars

\* A round returns when no world remains.
LEMMA TickAllReturnsRound ==
  ASSUME Inv, TickAllReturns
  PROVE  R!End
<1>1. /\ ticking /\ ticking' = FALSE
      /\ \A w \in Workers : pc[w] = "next" /\ chunk[w] = {}
      /\ UNCHANGED <<worlds, chunk, pc, want, results>>
  BY DEF TickAllReturns, workerVars
<1>2. Remaining = {} /\ Remaining' = Remaining
  BY <1>1 DEF Remaining
<1>3. Registered' = Registered
  BY <1>1 DEF Registered
<1>4. results = Registered
  BY <1>1 DEF Inv, IInv, Shared
<1> QED BY <1>1, <1>2, <1>3, <1>4 DEF R!End

\* Each round ticks every registered world exactly once, whatever the order of
\* the ids, the mode and the number of workers, and returns the statistics of all
\* of them (scheduler.rs:295-342).
THEOREM TickAllIsRound == (ISpec => ImplementsRounds) /\ (SSpec => ImplementsRounds)
<1>1. Inv /\ Inv' /\ [INext]_ivars => [R!Next]_(R!vars)
  <2> SUFFICES ASSUME Inv, Inv', [INext]_ivars PROVE [R!Next]_(R!vars)
    OBVIOUS
  <2>1. CASE Registration
    BY <2>1, RegistrationRound DEF R!Next
  <2>2. CASE Lending \/ GivingBack \/ Submission
    BY <2>2, CallsRound
  <2>3. CASE TickAll
    BY <2>3, TickAllRound DEF R!Next
  <2>4. ASSUME NEW w \in Workers, Work(w)
        PROVE  [R!Next]_(R!vars)
    BY <2>4, EnterRound, RunScheduleRound, RecordRound DEF Work, R!Next
  <2>5. CASE TickAllReturns
    BY <2>5, TickAllReturnsRound DEF R!Next
  <2>6. CASE UNCHANGED ivars
    BY <2>6 DEF ivars, workerVars, R!vars, Registered, Remaining
  <2> QED BY <2>1, <2>2, <2>3, <2>4, <2>5, <2>6 DEF INext
<1>2. ISpec => R!Spec
  BY <1>1, InitRound, InvariantHolds, PTL DEF ISpec, R!Spec
<1> QED BY <1>2, LoopUsesScheduler, PTL DEF ImplementsRounds
----------------------------------------------------------------------------
(* The tasks *)

\* Every period is one, and none is zero, so a repeated task is due later than it
\* was (scheduler_manager.rs:216-217).
LEMMA TaskInitType == TaskInit => TaskTypeOK
<1> SUFFICES ASSUME TaskInit PROVE TaskTypeOK
  OBVIOUS
<1>1. DOMAIN tasks = {} /\ DOMAIN asked = {}
  BY DEF TaskInit
<1>2. queue \in [Kinds -> SUBSET (Nat \X (0 .. next_task - 1))]
  BY DEF TaskInit
<1> QED BY <1>1, <1>2 DEF TaskInit, TaskTypeOK

\* Inserting a task leaves the heap well-typed.
LEMMA InsertTaskType ==
  ASSUME TaskTypeOK, NEW kind \in Kinds, NEW due \in Nat, NEW period \in Periods \cup {0},
         InsertTask(kind, due, period)
  PROVE  TaskTypeOK'
<1> USE DEF TaskTypeOK
<1>1. /\ next_task' = next_task + 1 /\ 0 .. next_task' - 1 = (0 .. next_task - 1) \cup {next_task}
      /\ counter' = counter /\ current_tick' = current_tick /\ stage' = stage
  BY DEF InsertTask
<1>2. queue' \in [Kinds -> SUBSET (Nat \X (0 .. next_task' - 1))]
  <2>1. \A k \in Kinds : queue'[k] = IF k = kind THEN queue[k] \cup {<<due, next_task>>} ELSE queue[k]
    BY DEF InsertTask
  <2>2. queue' \in [Kinds -> SUBSET (Nat \X ((0 .. next_task - 1) \cup {next_task}))]
    BY <2>1 DEF InsertTask
  <2> QED BY <1>1, <2>2
<1>3. /\ DOMAIN tasks' = DOMAIN tasks \cup {next_task}
      /\ \A i \in DOMAIN tasks' : tasks'[i] = IF i = next_task THEN [kind |-> kind, period |-> period]
                                               ELSE tasks[i]
      /\ DOMAIN asked' = DOMAIN asked \cup {next_task}
  BY DEF InsertTask, With
<1> QED BY <1>1, <1>2, <1>3

\* Ticking, scheduling and cancelling leave the tasks well-typed.
LEMMA TaskStepType ==
  ASSUME TaskTypeOK, SchedulerTick \/ Scheduling \/ Cancelling \/ HeapDone
  PROVE  TaskTypeOK'
<1>1. CASE SchedulerTick
  BY <1>1 DEF SchedulerTick, TaskTypeOK, Kinds
<1>2. CASE Scheduling
  <2>1. current_tick \in Nat
    BY DEF TaskTypeOK
  <2>2. PICK kind \in Kinds, due \in Nat, period \in Periods \cup {0} : InsertTask(kind, due, period)
    BY <1>2, <2>1, TaskAssumption DEF Scheduling, ScheduleAfter, ScheduleRepeat, ScheduleAtTick,
       ScheduleEndOfTick, Kinds
  <2> QED BY <2>2, InsertTaskType
<1>3. CASE Cancelling
  <2>1. PICK id \in DOMAIN tasks : CancelTask(id)
    BY <1>3 DEF Cancelling
  <2>2. /\ DOMAIN tasks' \subseteq DOMAIN tasks /\ \A i \in DOMAIN tasks' : tasks'[i] = tasks[i]
        /\ DOMAIN asked' = DOMAIN asked
    BY <2>1 DEF CancelTask, Without
  <2> QED BY <2>1, <2>2 DEF CancelTask, TaskTypeOK
<1>4. CASE HeapDone
  BY <1>4 DEF HeapDone, TaskTypeOK, Kinds
<1> QED BY <1>1, <1>2, <1>3, <1>4

\* A set of numbers that is not empty has a least one.
LEMMA LeastNumber ==
  ASSUME NEW T, T \subseteq Nat, T # {}
  PROVE  \E d \in T : \A e \in T : d <= e
<1> DEFINE L == OpToRel(<, Nat)
<1>1. IsWellFoundedOn(L, Nat)
  BY NatLessThanWellFounded
<1>2. \A x, y \in Nat : x < y => <<x, y>> \in L
  BY DEF OpToRel
<1> HIDE DEF L
<1>3. PICK d \in T : \A e \in T : ~(<<e, d>> \in L)
  BY <1>1, WFMin
<1>4. \A e \in T : ~(e < d)
  BY <1>2, <1>3
<1> QED BY <1>4

\* A heap that is not empty has a first place.
LEMMA PeekIsFirst ==
  ASSUME TaskTypeOK, NEW k \in Kinds, queue[k] # {}
  PROVE  /\ Peek(k) \in queue[k]
         /\ \A q \in queue[k] : Before(Peek(k), q)
<1>1. queue[k] \subseteq Nat \X Nat
  BY DEF TaskTypeOK
<1> DEFINE T == {q[1] : q \in queue[k]}
<1>2. PICK d \in T : \A e \in T : d <= e
  <2>1. T \subseteq Nat /\ T # {}
    BY <1>1
  <2> HIDE DEF T
  <2> QED BY <2>1, LeastNumber
<1> DEFINE U == {q[2] : q \in {r \in queue[k] : r[1] = d}}
<1>3. PICK i \in U : \A j \in U : i <= j
  <2>1. U \subseteq Nat /\ U # {}
    BY <1>1
  <2> HIDE DEF U
  <2> QED BY <2>1, LeastNumber
<1>4. <<d, i>> \in queue[k]
  BY <1>1
<1>5. ASSUME NEW q \in queue[k] PROVE Before(<<d, i>>, q)
  <2>1. d <= q[1] /\ d \in Nat /\ q[1] \in Nat
    BY <1>1, <1>2
  <2>2. q[1] = d => i <= q[2]
    BY <1>3
  <2> QED BY <2>1, <2>2 DEF Before
<1> QED BY <1>4, <1>5 DEF Peek

\* Popping a due task, and rescheduling it, leaves the tasks well-typed.
LEMMA PopDueType ==
  ASSUME TaskTypeOK, PopDue
  PROVE  TaskTypeOK'
<1> DEFINE p == Peek(stage)
           id == p[2]
<1>1. stage \in Kinds /\ queue[stage] # {}
  BY DEF PopDue, DueNow
<1>2. p \in Nat \X (0 .. next_task - 1)
  BY <1>1, PeekIsFirst DEF TaskTypeOK
<1>3. /\ UNCHANGED <<counter, current_tick, next_task, stage, asked>>
      /\ tasks' = tasks \/ tasks' = Without(tasks, id)
  BY DEF PopDue
<1>4. DOMAIN tasks' \subseteq DOMAIN tasks /\ \A i \in DOMAIN tasks' : tasks'[i] = tasks[i]
  BY <1>3 DEF Without
<1>5. queue' \in [Kinds -> SUBSET (Nat \X (0 .. next_task - 1))]
  <2>1. CASE queue' = [queue EXCEPT ![stage] = queue[stage] \ {p}]
    BY <1>1, <2>1 DEF TaskTypeOK
  <2>2. CASE /\ id \in DOMAIN tasks
             /\ queue' = [queue EXCEPT ![stage] = (queue[stage] \ {p}) \cup {<<p[1] + tasks[id].period, id>>}]
    <3>1. tasks[id].period \in Nat
      <4>1. tasks[id] \in [kind : Kinds, period : Periods \cup {0}]
        BY <2>2 DEF TaskTypeOK
      <4> HIDE DEF id
      <4>2. tasks[id].period \in Periods \cup {0}
        BY <4>1
      <4>3. \A x \in Periods \cup {0} : x \in Nat
        BY TaskAssumption
      <4> QED BY <4>2, <4>3, Zenon
    <3>2. <<p[1] + tasks[id].period, id>> \in Nat \X (0 .. next_task - 1)
      BY <1>2, <3>1
    <3> HIDE DEF p, id
    <3> QED BY <1>1, <2>2, <3>2 DEF TaskTypeOK
  <2> QED BY <2>1, <2>2 DEF PopDue
<1> QED BY <1>3, <1>4, <1>5 DEF TaskTypeOK

\* Types of the loop and of both schedulers, the counter of the loop and the
\* scheduler's agreeing (scheduler_manager.rs:65-77, scheduler.rs:119-136).
THEOREM TypeCorrect == SSpec => []STypeOK
<1> DEFINE T == TaskTypeOK /\ phase \in {"turn", "tasks", "systems", "round", "stopped"}
<1>1. SInit => T
  BY TaskInitType DEF SInit
<1>2. T /\ [SNext]_svars => T'
  <2> SUFFICES ASSUME T, [SNext]_svars PROVE T'
    OBVIOUS
  <2>1. CASE SchedulerTick \/ Scheduling \/ Cancelling \/ HeapDone
    BY <2>1, TaskStepType DEF SNext, UpdateBegins, RunTasks, Systems, SetUp, Sharing, GiveBack,
       RoundBegins, RoundWork, RoundEnds, Stop, Stopped, svars
  <2>2. CASE PopDue
    BY <2>2, PopDueType DEF SNext, UpdateBegins, RunTasks, Systems, SetUp, Sharing, GiveBack,
       RoundBegins, RoundWork, RoundEnds, Stop, Stopped, svars
  <2>3. CASE UNCHANGED tvars
    BY <2>3 DEF TaskTypeOK, tvars, SNext, UpdateBegins, RunTasks, Systems, SetUp, Sharing,
       GiveBack, RoundBegins, RoundWork, RoundEnds, Stop, Stopped, svars
  <2> QED BY <2>1, <2>2, <2>3 DEF SNext, UpdateBegins, RunTasks, Draining, Systems, SetUp,
       Sharing, GiveBack, RoundBegins, RoundWork, RoundEnds, Stop, Stopped, svars
<1>3. Inv /\ T => STypeOK
  BY DEF Inv, IInv, STypeOK
<1>4. SSpec => []T
  BY <1>1, <1>2, PTL DEF SSpec
<1> QED BY <1>3, <1>4, InvariantHolds, LoopUsesScheduler, PTL

----------------------------------------------------------------------------
(***************************************************************************)
(* Proofs about the scheduler of tasks within the main loop, for any       *)
(* delays, periods and number of turns: every task runs at exactly the     *)
(* ticks it is due at (RunsWhenDue) and in order (TasksInOrder).  The      *)
(* inductive invariant says of a task that is alive that one place of its  *)
(* heap stands for the next tick at which it runs (Pending), which this    *)
(* tick has not passed (Handled), and that it ran at all its ticks before; *)
(* of one that is not, that it ran when it had to (Finished); and of the   *)
(* executions of this tick, that they stood before what is still in the    *)
(* heap (Ordered).                                                         *)
(***************************************************************************)

\* The first tick at which a task can run, those at which it runs if nobody
\* cancels it, and the one that its place stands for.
First(id) == IF asked[id].due > asked[id].on THEN asked[id].due ELSE asked[id].on + 1

OnBeat(id, t) ==
  IF asked[id].period = 0 THEN t = First(id) ELSE (t - First(id)) % asked[id].period = 0

NextRun(p) == IF asked[p[2]].period = 0 THEN First(p[2]) ELSE p[1]

Ran(id, t) == \E i \in DOMAIN runs : runs[i] = <<t, id>>

\* The last tick whose places of heap k have been looked at.
Handled(k) == IF stage = "idle" \/ (stage = "end" /\ k = "start") THEN counter ELSE counter - 1

Request ==
  [kind : Kinds, due : Nat, period : Periods \cup {0}, on : Nat, off : Nat \cup {Never}]

Requests ==
  \A id \in DOMAIN asked :
    /\ asked[id] \in Request
    /\ asked[id].on <= counter
    /\ asked[id].off <= counter
    /\ asked[id].period > 0 => asked[id].due > asked[id].on
    /\ stage # "idle" => asked[id].on < counter

\* A task that is alive has a place in its heap.
Alive ==
  \A id \in DOMAIN tasks :
    /\ tasks[id].kind = asked[id].kind
    /\ tasks[id].period = asked[id].period
    /\ asked[id].off = Never
    /\ \E p \in queue[asked[id].kind] : p[2] = id

\* No task has two places, and none is in the other heap.
Places ==
  \A k \in Kinds : \A p \in queue[k] :
    /\ asked[p[2]].kind = k
    /\ \A q \in queue[k] : p[2] = q[2] => p = q

Pending ==
  \A k \in Kinds : \A p \in queue[k] : p[2] \in DOMAIN tasks =>
    /\ IF asked[p[2]].period = 0
       THEN p[1] = asked[p[2]].due
       ELSE p[1] >= First(p[2]) /\ OnBeat(p[2], p[1])
    /\ NextRun(p) > Handled(k)
    /\ \A t \in Nat :
         Ran(p[2], t) <=> OnBeat(p[2], t) /\ First(p[2]) <= t /\ t < NextRun(p)

Finished ==
  \A id \in DOMAIN asked \ DOMAIN tasks :
    \/ /\ asked[id].off # Never
       /\ \A t \in Nat :
            Ran(id, t) <=> OnBeat(id, t) /\ First(id) <= t /\ t <= asked[id].off
    \/ /\ asked[id].off = Never /\ asked[id].period = 0 /\ First(id) <= counter
       /\ \A t \in Nat : Ran(id, t) <=> t = First(id)

Executions ==
  /\ runs \in Seq(Nat \X Nat)
  /\ \A i \in DOMAIN runs : runs[i][1] <= counter /\ runs[i][2] \in DOMAIN asked
  /\ \A i, j \in DOMAIN runs : i # j => runs[i] # runs[j]

\* What ran in this tick stood before what is in the heap.
Ordered ==
  \A i \in DOMAIN runs : runs[i][1] = counter =>
    /\ stage = "start" => asked[runs[i][2]].kind = "start"
    /\ stage \in Kinds /\ asked[runs[i][2]].kind = stage =>
         \A q \in queue[stage] : Before(Place(i), q)

DueInv ==
  /\ TaskTypeOK /\ Requests /\ Alive /\ Places /\ Pending
  /\ Finished /\ Executions /\ Ordered /\ TasksInOrder
----------------------------------------------------------------------------
(* Numbers *)

\* c * m + c <= c * n for m < n.
LEMMA NextMultiple ==
  ASSUME NEW c \in Nat, NEW m \in Nat, NEW n \in Nat, m < n
  PROVE  c * m + c <= c * n
<1>1. PICK d \in Nat : n = m + 1 + d
  <2> WITNESS n - m - 1 \in Nat
  <2> QED OBVIOUS
<1>2. c * n = c * m + c + c * d
  BY <1>1
<1>3. c * d \in Nat /\ c * m \in Nat
  OBVIOUS
<1> QED BY <1>2, <1>3

\* The multiple of a period that follows one is a period later, and there is none
\* in between.
LEMMA NextBeat ==
  ASSUME NEW c \in Nat \ {0}, NEW x \in Nat, x % c = 0
  PROVE  /\ (x + c) % c = 0
         /\ \A y \in Nat : x < y /\ y < x + c => y % c # 0
<1> DEFINE m == x \div c
<1>1. m \in Nat /\ x = c * m
  OBVIOUS
<1>2. (x + c) % c = 0
  <2> DEFINE n == (x + c) \div c
             r == (x + c) % c
  <2>1. n \in Nat /\ r \in 0 .. c - 1 /\ x + c = c * n + r
    OBVIOUS
  <2> HIDE DEF m, n, r
  <2>2. c * (m + 1) = c * m + c /\ c * m \in Nat /\ c * n \in Nat
    BY <1>1, <2>1
  <2>3. CASE n < m + 1
    <3>1. c * n + c <= c * (m + 1)
      BY <1>1, <2>1, <2>3, NextMultiple
    <3> QED BY <1>1, <2>1, <2>2, <3>1
  <2>4. CASE m + 1 < n
    <3>1. c * (m + 1) + c <= c * n
      BY <1>1, <2>1, <2>4, NextMultiple
    <3> QED BY <1>1, <2>1, <2>2, <3>1
  <2>5. CASE n = m + 1
    BY <1>1, <2>1, <2>2, <2>5
  <2>6. r = 0
    BY <1>1, <2>1, <2>3, <2>4, <2>5
  <2> QED BY <2>6 DEF r
<1>3. ASSUME NEW y \in Nat, x < y, y < x + c, y % c = 0
      PROVE  FALSE
  <2> DEFINE n == y \div c
  <2>1. n \in Nat /\ y = c * n
    BY <1>3
  <2> HIDE DEF m, n
  <2>2. c * m \in Nat /\ c * n \in Nat
    BY <1>1, <2>1
  <2>3. CASE n < m
    <3>1. c * n + c <= c * m
      BY <1>1, <2>1, <2>3, NextMultiple
    <3> QED BY <1>1, <1>3, <2>1, <2>2, <3>1
  <2>4. CASE m < n
    <3>1. c * m + c <= c * n
      BY <1>1, <2>1, <2>4, NextMultiple
    <3> QED BY <1>1, <1>3, <2>1, <2>2, <3>1
  <2>5. CASE n = m
    BY <1>1, <1>3, <2>1, <2>5
  <2> QED BY <1>1, <2>1, <2>3, <2>4, <2>5
<1> QED BY <1>2, <1>3
----------------------------------------------------------------------------
(* What the invariant says of a request and of a place *)

\* A task can run in the tick after the one in which it was scheduled and not
\* before it is due (scheduler_manager.rs:84-123).
LEMMA FirstType ==
  ASSUME TaskTypeOK, Requests, NEW id \in DOMAIN asked
  PROVE  /\ asked[id].kind \in Kinds /\ asked[id].due \in Nat /\ asked[id].on \in Nat
         /\ asked[id].period \in Nat /\ asked[id].off \in Nat \cup {Never}
         /\ First(id) \in Nat /\ First(id) >= asked[id].due /\ First(id) > asked[id].on
         /\ asked[id].period > 0 => First(id) = asked[id].due
         /\ First(id) = asked[id].due \/ First(id) = asked[id].on + 1
<1>1. asked[id] \in Request
  BY DEF Requests
<1>2. /\ asked[id].kind \in Kinds /\ asked[id].due \in Nat /\ asked[id].on \in Nat
      /\ asked[id].period \in Periods \cup {0} /\ asked[id].off \in Nat \cup {Never}
  BY <1>1 DEF Request
<1>3. asked[id].period \in Nat
  <2>1. \A x \in Periods \cup {0} : x \in Nat
    BY TaskAssumption
  <2> QED BY <1>2, <2>1, Zenon
<1>4. asked[id].period > 0 => asked[id].due > asked[id].on
  BY DEF Requests
<1> QED BY <1>2, <1>3, <1>4 DEF First

\* A place is of a task that was asked for, and its next run is not before it.
LEMMA PlaceType ==
  ASSUME TaskTypeOK, Requests, NEW k \in Kinds, NEW p \in queue[k]
  PROVE  /\ p \in Nat \X Nat /\ p[1] \in Nat /\ p[2] \in DOMAIN asked
         /\ p = <<p[1], p[2]>>
         /\ NextRun(p) \in Nat
         /\ counter \in Nat /\ Handled(k) \in Int
<1>1. p \in Nat \X (0 .. next_task - 1) /\ DOMAIN asked = 0 .. next_task - 1
  BY DEF TaskTypeOK
<1>2. p[1] \in Nat /\ p[2] \in DOMAIN asked /\ p = <<p[1], p[2]>> /\ p \in Nat \X Nat
  BY <1>1
<1>3. NextRun(p) \in Nat
  BY <1>2, FirstType DEF NextRun
<1>4. counter \in Nat /\ Handled(k) \in Int
  BY DEF TaskTypeOK, Handled
<1> QED BY <1>2, <1>3, <1>4

\* A task that is alive does not run before its place comes up.
LEMMA NextRunNotBefore ==
  ASSUME DueInv, NEW k \in Kinds, NEW p \in queue[k], p[2] \in DOMAIN tasks
  PROVE  p[1] <= NextRun(p)
<1>1. p[2] \in DOMAIN asked /\ p[1] \in Nat
  BY PlaceType DEF DueInv
<1>2. asked[p[2]].period = 0 => p[1] = asked[p[2]].due
  BY DEF DueInv, Pending
<1>3. First(p[2]) \in Nat /\ First(p[2]) >= asked[p[2]].due
  BY <1>1, FirstType DEF DueInv
<1> QED BY <1>1, <1>2, <1>3 DEF NextRun

\* A place stands in the heap of its task.
LEMMA PlaceOfTask ==
  ASSUME DueInv, NEW k \in Kinds, NEW p \in queue[k], NEW id, id = p[2]
  PROVE  /\ counter \in Nat /\ p[1] \in Nat /\ id \in Nat /\ p = <<p[1], id>>
         /\ id \in DOMAIN asked /\ asked[id].kind = k
         /\ First(id) \in Nat /\ asked[id].period \in Nat
<1>1. TaskTypeOK /\ Requests /\ Places
  BY DEF DueInv
<1>2. /\ p \in Nat \X Nat /\ p[1] \in Nat /\ id \in DOMAIN asked
      /\ p = <<p[1], id>> /\ counter \in Nat
  BY <1>1, PlaceType
<1>3. First(id) \in Nat /\ asked[id].period \in Nat
  BY <1>1, <1>2, FirstType
<1>4. asked[id].kind = k
  BY <1>1 DEF Places
<1> QED BY <1>2, <1>3, <1>4

\* Between two turns a task that is alive has run at all its ticks so far.
LEMMA RanSoFar ==
  ASSUME DueInv, stage = "idle", NEW id \in DOMAIN tasks
  PROVE  \A t \in Nat : Ran(id, t) <=> OnBeat(id, t) /\ First(id) <= t /\ t <= counter
<1>1. TaskTypeOK /\ Requests /\ counter \in Nat /\ id \in DOMAIN asked
  BY DEF DueInv, TaskTypeOK
<1>2. PICK p \in queue[asked[id].kind] : p[2] = id
  BY DEF DueInv, Alive
<1>3. asked[id].kind \in Kinds
  BY <1>1, FirstType
<1>4. /\ NextRun(p) > Handled(asked[id].kind) /\ NextRun(p) \in Nat
      /\ \A t \in Nat : Ran(id, t) <=> OnBeat(id, t) /\ First(id) <= t /\ t < NextRun(p)
  BY <1>1, <1>2, <1>3, PlaceType DEF DueInv, Pending
<1>5. Handled(asked[id].kind) = counter
  BY DEF Handled
<1>6. \A t \in Nat : Ran(id, t) => t <= counter
  <2> SUFFICES ASSUME NEW t \in Nat, NEW i \in DOMAIN runs, runs[i] = <<t, id>>
               PROVE  t <= counter
    BY DEF Ran
  <2>1. runs[i][1] = t /\ runs[i][1] <= counter
    BY DEF DueInv, Executions
  <2> QED BY <2>1
<1> QED BY <1>1, <1>4, <1>5, <1>6
----------------------------------------------------------------------------
(* The steps *)

\* Nothing has been asked for in the beginning.
LEMMA InitDue == TaskInit => DueInv
<1> SUFFICES ASSUME TaskInit PROVE DueInv
  OBVIOUS
<1>1. DOMAIN tasks = {} /\ DOMAIN asked = {} /\ DOMAIN runs = {}
  BY DEF TaskInit
<1>2. \A k \in Kinds : queue[k] = {}
  BY DEF TaskInit
<1>3. runs \in Seq(Nat \X Nat)
  BY DEF TaskInit
<1>4. TaskTypeOK
  BY TaskInitType
<1>5. Requests /\ Alive /\ Finished
  BY <1>1 DEF Requests, Alive, Finished
<1>6. Places /\ Pending
  BY <1>2 DEF Places, Pending
<1>7. Executions /\ Ordered /\ TasksInOrder
  BY <1>1, <1>3 DEF Executions, Ordered, TasksInOrder
<1> QED BY <1>4, <1>5, <1>6, <1>7 DEF DueInv

\* When only the clock and the stage move, each heap has to have been looked at
\* as far as the clock says, and the executions of the tick to be in order.
LEMMA ClockKeeps ==
  ASSUME DueInv, TaskTypeOK', UNCHANGED <<queue, tasks, next_task, asked, runs>>,
         counter' \in {counter, counter + 1},
         stage' # "idle" => \A id \in DOMAIN asked : asked[id].on < counter',
         \A k \in Kinds : \A p \in queue[k] : p[2] \in DOMAIN tasks => NextRun(p) > Handled(k)',
         Ordered'
  PROVE  DueInv'
<1>0. counter \in Nat /\ counter' \in Nat /\ counter <= counter'
  BY DEF DueInv, TaskTypeOK
<1>1. /\ \A id : First(id)' = First(id)
      /\ \A id, t : OnBeat(id, t)' = OnBeat(id, t) /\ Ran(id, t)' = Ran(id, t)
      /\ \A p : NextRun(p)' = NextRun(p)
  BY DEF First, OnBeat, NextRun, Ran
<1>2. Requests'
  <2>1. \A id \in DOMAIN asked : asked[id].on \in Nat /\ asked[id].off \in Int
    BY FirstType DEF DueInv, Never
  <2> QED BY <1>0, <2>1 DEF DueInv, Requests
<1>3. Alive' /\ Places' /\ TasksInOrder'
  BY DEF DueInv, Alive, Places, TasksInOrder, Place
<1>4. Pending'
  BY <1>1 DEF DueInv, Pending
<1>5. Finished'
  <2>1. \A id \in DOMAIN asked : First(id) \in Nat
    BY FirstType DEF DueInv
  <2> QED BY <1>0, <1>1, <2>1 DEF DueInv, Finished
<1>6. Executions'
  BY <1>0 DEF DueInv, Executions
<1> QED BY <1>2, <1>3, <1>4, <1>5, <1>6 DEF DueInv

\* A tick begins: all places that were due have been taken
\* (scheduler_tick.rs, tick_counter).
LEMMA SchedulerTickKeeps ==
  ASSUME DueInv, SchedulerTick
  PROVE  DueInv'
<1>1. /\ stage = "idle" /\ stage' = "start" /\ counter' = counter + 1 /\ counter \in Nat
      /\ UNCHANGED <<queue, tasks, next_task, asked, runs>>
  BY DEF SchedulerTick, DueInv, TaskTypeOK
<1>2. TaskTypeOK'
  BY TaskStepType DEF DueInv
<1>3. \A id \in DOMAIN asked : asked[id].on < counter'
  BY <1>1, FirstType DEF DueInv, Requests
<1>4. \A k \in Kinds : Handled(k) = counter /\ Handled(k)' = counter
  BY <1>1 DEF Handled
<1>5. Ordered'
  BY <1>1 DEF DueInv, Executions, Ordered
<1> QED BY <1>1, <1>2, <1>3, <1>4, <1>5, ClockKeeps DEF DueInv, Pending

\* A heap whose first place is later has no place that is due
\* (scheduler_manager.rs:189-232).
LEMMA HeapDoneKeeps ==
  ASSUME DueInv, HeapDone
  PROVE  DueInv'
<1>1. /\ stage \in Kinds /\ ~DueNow(stage)
      /\ stage' = IF stage = "start" THEN "end" ELSE "idle"
      /\ UNCHANGED <<counter, current_tick, queue, tasks, next_task, asked, runs>>
  BY DEF HeapDone
<1>2. TaskTypeOK' /\ counter \in Nat /\ current_tick = counter
  BY TaskStepType DEF DueInv, TaskTypeOK
<1>3. \A p \in queue[stage] : p[1] > counter
  <2> SUFFICES ASSUME NEW p \in queue[stage] PROVE p[1] > counter
    OBVIOUS
  <2>1. Peek(stage) \in queue[stage] /\ Before(Peek(stage), p)
    BY <1>1, PeekIsFirst DEF DueInv
  <2>2. Peek(stage)[1] \in Nat /\ p[1] \in Nat
    BY <1>1, <2>1, PlaceType DEF DueInv
  <2>3. Peek(stage)[1] > counter
    BY <1>1, <1>2, <2>2 DEF DueNow
  <2> QED BY <1>2, <2>1, <2>2, <2>3 DEF Before
<1>4. ASSUME NEW k \in Kinds, NEW p \in queue[k], p[2] \in DOMAIN tasks
      PROVE  NextRun(p) > Handled(k)'
  <2>1. NextRun(p) > Handled(k) /\ NextRun(p) \in Nat /\ p[1] \in Nat
    BY <1>4, PlaceType DEF DueInv, Pending
  <2>2. CASE k = stage
    <3>1. p[1] > counter /\ p[1] <= NextRun(p)
      BY <1>3, <1>4, <2>2, NextRunNotBefore
    <3>2. Handled(k)' = counter
      BY <1>1, <2>2 DEF Handled, Kinds
    <3> QED BY <1>2, <2>1, <3>1, <3>2
  <2>3. CASE k # stage
    <3>1. Handled(k)' = Handled(k)
      BY <1>1, <2>3 DEF Handled, Kinds
    <3> QED BY <2>1, <3>1
  <2> QED BY <2>2, <2>3
<1>5. Ordered'
  BY <1>1, <1>2 DEF DueInv, Ordered, Kinds
<1>6. stage' # "idle" => \A id \in DOMAIN asked : asked[id].on < counter'
  BY <1>1 DEF DueInv, Requests, Kinds
<1> QED BY <1>1, <1>2, <1>4, <1>5, <1>6, ClockKeeps

\* A new task has one place, which stands for a later tick
\* (scheduler_manager.rs:84-148).
LEMMA InsertKeeps ==
  ASSUME DueInv, NEW kind \in Kinds, NEW due \in Nat, NEW period \in Periods \cup {0},
         period > 0 => due > counter, InsertTask(kind, due, period)
  PROVE  DueInv'
<1>a. PICK n : n = next_task
  OBVIOUS
<1> DEFINE new == <<due, n>>
<1>0. TaskTypeOK /\ Requests /\ counter \in Nat /\ n \in Nat /\ n \notin DOMAIN asked
      /\ DOMAIN tasks \subseteq DOMAIN asked /\ period \in Nat
  <2>1. \A x \in Periods \cup {0} : x \in Nat
    BY TaskAssumption
  <2> QED BY <1>a, <2>1 DEF DueInv, TaskTypeOK
<1>1. /\ UNCHANGED <<counter, current_tick, stage, runs>> /\ stage = "idle"
      /\ \A k \in Kinds : queue'[k] = IF k = kind THEN queue[k] \cup {new} ELSE queue[k]
  BY <1>0, <1>a DEF InsertTask, TaskTypeOK
<1>2. /\ DOMAIN asked' = DOMAIN asked \cup {n} /\ DOMAIN tasks' = DOMAIN tasks \cup {n}
      /\ \A i \in DOMAIN asked : asked'[i] = asked[i]
      /\ \A i \in DOMAIN tasks : tasks'[i] = tasks[i]
      /\ asked'[n] = [kind |-> kind, due |-> due, period |-> period, on |-> counter, off |-> Never]
      /\ tasks'[n] = [kind |-> kind, period |-> period]
  BY <1>0, <1>a DEF InsertTask, With
<1>3. /\ \A i \in DOMAIN asked : First(i)' = First(i)
      /\ \A i \in DOMAIN asked, t \in Nat : OnBeat(i, t)' = OnBeat(i, t)
      /\ \A i, t : Ran(i, t)' = Ran(i, t)
  BY <1>1, <1>2 DEF First, OnBeat, Ran
<1>4. /\ First(n)' \in Nat /\ First(n)' > counter /\ NextRun(new)' = First(n)'
      /\ period > 0 => First(n)' = due
      /\ \A t \in Nat : ~Ran(n, t)
  <2>1. First(n)' = IF due > counter THEN due ELSE counter + 1
    BY <1>2 DEF First
  <2>2. NextRun(new)' = IF period = 0 THEN First(n)' ELSE due
    BY <1>2 DEF NextRun
  <2>3. \A t \in Nat : ~Ran(n, t)
    BY <1>0 DEF Ran, DueInv, Executions
  <2> QED BY <1>0, <2>1, <2>2, <2>3
<1>5. \A k \in Kinds : \A p \in queue[k] : p[2] \in DOMAIN asked /\ p[2] # n
  BY <1>0, PlaceType
<1>6. Requests'
  <2>1. asked'[n] \in Request
    BY <1>0, <1>2 DEF Request
  <2>2. /\ asked'[n].on = counter /\ asked'[n].off = Never
        /\ asked'[n].period = period /\ asked'[n].due = due
    BY <1>2
  <2> QED BY <1>0, <1>1, <1>2, <2>1, <2>2 DEF Requests, Never
<1>7. Alive'
  <2>1. \A i \in DOMAIN tasks : \A p \in queue[asked[i].kind] : p \in queue'[asked[i].kind]
    <3>1. \A i \in DOMAIN tasks : asked[i].kind \in Kinds
      BY <1>0, FirstType
    <3> QED BY <1>1, <3>1
  <2>2. new \in queue'[kind] /\ new[2] = n
    BY <1>1
  <2> HIDE DEF new
  <2>3. /\ tasks'[n].kind = kind /\ tasks'[n].period = period
        /\ asked'[n].kind = kind /\ asked'[n].period = period /\ asked'[n].off = Never
    BY <1>2
  <2> QED BY <1>0, <1>2, <2>1, <2>2, <2>3 DEF DueInv, Alive
<1>8. Places'
  <2>1. new[2] = n /\ asked'[n].kind = kind
    BY <1>2
  <2>a. \A k \in Kinds : \A p \in queue'[k] : (p = new /\ k = kind) \/ p \in queue[k]
    BY <1>1
  <2> HIDE DEF new
  <2>2. ASSUME NEW k \in Kinds, NEW p \in queue'[k]
        PROVE  asked'[p[2]].kind = k
    <3>1. CASE p = new /\ k = kind
      BY <2>1, <3>1
    <3>2. CASE p \in queue[k]
      BY <1>2, <1>5, <3>2 DEF DueInv, Places
    <3> QED BY <2>a, <2>2, <3>1, <3>2
  <2>3. ASSUME NEW k \in Kinds, NEW p \in queue'[k], NEW q \in queue'[k], p[2] = q[2]
        PROVE  p = q
    <3>1. CASE p = new \/ q = new
      BY <1>5, <2>a, <2>1, <2>3, <3>1
    <3>2. CASE p \in queue[k] /\ q \in queue[k]
      BY <2>3, <3>2 DEF DueInv, Places
    <3> QED BY <2>a, <2>3, <3>1, <3>2
  <2> QED BY <2>2, <2>3 DEF Places
<1>9. Pending'
  <2> SUFFICES ASSUME NEW k \in Kinds, NEW p \in queue'[k], p[2] \in DOMAIN tasks'
               PROVE  /\ IF asked'[p[2]].period = 0
                         THEN p[1] = asked'[p[2]].due
                         ELSE p[1] >= First(p[2])' /\ OnBeat(p[2], p[1])'
                      /\ NextRun(p)' > Handled(k)'
                      /\ \A t \in Nat : Ran(p[2], t)'
                           <=> OnBeat(p[2], t)' /\ First(p[2])' <= t /\ t < NextRun(p)'
    BY DEF Pending
  <2>1. CASE p \in queue[k]
    <3>1. p[2] \in DOMAIN asked /\ p[2] \in DOMAIN tasks /\ p[1] \in Nat
      BY <1>0, <1>2, <1>5, <2>1, PlaceType
    <3>2. NextRun(p)' = NextRun(p) /\ Handled(k)' = Handled(k)
      BY <1>1, <1>2, <1>3, <3>1 DEF NextRun, Handled
    <3> QED BY <1>2, <1>3, <2>1, <3>1, <3>2 DEF DueInv, Pending
  <2>2. CASE p = new
    <3>1. p[1] = due /\ p[2] = n
      BY <2>2
    <3>2. asked'[n].period = period /\ asked'[n].due = due
      BY <1>2
    <3>3. period > 0 => OnBeat(n, due)'
      BY <1>0, <1>4, <3>2 DEF OnBeat
    <3>4. Handled(k)' = counter
      BY <1>1 DEF Handled
    <3>5. NextRun(p)' = First(n)'
      BY <1>4, <2>2
    <3> HIDE DEF new
    <3> QED BY <1>0, <1>3, <1>4, <3>1, <3>2, <3>3, <3>4, <3>5
  <2> QED BY <1>1, <2>1, <2>2
<1>10. Finished'
  BY <1>0, <1>1, <1>2, <1>3 DEF DueInv, Finished
<1>11. Executions' /\ Ordered' /\ TasksInOrder'
  <2>1. Executions'
    BY <1>0, <1>1, <1>2 DEF DueInv, Executions
  <2>2. Ordered'
    BY <1>1 DEF Ordered, Kinds
  <2>3. \A i \in DOMAIN runs : runs[i][2] \in DOMAIN asked
    BY DEF DueInv, Executions
  <2>4. \A i \in DOMAIN runs : Place(i)' = Place(i)
    BY <1>1, <1>2, <2>3 DEF Place
  <2>5. TasksInOrder'
    BY <1>1, <1>2, <2>3, <2>4 DEF DueInv, TasksInOrder
  <2> QED BY <2>1, <2>2, <2>5
<1> QED BY <1>0, <1>6, <1>7, <1>8, <1>9, <1>10, <1>11, InsertTaskType DEF DueInv

\* What is scheduled is due later, or at once when it is not repeated.
LEMMA SchedulingKeeps ==
  ASSUME DueInv, Scheduling
  PROVE  DueInv'
<1>1. current_tick \in Nat /\ current_tick = counter
  BY DEF DueInv, TaskTypeOK
<1>2. \A d \in Delays : d \in Nat
  BY TaskAssumption
<1>3. \A p \in Periods : p \in Nat /\ p > 0
  BY TaskAssumption
<1>4. PICK kind \in Kinds, due \in Nat, period \in Periods \cup {0} :
        InsertTask(kind, due, period) /\ (period > 0 => due > counter)
  BY <1>1, <1>2, <1>3 DEF Scheduling, ScheduleAfter, ScheduleRepeat, ScheduleAtTick,
     ScheduleEndOfTick, Kinds
<1> QED BY <1>4, InsertKeeps

\* A cancelled task ran when it had to, and its place stays
\* (scheduler_manager.rs:160-162).
LEMMA CancellingKeeps ==
  ASSUME DueInv, Cancelling
  PROVE  DueInv'
<1>0. PICK id \in DOMAIN tasks : CancelTask(id)
  BY DEF Cancelling
<1>1. /\ UNCHANGED <<counter, current_tick, queue, next_task, stage, runs>> /\ stage = "idle"
      /\ DOMAIN tasks' = DOMAIN tasks \ {id}
      /\ \A i \in DOMAIN tasks' : tasks'[i] = tasks[i]
  BY <1>0 DEF CancelTask, Without
<1>2. TaskTypeOK /\ Requests /\ counter \in Nat /\ DOMAIN tasks \subseteq DOMAIN asked
  BY DEF DueInv, TaskTypeOK
<1>3. /\ DOMAIN asked' = DOMAIN asked
      /\ \A i \in DOMAIN asked : i # id => asked'[i] = asked[i]
      /\ asked'[id] \in Request
      /\ asked'[id].kind = asked[id].kind /\ asked'[id].due = asked[id].due
      /\ asked'[id].period = asked[id].period /\ asked'[id].on = asked[id].on
      /\ asked'[id].off = counter
  <2>1. asked[id] \in Request
    BY <1>0, <1>2 DEF Requests
  <2>2. asked' = [asked EXCEPT ![id] = [asked[id] EXCEPT !.off = counter]]
    BY <1>0 DEF CancelTask
  <2>3. [asked[id] EXCEPT !.off = counter] \in Request
    BY <1>2, <2>1 DEF Request
  <2>4. /\ [asked[id] EXCEPT !.off = counter].kind = asked[id].kind
        /\ [asked[id] EXCEPT !.off = counter].due = asked[id].due
        /\ [asked[id] EXCEPT !.off = counter].period = asked[id].period
        /\ [asked[id] EXCEPT !.off = counter].on = asked[id].on
        /\ [asked[id] EXCEPT !.off = counter].off = counter
    BY <2>1 DEF Request
  <2>5. asked'[id] = [asked[id] EXCEPT !.off = counter] /\ DOMAIN asked' = DOMAIN asked
        /\ \A i \in DOMAIN asked : i # id => asked'[i] = asked[i]
    BY <1>0, <1>2, <2>2
  <2> QED BY <2>3, <2>4, <2>5
<1>4. \A i \in DOMAIN asked :
        /\ asked'[i].kind = asked[i].kind /\ asked'[i].due = asked[i].due
        /\ asked'[i].period = asked[i].period /\ asked'[i].on = asked[i].on
  BY <1>3
<1>5. /\ \A i \in DOMAIN asked : First(i)' = First(i)
      /\ \A i \in DOMAIN asked, t \in Nat : OnBeat(i, t)' = OnBeat(i, t)
      /\ \A i, t : Ran(i, t)' = Ran(i, t)
  BY <1>1, <1>4 DEF First, OnBeat, Ran
<1>6. \A k \in Kinds : \A p \in queue[k] :
        p[1] \in Nat /\ p[2] \in DOMAIN asked /\ NextRun(p)' = NextRun(p)
  <2>1. \A k \in Kinds : \A p \in queue[k] : p[1] \in Nat /\ p[2] \in DOMAIN asked
    BY <1>2, PlaceType
  <2> QED BY <1>4, <1>5, <2>1 DEF NextRun
<1>7. Requests'
  BY <1>1, <1>2, <1>3 DEF Requests
<1>8. Alive'
  BY <1>1, <1>2, <1>3 DEF DueInv, Alive
<1>9. Places'
  BY <1>1, <1>4, <1>6 DEF DueInv, Places
<1>10. Pending'
  <2>1. \A k : Handled(k)' = Handled(k)
    BY <1>1 DEF Handled
  <2> QED BY <1>1, <1>4, <1>5, <1>6, <2>1 DEF DueInv, Pending
<1>11. Finished'
  <2>1. \A i \in DOMAIN asked \ DOMAIN tasks : i # id /\ asked'[i] = asked[i]
    BY <1>0, <1>3
  <2>2. \A t \in Nat : Ran(id, t) <=> OnBeat(id, t) /\ First(id) <= t /\ t <= counter
    BY <1>0, <1>1, RanSoFar
  <2>3. asked'[id].off # Never
    BY <1>2, <1>3 DEF Never
  <2> QED BY <1>0, <1>1, <1>2, <1>3, <1>5, <2>1, <2>2, <2>3 DEF DueInv, Finished
<1>12. Executions' /\ Ordered' /\ TasksInOrder'
  <2>1. Executions'
    BY <1>1, <1>3 DEF DueInv, Executions
  <2>2. Ordered'
    BY <1>1 DEF Ordered, Kinds
  <2>3. \A i \in DOMAIN runs : runs[i][2] \in DOMAIN asked
    BY DEF DueInv, Executions
  <2>4. \A i \in DOMAIN runs : Place(i)' = Place(i)
    BY <1>1, <1>4, <2>3 DEF Place
  <2>5. TasksInOrder'
    BY <1>1, <1>4, <2>3, <2>4 DEF DueInv, TasksInOrder
  <2> QED BY <2>1, <2>2, <2>5
<1> QED BY <1>2, <1>7, <1>8, <1>9, <1>10, <1>11, <1>12, TaskStepType DEF DueInv
----------------------------------------------------------------------------
(* Popping a place *)

\* What ran before in this tick stood before the place that is popped, and what
\* is left of the heap stands behind it (scheduler_manager.rs:165-181).
LEMMA ExecutedInOrder ==
  ASSUME DueInv, stage \in Kinds, NEW p \in queue[stage], NEW id, id = p[2],
         id \in DOMAIN tasks,
         ~Ran(id, counter), asked[id].period > 0 => p[1] = counter,
         \A q \in queue'[stage] : Before(p, q),
         queue'[stage] \subseteq queue[stage] \cup {q \in Nat \X Nat : p[1] < q[1]},
         runs' = Append(runs, <<counter, id>>), UNCHANGED <<counter, stage, asked>>
  PROVE  Executions' /\ Ordered' /\ TasksInOrder'
<1>a. PICK n : n = Len(runs) + 1
  OBVIOUS
<1>0. /\ counter \in Nat /\ id \in Nat /\ id \in DOMAIN asked /\ asked[id].kind = stage
      /\ p = <<p[1], id>> /\ p[1] \in Nat /\ asked[id].period \in Nat
  BY PlaceOfTask
<1>1. /\ runs \in Seq(Nat \X Nat) /\ <<counter, id>> \in Nat \X Nat
  BY <1>0 DEF DueInv, Executions
<1>2. /\ runs' \in Seq(Nat \X Nat) /\ DOMAIN runs' = DOMAIN runs \cup {n} /\ n \notin DOMAIN runs
      /\ DOMAIN runs = 1 .. Len(runs) /\ Len(runs) \in Nat
      /\ runs'[n] = <<counter, id>> /\ \A i \in DOMAIN runs : runs'[i] = runs[i]
      /\ \A i \in DOMAIN runs : i < n
  BY <1>1, <1>a, AppendProperties
<1>3. runs'[n][1] = counter /\ runs'[n][2] = id
  BY <1>2
<1>4. Executions'
  <2>1. \A i \in DOMAIN runs : runs[i] # <<counter, id>>
    BY DEF Ran
  <2>a. Executions
    BY DEF DueInv
  <2>2. \A i \in DOMAIN runs' : runs'[i][1] <= counter /\ runs'[i][2] \in DOMAIN asked
    <3>1. \A i \in DOMAIN runs : runs[i][1] <= counter /\ runs[i][2] \in DOMAIN asked
      BY <2>a DEF Executions
    <3> QED BY <1>0, <1>2, <1>3, <3>1
  <2>3. \A i, j \in DOMAIN runs' : i # j => runs'[i] # runs'[j]
    <3>1. \A i, j \in DOMAIN runs : i # j => runs[i] # runs[j]
      BY <2>a DEF Executions
    <3>2. /\ DOMAIN runs' = DOMAIN runs \cup {n} /\ runs'[n] = <<counter, id>>
          /\ \A i \in DOMAIN runs : runs'[i] = runs[i]
      BY <1>2
    <3> SUFFICES ASSUME NEW i \in DOMAIN runs', NEW j \in DOMAIN runs', i # j
                 PROVE  runs'[i] # runs'[j]
      OBVIOUS
    <3>3. CASE i = n
      BY <2>1, <3>2, <3>3
    <3>4. CASE j = n
      BY <2>1, <3>2, <3>4
    <3>5. CASE i \in DOMAIN runs /\ j \in DOMAIN runs
      BY <3>1, <3>2, <3>5
    <3> QED BY <3>2, <3>3, <3>4, <3>5
  <2> QED BY <1>2, <2>2, <2>3 DEF Executions
<1>5. Place(n)' = p
  <2>1. Place(n)' = <<IF asked[id].period = 0 THEN asked[id].due ELSE counter, id>>
    BY <1>3 DEF Place
  <2>2. asked[id].period = 0 => p[1] = asked[id].due
    BY DEF DueInv, Pending
  <2> QED BY <1>0, <2>1, <2>2
<1>6. \A i \in DOMAIN runs : Place(i)' = Place(i)
  BY <1>2 DEF Place
<1>7. \A i \in DOMAIN runs : runs[i][1] = counter =>
        /\ stage = "start" => asked[runs[i][2]].kind = "start"
        /\ asked[runs[i][2]].kind = stage => Before(Place(i), p)
  BY DEF DueInv, Ordered
<1>8. Ordered'
  <2> SUFFICES ASSUME NEW i \in DOMAIN runs', runs'[i][1] = counter
               PROVE  /\ stage = "start" => asked[runs'[i][2]].kind = "start"
                      /\ asked[runs'[i][2]].kind = stage =>
                           \A q \in queue'[stage] : Before(Place(i)', q)
    BY DEF Ordered, Before
  <2>1. CASE i = n
    BY <1>0, <1>3, <1>5, <2>1
  <2>2. CASE i \in DOMAIN runs
    <3>1. runs'[i] = runs[i] /\ Place(i)' = Place(i)
      BY <1>2, <1>6, <2>2
    <3>2. ASSUME asked[runs[i][2]].kind = stage, NEW q \in queue'[stage]
          PROVE  Before(Place(i), q)
      <4>1. CASE q \in queue[stage]
        BY <2>2, <3>1, <3>2, <4>1 DEF DueInv, Ordered
      <4>2. CASE q \in Nat \X Nat /\ p[1] < q[1]
        <5>1. Before(Place(i), p)
          BY <1>7, <2>2, <3>1, <3>2
        <5>2. Place(i)[1] \in Nat
          <6>1. runs[i] \in Nat \X Nat /\ runs[i][2] \in DOMAIN asked
            BY <1>1, <2>2 DEF DueInv, Executions
          <6>2. asked[runs[i][2]].due \in Nat
            BY <6>1, FirstType DEF DueInv
          <6> QED BY <6>1, <6>2 DEF Place
        <5> QED BY <1>0, <4>2, <5>1, <5>2 DEF Before
      <4> QED BY <4>1, <4>2
    <3> QED BY <1>7, <2>2, <3>1, <3>2
  <2> QED BY <1>2, <2>1, <2>2
<1>9. TasksInOrder'
  <2> SUFFICES ASSUME NEW i \in DOMAIN runs', NEW j \in DOMAIN runs', i < j,
                      runs'[i][1] = runs'[j][1]
               PROVE  \/ asked[runs'[i][2]].kind = "start" /\ asked[runs'[j][2]].kind = "end"
                      \/ /\ asked[runs'[i][2]].kind = asked[runs'[j][2]].kind
                         /\ Before(Place(i)', Place(j)')
    BY DEF TasksInOrder, Before
  <2>1. i \in DOMAIN runs
    BY <1>2
  <2>2. CASE j = n
    <3>1. runs[i][1] = counter /\ runs'[i] = runs[i] /\ asked[runs'[j][2]].kind = stage
      BY <1>0, <1>2, <1>3, <2>1, <2>2
    <3>2. asked[runs[i][2]].kind \in Kinds
      BY <2>1, FirstType DEF DueInv, Executions
    <3> QED BY <1>5, <1>6, <1>7, <2>1, <2>2, <3>1, <3>2 DEF Kinds
  <2>3. CASE j \in DOMAIN runs
    <3>1. runs'[i] = runs[i] /\ runs'[j] = runs[j] /\ Place(i)' = Place(i) /\ Place(j)' = Place(j)
      BY <1>2, <1>6, <2>1, <2>3
    <3>2. TasksInOrder
      BY DEF DueInv
    <3> QED BY <2>1, <2>3, <3>1, <3>2 DEF TasksInOrder
  <2> QED BY <1>2, <2>2, <2>3
<1> QED BY <1>4, <1>8, <1>9

\* A place that is due stands for this tick, in which its task has not run.
LEMMA DueIsNow ==
  ASSUME DueInv, stage \in Kinds, NEW p \in queue[stage], p[1] <= counter,
         p[2] \in DOMAIN tasks
  PROVE  /\ NextRun(p) = counter /\ First(p[2]) <= counter /\ ~Ran(p[2], counter)
         /\ asked[p[2]].period > 0 => p[1] = counter
<1>1. /\ p[2] \in DOMAIN asked /\ p[1] \in Nat /\ NextRun(p) \in Nat /\ counter \in Nat
      /\ First(p[2]) \in Nat /\ asked[p[2]].period \in Nat /\ asked[p[2]].on \in Nat
      /\ First(p[2]) = asked[p[2]].due \/ First(p[2]) = asked[p[2]].on + 1
  BY PlaceType, FirstType DEF DueInv
<1>2. NextRun(p) > counter - 1
  BY DEF DueInv, Pending, Handled, Kinds
<1>3. asked[p[2]].on < counter
  BY <1>1 DEF DueInv, Requests, Kinds
<1>4. IF asked[p[2]].period = 0 THEN p[1] = asked[p[2]].due ELSE p[1] >= First(p[2])
  BY DEF DueInv, Pending
<1>5. NextRun(p) = counter /\ First(p[2]) <= counter
  BY <1>1, <1>2, <1>3, <1>4 DEF NextRun
<1>6. ~Ran(p[2], counter)
  BY <1>1, <1>5 DEF DueInv, Pending
<1> QED BY <1>1, <1>5, <1>6 DEF NextRun

\* The place of a task that is no more is dropped (scheduler_manager.rs:198-203).
LEMMA DroppedKeeps ==
  ASSUME DueInv, TaskTypeOK', stage \in Kinds, NEW p \in queue[stage],
         p[2] \notin DOMAIN tasks,
         queue' = [queue EXCEPT ![stage] = queue[stage] \ {p}],
         tasks' = Without(tasks, p[2]),
         UNCHANGED <<runs, counter, current_tick, next_task, stage, asked>>
  PROVE  DueInv'
<1>1. /\ DOMAIN tasks' = DOMAIN tasks /\ \A i \in DOMAIN tasks : tasks'[i] = tasks[i]
  BY DEF Without
<1>2. \A k \in Kinds : queue'[k] = IF k = stage THEN queue[k] \ {p} ELSE queue[k]
  BY DEF DueInv, TaskTypeOK
<1>3. /\ \A i : First(i)' = First(i)
      /\ \A i, t : OnBeat(i, t)' = OnBeat(i, t) /\ Ran(i, t)' = Ran(i, t)
      /\ \A q : NextRun(q)' = NextRun(q)
      /\ \A k : Handled(k)' = Handled(k)
  BY DEF First, OnBeat, NextRun, Ran, Handled
<1>4. \A k \in Kinds : queue'[k] \subseteq queue[k]
  BY <1>2
<1>5. Alive'
  <2> SUFFICES ASSUME NEW i \in DOMAIN tasks
               PROVE  \E q \in queue'[asked[i].kind] : q[2] = i
    BY <1>1 DEF DueInv, Alive
  <2>1. PICK q \in queue[asked[i].kind] : q[2] = i
    BY DEF DueInv, Alive
  <2>2. asked[i].kind \in Kinds
    BY FirstType DEF DueInv, TaskTypeOK
  <2>3. q # p
    BY <2>1
  <2> QED BY <1>2, <2>1, <2>2, <2>3
<1>6. Places'
  BY <1>4 DEF DueInv, Places
<1>7. Pending'
  BY <1>1, <1>3, <1>4 DEF DueInv, Pending
<1>8. Finished'
  BY <1>1, <1>3 DEF DueInv, Finished
<1>9. Ordered'
  <2>1. \A i : Place(i)' = Place(i)
    BY DEF Place
  <2> QED BY <1>4, <2>1 DEF DueInv, Ordered
<1>10. Requests' /\ Executions' /\ TasksInOrder'
  BY DEF DueInv, Requests, Executions, TasksInOrder, Place
<1> QED BY <1>5, <1>6, <1>7, <1>8, <1>9, <1>10 DEF DueInv

\* One more execution.
LEMMA RanMore ==
  ASSUME DueInv, NEW id, runs' = Append(runs, <<counter, id>>), id \in Nat
  PROVE  \A i, t : Ran(i, t)' <=> Ran(i, t) \/ (i = id /\ t = counter)
<1>1. runs \in Seq(Nat \X Nat) /\ <<counter, id>> \in Nat \X Nat
  BY DEF DueInv, Executions, TaskTypeOK
<1>2. /\ DOMAIN runs' = DOMAIN runs \cup {Len(runs) + 1}
      /\ runs'[Len(runs) + 1] = <<counter, id>>
      /\ \A i \in DOMAIN runs : runs'[i] = runs[i]
  BY <1>1, AppendProperties
<1> QED BY <1>2 DEF Ran

\* A task that is not repeated is gone when it has run
\* (scheduler_manager.rs:204-215).
LEMMA OnceKeeps ==
  ASSUME DueInv, TaskTypeOK', stage \in Kinds, NEW p \in queue[stage], NEW id, id = p[2],
         id \in DOMAIN tasks, asked[id].period = 0, p[1] <= counter,
         \A q \in queue[stage] : Before(p, q),
         runs' = Append(runs, <<counter, id>>),
         queue' = [queue EXCEPT ![stage] = queue[stage] \ {p}],
         tasks' = Without(tasks, id),
         UNCHANGED <<counter, current_tick, next_task, stage, asked>>
  PROVE  DueInv'
<1>0. /\ counter \in Nat /\ id \in Nat /\ id \in DOMAIN asked /\ asked[id].kind = stage
      /\ First(id) \in Nat
  BY PlaceOfTask
<1>1. /\ DOMAIN tasks' = DOMAIN tasks \ {id} /\ \A i \in DOMAIN tasks' : tasks'[i] = tasks[i]
  BY DEF Without
<1>2. \A k \in Kinds : queue'[k] = IF k = stage THEN queue[k] \ {p} ELSE queue[k]
  BY DEF DueInv, TaskTypeOK
<1>3. /\ \A i : First(i)' = First(i)
      /\ \A i, t : OnBeat(i, t)' = OnBeat(i, t)
      /\ \A q : NextRun(q)' = NextRun(q)
      /\ \A k : Handled(k)' = Handled(k)
  BY DEF First, OnBeat, NextRun, Handled
<1>4. \A i, t : Ran(i, t)' <=> Ran(i, t) \/ (i = id /\ t = counter)
  BY <1>0, RanMore
<1>5. /\ NextRun(p) = counter /\ ~Ran(id, counter)
      /\ NextRun(p) = First(id)
      /\ \A t \in Nat : ~Ran(id, t)
  <2>1. NextRun(p) = counter /\ ~Ran(id, counter) /\ NextRun(p) = First(id)
    BY DueIsNow DEF NextRun
  <2>2. \A t \in Nat : Ran(id, t) <=> OnBeat(id, t) /\ First(id) <= t /\ t < NextRun(p)
    BY DEF DueInv, Pending
  <2> QED BY <1>0, <2>1, <2>2
<1>6. \A k \in Kinds : queue'[k] \subseteq queue[k]
  BY <1>2
<1>7. Alive'
  <2> SUFFICES ASSUME NEW i \in DOMAIN tasks, i # id
               PROVE  \E q \in queue'[asked[i].kind] : q[2] = i
    BY <1>1 DEF DueInv, Alive
  <2>1. PICK q \in queue[asked[i].kind] : q[2] = i
    BY DEF DueInv, Alive
  <2>2. asked[i].kind \in Kinds
    BY FirstType DEF DueInv, TaskTypeOK
  <2>3. q # p
    BY <2>1
  <2> QED BY <1>2, <2>1, <2>2, <2>3
<1>8. Places'
  BY <1>6 DEF DueInv, Places
<1>9. Pending'
  BY <1>1, <1>3, <1>4, <1>6 DEF DueInv, Pending
<1>10. Finished'
  <2>1. asked[id].off = Never
    BY DEF DueInv, Alive
  <2>2. \A t \in Nat : Ran(id, t)' <=> t = First(id)
    BY <1>4, <1>5
  <2>3. \A i : i # id => \A t \in Nat : Ran(i, t)' <=> Ran(i, t)
    BY <1>4
  <2>4. First(id) <= counter
    BY <1>0, <1>5
  <2> QED BY <1>1, <1>3, <2>1, <2>2, <2>3, <2>4 DEF DueInv, Finished
<1>11. Executions' /\ Ordered' /\ TasksInOrder'
  <2>1. queue'[stage] \subseteq queue[stage] \cup {q \in Nat \X Nat : p[1] < q[1]}
    BY <1>6
  <2>2. \A q \in queue'[stage] : Before(p, q)
    BY <1>6
  <2>3. ~(asked[id].period > 0)
    OBVIOUS
  <2> QED BY <1>5, <2>1, <2>2, <2>3, ExecutedInOrder
<1>12. Requests'
  BY DEF DueInv, Requests
<1> QED BY <1>7, <1>8, <1>9, <1>10, <1>11, <1>12 DEF DueInv

\* A repeated task is due again one period later, and at no tick in between
\* (scheduler_manager.rs:216-229).
LEMMA RepeatKeeps ==
  ASSUME DueInv, TaskTypeOK', stage \in Kinds, NEW p \in queue[stage], NEW id, id = p[2],
         id \in DOMAIN tasks, asked[id].period > 0, p[1] <= counter,
         \A q \in queue[stage] : Before(p, q),
         runs' = Append(runs, <<counter, id>>), NEW r, r = <<p[1] + asked[id].period, id>>,
         queue' = [queue EXCEPT ![stage] = (queue[stage] \ {p}) \cup {r}],
         tasks' = tasks,
         UNCHANGED <<counter, current_tick, next_task, stage, asked>>
  PROVE  DueInv'
<1>0. /\ counter \in Nat /\ id \in Nat /\ id \in DOMAIN asked /\ asked[id].kind = stage
      /\ First(id) \in Nat /\ asked[id].period \in Nat \ {0} /\ p[1] \in Nat
  BY PlaceOfTask
<1>2. \A k \in Kinds : queue'[k] = IF k = stage THEN (queue[k] \ {p}) \cup {r} ELSE queue[k]
  BY DEF DueInv, TaskTypeOK
<1>3. /\ \A i : First(i)' = First(i)
      /\ \A i, t : OnBeat(i, t)' = OnBeat(i, t)
      /\ \A q : NextRun(q)' = NextRun(q)
      /\ \A k : Handled(k)' = Handled(k)
  BY DEF First, OnBeat, NextRun, Handled
<1>4. \A i, t : Ran(i, t)' <=> Ran(i, t) \/ (i = id /\ t = counter)
  BY <1>0, RanMore
<1>5. p[1] = counter /\ NextRun(p) = counter /\ ~Ran(id, counter) /\ First(id) <= counter
  BY DueIsNow
<1>6. /\ OnBeat(id, counter)
      /\ \A t \in Nat : Ran(id, t) <=> OnBeat(id, t) /\ First(id) <= t /\ t < counter
  BY <1>0, <1>5 DEF DueInv, Pending
<1>7. /\ r[1] = counter + asked[id].period /\ r[2] = id /\ r[1] \in Nat /\ NextRun(r) = r[1]
      /\ r[1] > counter /\ r \in Nat \X Nat
  BY <1>0, <1>5 DEF NextRun
<1>8. /\ OnBeat(id, r[1])
      /\ \A t \in Nat : counter < t /\ t < r[1] => ~OnBeat(id, t)
  <2>1. PICK c, f : c = asked[id].period /\ f = First(id)
    OBVIOUS
  <2>2. PICK x : x = counter - f
    OBVIOUS
  <2>3. \A t : OnBeat(id, t) <=> (t - f) % c = 0
    <3>1. asked[id].period # 0
      BY <1>0
    <3> QED BY <2>1, <3>1, Zenon DEF OnBeat
  <2>4. c \in Nat \ {0} /\ f \in Nat /\ x \in Nat /\ r[1] - f = x + c
    BY <1>0, <1>5, <1>7, <2>1, <2>2
  <2>5. x % c = 0
    BY <1>6, <2>2, <2>3, Zenon
  <2>6. (x + c) % c = 0 /\ \A y \in Nat : x < y /\ y < x + c => y % c # 0
    BY <2>4, <2>5, NextBeat
  <2>7. OnBeat(id, r[1])
    BY <2>3, <2>4, <2>6, Zenon
  <2>8. ASSUME NEW t \in Nat, counter < t, t < r[1]
        PROVE  ~OnBeat(id, t)
    <3>1. t - f \in Nat /\ x < t - f /\ t - f < x + c
      <4>1. counter \in Nat /\ r[1] \in Nat
        BY <1>0, <1>7
      <4> QED BY <2>2, <2>4, <2>8, <4>1
    <3>2. (t - f) % c # 0
      BY <2>6, <3>1, Zenon
    <3> QED BY <2>3, <3>2, Zenon
  <2> QED BY <2>7, <2>8
<1>9. \A k \in Kinds : \A q \in queue'[k] :
        \/ q \in queue[k] /\ (q[2] # id)
        \/ q = r /\ k = stage
  <2> SUFFICES ASSUME NEW k \in Kinds, NEW q \in queue'[k]
               PROVE  (q \in queue[k] /\ q[2] # id) \/ (q = r /\ k = stage)
    OBVIOUS
  <2>1. queue'[k] = IF k = stage THEN (queue[k] \ {p}) \cup {r} ELSE queue[k]
    BY <1>2
  <2>2. Places
    BY DEF DueInv
  <2>3. CASE k = stage
    <3>1. q = r \/ (q \in queue[k] /\ q # p)
      BY <2>1, <2>3
    <3>2. q \in queue[k] /\ q # p => q[2] # id
      BY <2>2, <2>3 DEF Places
    <3> QED BY <2>3, <3>1, <3>2
  <2>4. CASE k # stage
    <3>1. q \in queue[k]
      BY <2>1, <2>4
    <3>2. asked[q[2]].kind = k
      BY <2>2, <3>1 DEF Places
    <3> QED BY <1>0, <2>4, <3>1, <3>2
  <2> QED BY <2>3, <2>4
<1>10. Alive'
  <2> SUFFICES ASSUME NEW i \in DOMAIN tasks
               PROVE  \E q \in queue'[asked[i].kind] : q[2] = i
    BY DEF DueInv, Alive
  <2>1. PICK q \in queue[asked[i].kind] : q[2] = i
    BY DEF DueInv, Alive
  <2>2. asked[i].kind \in Kinds
    BY FirstType DEF DueInv, TaskTypeOK
  <2>3. CASE i = id
    BY <1>0, <1>2, <1>7, <2>3
  <2>4. CASE i # id
    <3>1. q # p
      BY <2>1, <2>4
    <3> QED BY <1>2, <2>1, <2>2, <3>1
  <2> QED BY <2>3, <2>4
<1>11. Places'
  <2>1. ASSUME NEW k \in Kinds, NEW q \in queue'[k]
        PROVE  asked[q[2]].kind = k
    BY <1>0, <1>7, <1>9, <2>1 DEF DueInv, Places
  <2>2. ASSUME NEW k \in Kinds, NEW q \in queue'[k], NEW s \in queue'[k], q[2] = s[2]
        PROVE  q = s
    <3>1. CASE q[2] = id
      BY <1>9, <2>2, <3>1
    <3>2. CASE q[2] # id
      <4>1. q \in queue[k] /\ s \in queue[k]
        BY <1>7, <1>9, <2>2, <3>2
      <4> QED BY <2>2, <4>1 DEF DueInv, Places
    <3> QED BY <3>1, <3>2
  <2> QED BY <2>1, <2>2 DEF Places
<1>12. Pending'
  <2> SUFFICES ASSUME NEW k \in Kinds, NEW q \in queue'[k], q[2] \in DOMAIN tasks
               PROVE  /\ IF asked[q[2]].period = 0
                         THEN q[1] = asked[q[2]].due
                         ELSE q[1] >= First(q[2]) /\ OnBeat(q[2], q[1])
                      /\ NextRun(q) > Handled(k)
                      /\ \A t \in Nat : Ran(q[2], t)'
                           <=> OnBeat(q[2], t) /\ First(q[2]) <= t /\ t < NextRun(q)
    BY <1>3 DEF Pending
  <2>1. CASE q \in queue[k] /\ q[2] # id
    <3>1. \A t \in Nat : Ran(q[2], t)' <=> Ran(q[2], t)
      BY <1>4, <2>1
    <3> QED BY <2>1, <3>1 DEF DueInv, Pending
  <2>2. CASE q = r
    <3>1. r[1] > Handled(k)
      BY <1>0, <1>7 DEF Handled
    <3>2. \A t \in Nat : Ran(id, t)' <=> OnBeat(id, t) /\ First(id) <= t /\ t < r[1]
      BY <1>0, <1>4, <1>5, <1>6, <1>7, <1>8
    <3>3. r[1] >= First(id)
      BY <1>0, <1>5, <1>7
    <3>4. q[2] = id /\ q[1] = r[1] /\ NextRun(q) = r[1]
      BY <1>7, <2>2
    <3> QED BY <1>0, <1>8, <3>1, <3>2, <3>3, <3>4
  <2> QED BY <1>9, <2>1, <2>2
<1>13. Finished'
  <2>1. \A i \in DOMAIN asked \ DOMAIN tasks : \A t \in Nat : Ran(i, t)' <=> Ran(i, t)
    BY <1>4
  <2> QED BY <1>3, <2>1 DEF DueInv, Finished
<1>14. Executions' /\ Ordered' /\ TasksInOrder'
  <2>1. queue'[stage] \subseteq queue[stage] \cup {q \in Nat \X Nat : p[1] < q[1]}
    BY <1>2, <1>5, <1>7
  <2>2. \A q \in queue'[stage] : Before(p, q)
    BY <1>2, <1>5, <1>7 DEF Before
  <2> QED BY <1>5, <2>1, <2>2, ExecutedInOrder
<1>15. Requests'
  BY DEF DueInv, Requests
<1> QED BY <1>10, <1>11, <1>12, <1>13, <1>14, <1>15 DEF DueInv

\* Whatever the first place is of.
LEMMA PopDueKeeps ==
  ASSUME DueInv, PopDue
  PROVE  DueInv'
<1>1. PICK p : p = Peek(stage)
  OBVIOUS
<1>2. PICK id : id = p[2]
  OBVIOUS
<1>3. stage \in Kinds /\ queue[stage] # {} /\ current_tick = counter
  BY DEF PopDue, DueNow, DueInv, TaskTypeOK
<1>4. p \in queue[stage] /\ \A q \in queue[stage] : Before(p, q)
  BY <1>1, <1>3, PeekIsFirst DEF DueInv
<1>5. p[1] <= counter
  BY <1>1, <1>3 DEF PopDue, DueNow
<1>6. TaskTypeOK' /\ UNCHANGED <<counter, current_tick, next_task, stage, asked>>
  BY PopDueType DEF DueInv, PopDue
<1>7. CASE id \notin DOMAIN tasks \/ tasks[id].kind # stage
  <2>1. id \notin DOMAIN tasks
    BY <1>2, <1>3, <1>4, <1>7 DEF DueInv, Alive, Places
  <2>2. /\ queue' = [queue EXCEPT ![stage] = queue[stage] \ {p}]
        /\ tasks' = Without(tasks, id) /\ runs' = runs
    BY <1>1, <1>2, <1>7 DEF PopDue
  <2> QED BY <1>2, <1>3, <1>4, <1>6, <2>1, <2>2, DroppedKeeps
<1>8. CASE id \in DOMAIN tasks /\ tasks[id].kind = stage
  <2>1. tasks[id].period = asked[id].period /\ asked[id].period \in Nat
    BY <1>8, FirstType DEF DueInv, Alive, TaskTypeOK
  <2>2. runs' = Append(runs, <<counter, id>>)
    BY <1>1, <1>2, <1>3, <1>8 DEF PopDue
  <2>3. CASE asked[id].period = 0
    <3>1. /\ queue' = [queue EXCEPT ![stage] = queue[stage] \ {p}]
          /\ tasks' = Without(tasks, id)
      BY <1>1, <1>2, <1>8, <2>1, <2>3 DEF PopDue
    <3> QED BY <1>2, <1>3, <1>4, <1>5, <1>6, <1>8, <2>2, <2>3, <3>1, OnceKeeps
  <2>4. CASE asked[id].period > 0
    <3>1. /\ queue' = [queue EXCEPT ![stage] = (queue[stage] \ {p})
                                       \cup {<<p[1] + asked[id].period, id>>}]
          /\ tasks' = tasks
      BY <1>1, <1>2, <1>8, <2>1, <2>4 DEF PopDue
    <3> QED BY <1>2, <1>3, <1>4, <1>5, <1>6, <1>8, <2>2, <2>4, <3>1, RepeatKeeps
  <2> QED BY <2>1, <2>3, <2>4
<1> QED BY <1>7, <1>8
----------------------------------------------------------------------------
(* The theorems *)

\* The invariant says when each task runs.
LEMMA DueIsWhen == DueInv => RunsWhenDue
<1> SUFFICES ASSUME DueInv PROVE RunsWhenDue
  OBVIOUS
<1>0. counter \in Nat /\ DOMAIN tasks \subseteq DOMAIN asked
  BY DEF DueInv, TaskTypeOK
<1>1. ASSUME stage = "idle", NEW id \in DOMAIN asked
      PROVE  RunTicks(id) = DueTicks(id)
  <2> DEFINE last == IF asked[id].off = Never THEN counter ELSE asked[id].off
  <2>0. /\ First(id) \in Nat /\ asked[id].off \in Nat \cup {Never} /\ asked[id].period \in Nat
        /\ last \in Nat
    BY <1>0, FirstType DEF DueInv
  <2>1. \A t \in Nat : Ran(id, t) <=> OnBeat(id, t) /\ First(id) <= t /\ t <= last
    <3>1. CASE id \in DOMAIN tasks
      <4>1. asked[id].off = Never
        BY <3>1 DEF DueInv, Alive
      <4> QED BY <1>1, <3>1, <4>1, RanSoFar
    <3>2. CASE id \notin DOMAIN tasks
      <4>1. CASE /\ asked[id].off # Never
                 /\ \A t \in Nat : Ran(id, t) <=> OnBeat(id, t) /\ First(id) <= t /\ t <= asked[id].off
        BY <4>1
      <4>2. CASE /\ asked[id].off = Never /\ asked[id].period = 0 /\ First(id) <= counter
                 /\ \A t \in Nat : Ran(id, t) <=> t = First(id)
        BY <1>0, <2>0, <4>2 DEF OnBeat
      <4> QED BY <3>2, <4>1, <4>2 DEF DueInv, Finished
    <3> QED BY <3>1, <3>2
  <2>2. DueTicks(id) = {t \in First(id) .. last : OnBeat(id, t)}
    BY DEF DueTicks, First, OnBeat
  <2>3. RunTicks(id) = {t \in Nat : Ran(id, t)}
    <3>1. \A i \in DOMAIN runs : runs[i] = <<runs[i][1], runs[i][2]>> /\ runs[i][1] \in Nat
      BY DEF DueInv, Executions
    <3> QED BY <3>1 DEF RunTicks, Ran
  <2> HIDE DEF last
  <2> QED BY <2>0, <2>1, <2>2, <2>3
<1> QED BY <1>1 DEF RunsWhenDue, DueInv, Executions

\* The loop uses the scheduler of tasks only by its operations.
LEMMA LoopKeepsDue == SSpec => []DueInv
<1>1. SInit => DueInv
  BY InitDue DEF SInit
<1>2. DueInv /\ [SNext]_svars => DueInv'
  <2> SUFFICES ASSUME DueInv, [SNext]_svars PROVE DueInv'
    OBVIOUS
  <2>1. CASE SchedulerTick
    BY <2>1, SchedulerTickKeeps
  <2>2. CASE Scheduling
    BY <2>2, SchedulingKeeps
  <2>3. CASE Cancelling
    BY <2>3, CancellingKeeps
  <2>4. CASE Draining
    BY <2>4, PopDueKeeps, HeapDoneKeeps DEF Draining
  <2>5. CASE UNCHANGED tvars
    <3>1. UNCHANGED <<counter, current_tick, queue, tasks, next_task, stage, asked, runs>>
      BY <2>5 DEF tvars
    <3>2. /\ \A i : First(i)' = First(i) /\ Place(i)' = Place(i)
          /\ \A i, t : OnBeat(i, t)' = OnBeat(i, t) /\ Ran(i, t)' = Ran(i, t)
          /\ \A p : NextRun(p)' = NextRun(p)
          /\ \A k : Handled(k)' = Handled(k)
      BY <3>1 DEF First, Place, OnBeat, Ran, NextRun, Handled
    <3>3. TaskTypeOK' /\ Requests' /\ Alive' /\ Places' /\ Executions'
      BY <3>1 DEF DueInv, TaskTypeOK, Requests, Alive, Places, Executions
    <3>4. Pending' /\ Finished'
      BY <3>1, <3>2 DEF DueInv, Pending, Finished
    <3>5. Ordered' /\ TasksInOrder'
      BY <3>1, <3>2 DEF DueInv, Ordered, TasksInOrder
    <3> QED BY <3>3, <3>4, <3>5 DEF DueInv
  <2> QED BY <2>1, <2>2, <2>3, <2>4, <2>5 DEF SNext, UpdateBegins, RunTasks, Systems, SetUp,
       Sharing, GiveBack, RoundBegins, RoundWork, RoundEnds, Stop, Stopped, svars
<1> QED BY <1>1, <1>2, PTL DEF SSpec

\* Between two turns every task has run at exactly the ticks that it was due at,
\* and no task ran twice in one, whatever was scheduled and cancelled
\* (scheduler_manager.rs:160-162, 189-232).
THEOREM RunExactlyWhenDue == SSpec => []RunsWhenDue
  BY LoopKeepsDue, DueIsWhen, PTL

\* The tasks of a tick run in the order in which they were due and then were
\* scheduled, those of the end of the tick last (scheduler_manager.rs:165-181).
THEOREM RunInOrder == SSpec => []TasksInOrder
<1>1. DueInv => TasksInOrder
  BY DEF DueInv
<1> QED BY <1>1, LoopKeepsDue, PTL

==============================================================================
