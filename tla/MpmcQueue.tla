----------------------------- MODULE MpmcQueue -----------------------------
(***************************************************************************)
(* The bounded lock-free ring of ecs/src/queue.rs (MpmcQueue<T>), one      *)
(* action per atomic access: a thread's position is read, the slot's       *)
(* sequence number is read, the position is claimed by a weak              *)
(* compare-and-exchange, the value cell is written (read) with no          *)
(* protection of its own, and the sequence number is stored.  Any number   *)
(* of threads push, pop and ask for the length at the same time.           *)
(*                                                                         *)
(* `entered' and `left' record history: the values in the order in which   *)
(* their positions were claimed, and which value was read at which         *)
(* position.  Positions are unbounded here; in the code they are usize and *)
(* wrap after 2^64 operations.                                             *)
(***************************************************************************)
EXTENDS Naturals, Integers, Sequences, FiniteSets

CONSTANTS
  Threads,    \* threads that share the queue
  Values,     \* values pushed
  Capacity,   \* slots in the ring; the code's is a power of two, 8 at least
  MaxPush,    \* bound: no push is called once this many positions are claimed
  NoValue     \* an uninitialised value cell

ASSUME CapacityAssumption == Capacity \in Nat /\ Capacity >= 2
ASSUME MaxPushAssumption  == MaxPush \in Nat
ASSUME ValueAssumption    == /\ NoValue \notin Values
                             /\ \A v \in Values \cup {NoValue} :
                                  v \notin {"idle", "busy", "ok", "full", "none", "len"}

VARIABLES
  enqueue_pos,  \* next position to push at
  dequeue_pos,  \* next position to pop at
  sequence,     \* sequence[i]: sequence number of slot i
  value,        \* value[i]: the value cell of slot i
  pc,           \* pc[t]: the access thread t makes next
  pos,          \* pos[t]: its local copy of the position
  arg,          \* arg[t]: the value it pushes
  result,       \* result[t]: outcome of its last operation, "busy" during one
  entered,      \* history: values in claim order
  left          \* history: <<position, value read there>>

vars == <<enqueue_pos, dequeue_pos, sequence, value, pc, pos, arg, result,
          entered, left>>

Slots == 0 .. Capacity - 1

\* The slot of a position: pos & mask.
Slot(p) == p % Capacity

Writing(t) == pc[t] \in {"push_write", "push_publish"}
Reading(t) == pc[t] \in {"pop_read", "pop_release"}

----------------------------------------------------------------------------

Init ==
  /\ enqueue_pos = 0
  /\ dequeue_pos = 0
  /\ sequence = [i \in Slots |-> i]
  /\ value = [i \in Slots |-> NoValue]
  /\ pc = [t \in Threads |-> "idle"]
  /\ pos = [t \in Threads |-> 0]
  /\ arg = [t \in Threads |-> NoValue]
  /\ result = [t \in Threads |-> "idle"]
  /\ entered = <<>>
  /\ left = {}

Goto(t, from, to) ==
  /\ pc[t] = from
  /\ pc' = [pc EXCEPT ![t] = to]

Return(t, r) ==
  result' = [result EXCEPT ![t] = r]

----------------------------------------------------------------------------
(* push *)

PushBegin(t, v) ==
  /\ enqueue_pos < MaxPush
  /\ Goto(t, "idle", "push_seq")
  /\ pos' = [pos EXCEPT ![t] = enqueue_pos]
  /\ arg' = [arg EXCEPT ![t] = v]
  /\ Return(t, "busy")
  /\ UNCHANGED <<enqueue_pos, dequeue_pos, sequence, value, entered, left>>

\* The slot's sequence number is compared with the position: the slot is free
\* for it, ...
PushSlotFree(t) ==
  /\ sequence[Slot(pos[t])] = pos[t]
  /\ Goto(t, "push_seq", "push_cas")
  /\ UNCHANGED <<enqueue_pos, dequeue_pos, sequence, value, pos, arg, result,
                 entered, left>>

\* ... or still belongs to the previous round, ...
PushFull(t) ==
  /\ sequence[Slot(pos[t])] < pos[t]
  /\ Goto(t, "push_seq", "idle")
  /\ Return(t, "full")
  /\ UNCHANGED <<enqueue_pos, dequeue_pos, sequence, value, pos, arg, entered,
                 left>>

\* ... or was taken by another producer: read the position again.
PushOvertaken(t) ==
  /\ sequence[Slot(pos[t])] > pos[t]
  /\ Goto(t, "push_seq", "push_reload")
  /\ UNCHANGED <<enqueue_pos, dequeue_pos, sequence, value, pos, arg, result,
                 entered, left>>

PushReload(t) ==
  /\ Goto(t, "push_reload", "push_seq")
  /\ pos' = [pos EXCEPT ![t] = enqueue_pos]
  /\ UNCHANGED <<enqueue_pos, dequeue_pos, sequence, value, arg, result,
                 entered, left>>

\* Mutant: the position is stored, not exchanged.
PushClaimByStore(t) ==
  /\ Goto(t, "push_cas", "push_write")
  /\ enqueue_pos' = pos[t] + 1
  /\ entered' = Append(entered, arg[t])
  /\ UNCHANGED <<dequeue_pos, sequence, value, pos, arg, result, left>>

PushClaim(t) ==
  /\ enqueue_pos = pos[t]
  /\ Goto(t, "push_cas", "push_write")
  /\ enqueue_pos' = pos[t] + 1
  /\ entered' = Append(entered, arg[t])
  /\ UNCHANGED <<dequeue_pos, sequence, value, pos, arg, result, left>>

\* compare_exchange_weak may also fail when the position has not moved.
PushClaimFails(t) ==
  /\ Goto(t, "push_cas", "push_seq")
  /\ pos' = [pos EXCEPT ![t] = enqueue_pos]
  /\ UNCHANGED <<enqueue_pos, dequeue_pos, sequence, value, arg, result,
                 entered, left>>

PushWrite(t) ==
  /\ Goto(t, "push_write", "push_publish")
  /\ value' = [value EXCEPT ![Slot(pos[t])] = arg[t]]
  /\ UNCHANGED <<enqueue_pos, dequeue_pos, sequence, pos, arg, result, entered,
                 left>>

PushPublish(t) ==
  /\ Goto(t, "push_publish", "idle")
  /\ sequence' = [sequence EXCEPT ![Slot(pos[t])] = pos[t] + 1]
  /\ Return(t, "ok")
  /\ UNCHANGED <<enqueue_pos, dequeue_pos, value, pos, arg, entered, left>>

----------------------------------------------------------------------------
(* pop *)

\* Mutant: the position before the next one is taken.
PopBeginBehind(t) ==
  /\ Goto(t, "idle", "pop_seq")
  /\ pos' = [pos EXCEPT ![t] = dequeue_pos - 1]
  /\ arg' = [arg EXCEPT ![t] = NoValue]
  /\ Return(t, "busy")
  /\ UNCHANGED <<enqueue_pos, dequeue_pos, sequence, value, entered, left>>

PopBegin(t) ==
  /\ Goto(t, "idle", "pop_seq")
  /\ pos' = [pos EXCEPT ![t] = dequeue_pos]
  /\ arg' = [arg EXCEPT ![t] = NoValue]
  /\ Return(t, "busy")
  /\ UNCHANGED <<enqueue_pos, dequeue_pos, sequence, value, entered, left>>

\* Mutant: a slot still being written passes for a ready one.
PopSlotClaimed(t) ==
  /\ sequence[Slot(pos[t])] \in {pos[t], pos[t] + 1}
  /\ Goto(t, "pop_seq", "pop_cas")
  /\ UNCHANGED <<enqueue_pos, dequeue_pos, sequence, value, pos, arg, result,
                 entered, left>>

PopSlotReady(t) ==
  /\ sequence[Slot(pos[t])] = pos[t] + 1
  /\ Goto(t, "pop_seq", "pop_cas")
  /\ UNCHANGED <<enqueue_pos, dequeue_pos, sequence, value, pos, arg, result,
                 entered, left>>

\* Mutant: a position overtaken by another consumer passes for an empty queue.
PopNoneOvertaken(t) ==
  /\ sequence[Slot(pos[t])] # pos[t] + 1
  /\ Goto(t, "pop_seq", "idle")
  /\ Return(t, "none")
  /\ UNCHANGED <<enqueue_pos, dequeue_pos, sequence, value, pos, arg, entered,
                 left>>

\* Mutant: a slot that is ready passes for an empty one as well.
PopNoneReady(t) ==
  /\ sequence[Slot(pos[t])] <= pos[t] + 1
  /\ Goto(t, "pop_seq", "idle")
  /\ Return(t, "none")
  /\ UNCHANGED <<enqueue_pos, dequeue_pos, sequence, value, pos, arg, entered,
                 left>>

PopNone(t) ==
  /\ sequence[Slot(pos[t])] < pos[t] + 1
  /\ Goto(t, "pop_seq", "idle")
  /\ Return(t, "none")
  /\ UNCHANGED <<enqueue_pos, dequeue_pos, sequence, value, pos, arg, entered,
                 left>>

PopOvertaken(t) ==
  /\ sequence[Slot(pos[t])] > pos[t] + 1
  /\ Goto(t, "pop_seq", "pop_reload")
  /\ UNCHANGED <<enqueue_pos, dequeue_pos, sequence, value, pos, arg, result,
                 entered, left>>

PopReload(t) ==
  /\ Goto(t, "pop_reload", "pop_seq")
  /\ pos' = [pos EXCEPT ![t] = dequeue_pos]
  /\ UNCHANGED <<enqueue_pos, dequeue_pos, sequence, value, arg, result,
                 entered, left>>

\* Mutant: the position is stored, not exchanged.
PopClaimByStore(t) ==
  /\ Goto(t, "pop_cas", "pop_read")
  /\ dequeue_pos' = pos[t] + 1
  /\ UNCHANGED <<enqueue_pos, sequence, value, pos, arg, result, entered, left>>

PopClaim(t) ==
  /\ dequeue_pos = pos[t]
  /\ Goto(t, "pop_cas", "pop_read")
  /\ dequeue_pos' = pos[t] + 1
  /\ UNCHANGED <<enqueue_pos, sequence, value, pos, arg, result, entered, left>>

PopClaimFails(t) ==
  /\ Goto(t, "pop_cas", "pop_seq")
  /\ pos' = [pos EXCEPT ![t] = dequeue_pos]
  /\ UNCHANGED <<enqueue_pos, dequeue_pos, sequence, value, arg, result,
                 entered, left>>

\* Mutant: the value of the slot behind is read.
PopReadNext(t) ==
  /\ Goto(t, "pop_read", "pop_release")
  /\ arg' = [arg EXCEPT ![t] = value[Slot(pos[t] + 1)]]
  /\ value' = [value EXCEPT ![Slot(pos[t] + 1)] = NoValue]
  /\ left' = left \cup {<<pos[t], arg'[t]>>}
  /\ UNCHANGED <<enqueue_pos, dequeue_pos, sequence, pos, result, entered>>

\* assume_init_read moves the value out: the cell is uninitialised again.
PopRead(t) ==
  /\ Goto(t, "pop_read", "pop_release")
  /\ arg' = [arg EXCEPT ![t] = value[Slot(pos[t])]]
  /\ value' = [value EXCEPT ![Slot(pos[t])] = NoValue]
  /\ left' = left \cup {<<pos[t], value[Slot(pos[t])]>>}
  /\ UNCHANGED <<enqueue_pos, dequeue_pos, sequence, pos, result, entered>>

PopRelease(t) ==
  /\ Goto(t, "pop_release", "idle")
  /\ sequence' = [sequence EXCEPT ![Slot(pos[t])] = pos[t] + Capacity]
  /\ Return(t, arg[t])
  /\ UNCHANGED <<enqueue_pos, dequeue_pos, value, pos, arg, entered, left>>

----------------------------------------------------------------------------

PushStep(t) ==
  \/ PushSlotFree(t) \/ PushFull(t) \/ PushOvertaken(t) \/ PushReload(t)
  \/ PushClaim(t) \/ PushClaimFails(t) \/ PushWrite(t) \/ PushPublish(t)

PopStep(t) ==
  \/ PopSlotReady(t) \/ PopNone(t) \/ PopOvertaken(t) \/ PopReload(t)
  \/ PopClaim(t) \/ PopClaimFails(t) \/ PopRead(t) \/ PopRelease(t)

Next == \E t \in Threads :
  \/ \E v \in Values : PushBegin(t, v)
  \/ PopBegin(t)
  \/ PushStep(t)
  \/ PopStep(t)

Spec == Init /\ [][Next]_vars

----------------------------------------------------------------------------
(* Properties *)

Pushing(t) ==
  pc[t] \in {"push_seq", "push_cas", "push_reload", "push_write", "push_publish"}

\* Every variable stays in its set, and a thread that pushes has a value to push.
TypeOK ==
  /\ enqueue_pos \in Nat /\ dequeue_pos \in Nat
  /\ sequence \in [Slots -> Nat]
  /\ value \in [Slots -> Values \cup {NoValue}]
  /\ pc \in [Threads -> {"idle", "push_seq", "push_cas", "push_reload",
                         "push_write", "push_publish", "pop_seq", "pop_cas",
                         "pop_reload", "pop_read", "pop_release"}]
  /\ pos \in [Threads -> Nat]
  /\ arg \in [Threads -> Values \cup {NoValue}]
  /\ \A t \in Threads : Pushing(t) => arg[t] \in Values
  /\ result \in [Threads -> Values \cup {NoValue, "idle", "busy", "ok", "full", "none"}]
  /\ entered \in Seq(Values)
  /\ left \subseteq Nat \X (Values \cup {NoValue})

\* The unsafe accesses never race: while a thread is between its claim of a
\* position and its store of the sequence number, no other thread is at the
\* same slot (queue.rs:28-37, the claim behind `unsafe impl Sync').
SlotExclusive ==
  \A t, u \in Threads :
    /\ t # u
    /\ Writing(t) \/ Reading(t)
    /\ Writing(u) \/ Reading(u)
    => Slot(pos[t]) # Slot(pos[u])

\* The slot handed over is in the state the unsafe block relies on: the
\* debug_asserts on the sequence number hold (queue.rs:125, 127, 169), a push
\* never overwrites a live value, which would leak it, and a pop never reads an
\* uninitialised cell.
CellReady ==
  \A t \in Threads :
    /\ Writing(t) => sequence[Slot(pos[t])] = pos[t]
    /\ Reading(t) => sequence[Slot(pos[t])] = pos[t] + 1
    /\ pc[t] = "push_write" => value[Slot(pos[t])] = NoValue
    /\ pc[t] = "pop_read" => value[Slot(pos[t])] # NoValue

\* Nothing is lost, duplicated or swapped: what was read at a position is what
\* was pushed there, and a position that pops have passed has been read, or
\* the one thread that claimed it is about to read it.
Accounted ==
  /\ Len(entered) = enqueue_pos
  /\ \A x \in left : x[1] < dequeue_pos /\ x[2] = entered[x[1] + 1]
  /\ \A p \in 0 .. dequeue_pos - 1 :
       (\E v \in Values : <<p, v>> \in left)
         <=> ~ \E t \in Threads : pc[t] = "pop_read" /\ pos[t] = p

\* The line of BoundedFifo: the positions claimed by pushes and not by pops.
Line ==
  [k \in 1 .. enqueue_pos - dequeue_pos |->
     LET p == dequeue_pos + k - 1
     IN  [val  |-> entered[p + 1],
          done |-> ~ \E t \in Threads : Writing(t) /\ pos[t] = p]]

Held ==
  [t \in Threads |-> IF pc[t] = "pop_read" THEN entered[pos[t] + 1]
                     ELSE IF pc[t] = "pop_release" THEN arg[t] ELSE NoValue]

Fifo == INSTANCE BoundedFifo WITH line <- Line, held <- Held

\* The ring implements the bounded queue, in claim order: a pop returns the
\* head of the line, a push is refused only at capacity or while a pop is half
\* way, and a pop finds nothing only when the line is empty or its head is
\* still being written (queue.rs:134-136, 184-186).
ImplementsFifo == Fifo!Spec
=============================================================================
