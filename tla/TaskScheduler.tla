---------------------------- MODULE TaskScheduler ----------------------------
(***************************************************************************)
(* The scheduler of delayed and repeated tasks                             *)
(* (core/src/resource/scheduler_manager.rs) and the system that drives it  *)
(* once per tick (core/src/system/scheduler_tick.rs).  The two heaps hold  *)
(* (due tick, task id); a cancelled task leaves its place in its heap,     *)
(* which is skipped when it comes up.  A task is a closure that cannot     *)
(* reach the scheduler, so nothing is scheduled or cancelled while the     *)
(* due tasks run; each step of the model pops one place.                   *)
(***************************************************************************)
EXTENDS Integers, Sequences, FiniteSets

CONSTANTS
  Delays,     \* delays and absolute ticks that are asked for
  Periods     \* periods of repeated tasks

\* A task of period 0 would be due again as soon as it has run, and tick would
\* never return.
ASSUME TaskAssumption == Delays \subseteq Nat /\ Periods \subseteq Nat \ {0}

VARIABLES
  counter,       \* TickCounter
  current_tick,  \* of the scheduler
  queue,         \* queue["start"], queue["end"]: the heaps, sets of <<due, id>>
  tasks,         \* the tasks that are to run, by id
  next_task,     \* next_id
  stage,         \* "idle", or the heap being drained
  asked,         \* asked[id]: what was scheduled and when, and when it was cancelled
  runs           \* <<tick, id>> of each execution, in order

tvars == <<counter, current_tick, queue, tasks, next_task, stage, asked, runs>>

Kinds == {"start", "end"}
Never == -1

TaskInit ==
  /\ counter = 0
  /\ current_tick = 0
  /\ queue = [k \in Kinds |-> {}]
  /\ tasks = <<>>
  /\ next_task = 0
  /\ stage = "idle"
  /\ asked = <<>>
  /\ runs = <<>>

----------------------------------------------------------------------------
(* Scheduling *)

With(f, id, v) == [i \in DOMAIN f \cup {id} |-> IF i = id THEN v ELSE f[i]]
Without(f, id) == [i \in DOMAIN f \ {id} |-> f[i]]

\* insert(): period 0 stands for a task that is not repeated.
InsertTask(kind, due, period) ==
  /\ stage = "idle"
  /\ next_task' = next_task + 1
  /\ queue' = [queue EXCEPT ![kind] = @ \cup {<<due, next_task>>}]
  /\ tasks' = With(tasks, next_task, [kind |-> kind, period |-> period])
  /\ asked' = With(asked, next_task,
                   [kind |-> kind, due |-> due, period |-> period,
                    on |-> counter, off |-> Never])
  /\ UNCHANGED <<counter, current_tick, stage, runs>>

ScheduleAfter(delay) == InsertTask("start", current_tick + delay, 0)
ScheduleRepeat(period) == InsertTask("start", current_tick + period, period)
ScheduleAtTick(tick) == InsertTask("start", tick, 0)
ScheduleEndOfTick == InsertTask("end", current_tick, 0)

CancelTask(id) ==
  /\ stage = "idle"
  /\ id \in DOMAIN tasks
  /\ tasks' = Without(tasks, id)
  /\ asked' = [asked EXCEPT ![id].off = counter]
  /\ UNCHANGED <<counter, current_tick, queue, next_task, stage, runs>>

----------------------------------------------------------------------------
(* A tick: tick_begin drains the first heap, tick_end the second. *)

\* Mutant: the scheduler is given the counter before it is advanced.
SchedulerTickStale ==
  /\ stage = "idle"
  /\ counter' = counter + 1
  /\ current_tick' = counter
  /\ stage' = "start"
  /\ UNCHANGED <<queue, tasks, next_task, asked, runs>>

SchedulerTick ==
  /\ stage = "idle"
  /\ counter' = counter + 1
  /\ current_tick' = counter + 1
  /\ stage' = "start"
  /\ UNCHANGED <<queue, tasks, next_task, asked, runs>>

Before(p, q) == p[1] < q[1] \/ (p[1] = q[1] /\ p[2] <= q[2])

\* Mutant: the latest first, a heap without Reverse.
PeekLatest(k) == CHOOSE p \in queue[k] : \A q \in queue[k] : Before(q, p)

Peek(k) == CHOOSE p \in queue[k] : \A q \in queue[k] : Before(p, q)

\* Mutant: a task waits for the tick after the one it is due at.
DueNowLate(k) == queue[k] # {} /\ Peek(k)[1] < current_tick

DueNow(k) == queue[k] # {} /\ Peek(k)[1] <= current_tick

\* Mutant: the place of a cancelled task is skipped and not taken off.
PopDuePeeks ==
  /\ stage \in Kinds
  /\ DueNow(stage)
  /\ LET p == Peek(stage)
         id == p[2]
         rest == queue[stage] \ {p}
     IN IF id \in DOMAIN tasks
        THEN /\ runs' = Append(runs, <<current_tick, id>>)
             /\ IF tasks[id].period > 0
                THEN /\ queue' = [queue EXCEPT ![stage] = rest \cup {<<p[1] + tasks[id].period, id>>}]
                     /\ UNCHANGED tasks
                ELSE /\ queue' = [queue EXCEPT ![stage] = rest]
                     /\ tasks' = Without(tasks, id)
        ELSE UNCHANGED <<queue, tasks, runs>>
  /\ UNCHANGED <<counter, current_tick, next_task, stage, asked>>

\* The entry leaves the table while its closure runs; a repeated task is put
\* back, due one period after it was due.
PopDue ==
  /\ stage \in Kinds
  /\ DueNow(stage)
  /\ LET p == Peek(stage)
         id == p[2]
         rest == queue[stage] \ {p}
     IN IF id \in DOMAIN tasks /\ tasks[id].kind = stage
        THEN /\ runs' = Append(runs, <<current_tick, id>>)
             /\ IF tasks[id].period > 0
                THEN /\ queue' = [queue EXCEPT ![stage] = rest \cup {<<p[1] + tasks[id].period, id>>}]
                     /\ UNCHANGED tasks
                ELSE /\ queue' = [queue EXCEPT ![stage] = rest]
                     /\ tasks' = Without(tasks, id)
        ELSE /\ queue' = [queue EXCEPT ![stage] = rest]
             /\ tasks' = Without(tasks, id)
             /\ UNCHANGED runs
  /\ UNCHANGED <<counter, current_tick, next_task, stage, asked>>

HeapDone ==
  /\ stage \in Kinds
  /\ ~DueNow(stage)
  /\ stage' = IF stage = "start" THEN "end" ELSE "idle"
  /\ UNCHANGED <<counter, current_tick, queue, tasks, next_task, asked, runs>>

Scheduling ==
  \/ \E d \in Delays : ScheduleAfter(d) \/ ScheduleAtTick(d)
  \/ \E p \in Periods : ScheduleRepeat(p)
  \/ ScheduleEndOfTick

Cancelling == \E id \in DOMAIN tasks : CancelTask(id)

Draining == PopDue \/ HeapDone

----------------------------------------------------------------------------
(* Properties *)

TaskTypeOK ==
  /\ counter \in Nat
  /\ current_tick = counter
  /\ queue \in [Kinds -> SUBSET (Nat \X (0 .. next_task - 1))]
  /\ DOMAIN tasks \subseteq 0 .. next_task - 1
  /\ \A id \in DOMAIN tasks : tasks[id] \in [kind : Kinds, period : Periods \cup {0}]
  /\ next_task \in Nat
  /\ stage \in Kinds \cup {"idle"}
  /\ DOMAIN asked = 0 .. next_task - 1

\* The ticks at which a task had to run by now: the first tick after the one in
\* which it was scheduled that is not before its due tick and, for a repeated
\* task, every period from there; until it was cancelled.
DueTicks(id) ==
  LET a == asked[id]
      first == IF a.due > a.on THEN a.due ELSE a.on + 1
      last == IF a.off = Never THEN counter ELSE a.off
  IN {t \in first .. last : IF a.period = 0 THEN t = first ELSE (t - first) % a.period = 0}

RunTicks(id) == {runs[i][1] : i \in {j \in DOMAIN runs : runs[j][2] = id}}

\* Every task runs at exactly the ticks it is due at, and never twice in one, a
\* cancelled one no more although its place is still in the heap
\* (scheduler_manager.rs:160-162, 189-232).  Due is what the methods document:
\* the current tick and the delay (82, 94), or the next tick if that is past (113).
\* Two other comments say otherwise of the program.  The comment of a test
\* (scheduler_tick.rs:49) has a delay of 3 set before the first tick run in the
\* fourth; it runs in the third, and the test looks only after the fourth.  And a
\* task for the end of the tick (scheduler_manager.rs:14, 127-129) runs in the
\* turn it was scheduled in only if that was before scheduler_tick; scheduled by a
\* later system, it runs at the end of scheduler_tick in the next turn.
RunsWhenDue ==
  /\ stage = "idle" => \A id \in DOMAIN asked : RunTicks(id) = DueTicks(id)
  /\ \A i, j \in DOMAIN runs : i # j => runs[i] # runs[j]

\* Where the i-th execution stood in its heap.
Place(i) == LET a == asked[runs[i][2]] IN
  <<IF a.period = 0 THEN a.due ELSE runs[i][1], runs[i][2]>>

\* The tasks of a tick run in the order in which they were due and then were
\* scheduled, those of the end of the tick after the others
\* (scheduler_manager.rs:165-181, 189-232).
TasksInOrder ==
  \A i, j \in DOMAIN runs :
    i < j /\ runs[i][1] = runs[j][1] =>
      LET a == asked[runs[i][2]].kind
          b == asked[runs[j][2]].kind
      IN (a = "start" /\ b = "end") \/ (a = b /\ Before(Place(i), Place(j)))
=============================================================================
