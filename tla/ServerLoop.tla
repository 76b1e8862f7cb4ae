------------------------------ MODULE ServerLoop ------------------------------
(***************************************************************************)
(* The main loop of the server (server/src/lib.rs:109-142) over the two    *)
(* schedulers: app.update() runs the systems, among them scheduler_tick,   *)
(* which runs the due tasks; the systems before it (phase "turn") and after *)
(* it ("systems") schedule and cancel tasks and work in the instance       *)
(* worlds; tick_all then ticks these, and console commands and the check   *)
(* for shutdown end the turn.  Threads that share the scheduler of the     *)
(* instances use it between rounds; what they do while the tasks run could *)
(* as well be done before or after.                                        *)
(***************************************************************************)
EXTENDS InstanceScheduler, TaskScheduler

CONSTANTS
  MaxTicks,   \* turns of the loop
  MaxOps      \* operations asked of the two schedulers

VARIABLES
  phase,      \* where the loop is
  ops         \* operations asked so far

svars == <<ivars, tvars, phase, ops>>

SInit == IInit /\ TaskInit /\ phase = "turn" /\ ops = 0

Asked == ops < MaxOps /\ ops' = ops + 1

UpdateBegins ==
  /\ phase = "turn"
  /\ counter < MaxTicks
  /\ SchedulerTick
  /\ phase' = "tasks"
  /\ UNCHANGED <<ivars, ops>>

RunTasks ==
  /\ phase = "tasks"
  /\ Draining
  /\ phase' = IF stage' = "idle" THEN "systems" ELSE "tasks"
  /\ UNCHANGED <<ivars, ops>>

Systems ==
  /\ phase \in {"turn", "systems"}
  /\ Asked
  /\ Scheduling \/ Cancelling
  /\ UNCHANGED <<ivars, phase>>

SetUp ==
  /\ phase = "turn"
  /\ Asked
  /\ Registration
  /\ UNCHANGED <<tvars, phase>>

Sharing ==
  /\ phase \in {"turn", "systems"}
  /\ Asked
  /\ Lending \/ Submission
  /\ UNCHANGED <<tvars, phase>>

GiveBack ==
  /\ GivingBack
  /\ UNCHANGED <<tvars, phase, ops>>

RoundBegins ==
  /\ phase = "systems"
  /\ TickAll
  /\ phase' = "round"
  /\ UNCHANGED <<tvars, ops>>

RoundWork(w) ==
  /\ phase = "round"
  /\ Work(w)
  /\ UNCHANGED <<tvars, phase, ops>>

RoundEnds ==
  /\ phase = "round"
  /\ TickAllReturns
  /\ phase' = "turn"
  /\ UNCHANGED <<tvars, ops>>

Stop ==
  /\ phase = "turn"
  /\ counter = MaxTicks
  /\ ~Borrowed
  /\ phase' = "stopped"
  /\ UNCHANGED <<ivars, tvars, ops>>

Stopped == phase = "stopped" /\ UNCHANGED svars

SNext ==
  \/ UpdateBegins \/ RunTasks \/ Systems \/ SetUp \/ Sharing \/ GiveBack
  \/ RoundBegins \/ (\E w \in Workers : RoundWork(w)) \/ RoundEnds
  \/ Stop \/ Stopped

SSpec == SInit /\ [][SNext]_svars

\* The main thread goes on with a turn that it has begun, schedules and tasks
\* return, and the operating system runs every worker.  A guard is given back.
FairLoop ==
  /\ SSpec
  /\ WF_svars(RunTasks)
  /\ SF_svars(RoundBegins)
  /\ \A w \in Workers : WF_svars(RoundWork(w))
  /\ WF_svars(RoundEnds)
  /\ WF_svars(GiveBack)

----------------------------------------------------------------------------
(* Properties *)

STypeOK ==
  /\ ITypeOK
  /\ TaskTypeOK
  /\ phase \in {"turn", "tasks", "systems", "round", "stopped"}

\* A turn that has begun ends: the due tasks are run through, whatever was
\* cancelled, the round begins when the guards are given back, and its workers
\* do not block one another for good.  With CommandsNextTick, an accepted command
\* is executed by then unless its world is unregistered
\* (scheduler_manager.rs:189-232, scheduler.rs:295-299, lib.rs:109-117).
TurnEnds == phase = "tasks" ~> phase = "turn"
===============================================================================
