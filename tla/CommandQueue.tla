---------------------------- MODULE CommandQueue ----------------------------
(***************************************************************************)
(* The external command queue of a world (ecs/src/queue.rs, CommandQueue): *)
(* producers push commands into the ring of MpmcQueue while one thread,    *)
(* the one that holds the world, drains it at the start of each tick and   *)
(* executes what it pops.  A producer pushes its commands one after the    *)
(* other and retries a refused one, as the users of the queue do.  The     *)
(* thread of the world also asks is_empty(), which reads the two positions *)
(* one after the other.                                                    *)
(***************************************************************************)
EXTENDS MpmcQueue, SequencesExt

CONSTANTS
  World,      \* the thread that drains
  Program     \* Program[p]: the commands of producer p, in the order pushed

Producers == Threads \ {World}

ASSUME WorldAssumption   == World \in Threads
ASSUME ProgramAssumption == /\ DOMAIN Program = Producers
                            /\ \A p \in Producers : Program[p] \in Seq(Values)
\* A command is an object of its own: no two are the same.
ASSUME CommandsAssumption ==
  \A p, q \in Producers : \A k \in DOMAIN Program[p], l \in DOMAIN Program[q] :
    Program[p][k] = Program[q][l] => p = q /\ k = l

VARIABLES
  accepted,   \* commands whose push has returned Ok, in that order
  applied,    \* commands executed, in that order
  draining,   \* drain() is running
  backlog,    \* what was accepted and not executed when it (or len) was called
  asked       \* enqueue_pos as len() read it, NotAsked outside of len

cvars == <<vars, accepted, applied, draining, backlog, asked>>
history == <<accepted, applied, draining, backlog, asked>>

NotAsked == -1

Waiting == ToSet(accepted) \ ToSet(applied)

\* The producer's commands already accepted.
Issued(p) == Cardinality({i \in DOMAIN accepted : accepted[i] \in ToSet(Program[p])})

CInit ==
  /\ Init
  /\ accepted = <<>>
  /\ applied = <<>>
  /\ draining = FALSE
  /\ backlog = {}
  /\ asked = NotAsked

----------------------------------------------------------------------------
(* Producers *)

PushCommand(p) ==
  /\ Issued(p) < Len(Program[p])
  /\ PushBegin(p, Program[p][Issued(p) + 1])
  /\ UNCHANGED history

PushAccepted(p) ==
  /\ PushPublish(p)
  /\ accepted' = Append(accepted, arg[p])
  /\ UNCHANGED <<applied, draining, backlog, asked>>

PushOther(p) ==
  /\ \/ PushSlotFree(p) \/ PushFull(p) \/ PushOvertaken(p) \/ PushReload(p)
     \/ PushClaim(p) \/ PushClaimFails(p) \/ PushWrite(p)
  /\ UNCHANGED history

----------------------------------------------------------------------------
(* The thread of the world *)

DrainBegin ==
  /\ ~draining /\ asked = NotAsked
  /\ PopBegin(World)
  /\ draining' = TRUE
  /\ backlog' = Waiting
  /\ UNCHANGED <<accepted, applied, asked>>

\* The loop of drain: the command popped last has been executed.
DrainContinue ==
  /\ draining
  /\ PopBegin(World)
  /\ UNCHANGED history

DrainPop ==
  /\ \/ PopSlotReady(World) \/ PopOvertaken(World) \/ PopReload(World)
     \/ PopClaim(World) \/ PopClaimFails(World) \/ PopRead(World)
  /\ UNCHANGED history

DrainExecute ==
  /\ PopRelease(World)
  /\ applied' = Append(applied, arg[World])
  /\ UNCHANGED <<accepted, draining, backlog, asked>>

\* pop returned None: drain returns.
DrainEnd ==
  /\ PopNone(World)
  /\ draining' = FALSE
  /\ UNCHANGED <<accepted, applied, backlog, asked>>

LenBegin ==
  /\ pc[World] = "idle" /\ ~draining /\ asked = NotAsked
  /\ asked' = enqueue_pos
  /\ backlog' = Waiting
  /\ UNCHANGED <<vars, accepted, applied, draining>>

\* Mutant: len() taken for the commands after the next one.
LenEndShort(n) ==
  /\ asked # NotAsked
  /\ n = asked - (dequeue_pos + 1)
  /\ asked' = NotAsked
  /\ UNCHANGED <<vars, accepted, applied, draining, backlog>>

\* len() returns n.
LenEnd(n) ==
  /\ asked # NotAsked
  /\ n = asked - dequeue_pos
  /\ asked' = NotAsked
  /\ UNCHANGED <<vars, accepted, applied, draining, backlog>>

----------------------------------------------------------------------------

Lengths == 0 .. Capacity

WorldStep ==
  \/ DrainBegin \/ DrainContinue \/ DrainPop \/ DrainExecute \/ DrainEnd
  \/ LenBegin \/ \E n \in Lengths : LenEnd(n)

ProducerStep(p) == PushCommand(p) \/ PushAccepted(p) \/ PushOther(p)

CNext == WorldStep \/ \E p \in Producers : ProducerStep(p)

CSpec == CInit /\ [][CNext]_cvars

(* Fairness: the tick loop calls drain again and again, whatever else its   *)
(* thread does in between, and a drain that runs is scheduled; a weak       *)
(* compare-and-exchange that may succeed does not fail spuriously for ever; *)
(* a producer that has claimed a position is scheduled until it has         *)
(* published.  Nothing is assumed of a producer that has not claimed one.   *)
Fairness ==
  /\ SF_cvars(DrainBegin)
  /\ WF_cvars(DrainContinue \/ DrainPop \/ DrainExecute \/ DrainEnd)
  /\ SF_cvars(DrainPop /\ PopClaim(World))
  /\ WF_cvars(\E n \in Lengths : LenEnd(n))
  /\ \A p \in Producers : WF_cvars(Writing(p) /\ ProducerStep(p))

FairSpec == CSpec /\ Fairness

----------------------------------------------------------------------------
(* Properties *)

\* No command is executed twice or without having been pushed, one of a producer only
\* behind all that this producer pushed before it, whatever the others do; and
\* once the claimed positions have all been drained every accepted command has
\* been executed (queue.rs:102, 266-274; the multi-threaded test of CommandQueue).
ExecutedOnce ==
  /\ \A i, j \in DOMAIN applied : applied[i] = applied[j] => i = j
  /\ \A i \in DOMAIN applied : \E p \in Producers : \E k \in DOMAIN Program[p] :
       /\ applied[i] = Program[p][k]
       /\ \A l \in 1 .. k - 1 : \E j \in 1 .. i - 1 : applied[j] = Program[p][l]
  /\ enqueue_pos = dequeue_pos /\ ~Reading(World)
       => Waiting = {} /\ \A p \in Producers : pc[p] # "push_write"

\* drain leaves a command that was waiting when it was called only behind a
\* push that has claimed an earlier position and not finished.
LeftBehindHalfPush ==
  [][DrainEnd => \A c \in backlog \ ToSet(applied) :
       \E p \in Producers : /\ Writing(p)
                            /\ \E n \in DOMAIN entered : entered[n] = c /\ pos[p] < n - 1]_cvars

\* To the thread that drains, is_empty() never hides a command: len() is 0 only
\* if nothing that was waiting when it was called is still waiting, although it
\* reads the two positions at different times (queue.rs:198-207).
EmptyHidesNothing ==
  [][LenEnd(0) => backlog = {}]_cvars

\* Every accepted command is executed in the end: a command left behind by one
\* drain is reached by a later one.
EveryCommandRuns ==
  \A c \in Values : c \in ToSet(accepted) ~> c \in ToSet(applied)
=============================================================================
