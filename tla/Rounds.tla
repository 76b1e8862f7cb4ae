------------------------------- MODULE Rounds -------------------------------
(***************************************************************************)
(* What InstanceScheduler::tick_all promises (ecs/src/scheduler.rs:295-299)*)
(* without locks, threads or chunks: a round ticks every world registered  *)
(* when it begins, each once, the set of worlds does not change during it, *)
(* and it returns when all are done, with the statistics of all of them.   *)
(***************************************************************************)
EXTENDS Naturals

CONSTANT Ids

VARIABLES
  members,    \* the registered worlds
  open,       \* a round is running
  late,       \* the worlds still to be ticked in it
  stats       \* the worlds in the statistics returned by the last round

vars == <<members, open, late, stats>>

Init ==
  /\ members = {}
  /\ open = FALSE
  /\ late = {}
  /\ stats = {}

Change ==
  /\ ~open
  /\ members' \in SUBSET Ids
  /\ UNCHANGED <<open, late, stats>>

Begin ==
  /\ ~open
  /\ open' = TRUE
  /\ late' = members
  /\ stats' = {}
  /\ UNCHANGED members

Tick(id) ==
  /\ open
  /\ id \in late
  /\ late' = late \ {id}
  /\ UNCHANGED <<members, open, stats>>

End ==
  /\ open
  /\ late = {}
  /\ open' = FALSE
  /\ stats' = members
  /\ UNCHANGED <<members, late>>

Next == Change \/ Begin \/ (\E id \in Ids : Tick(id)) \/ End

Spec == Init /\ [][Next]_vars
=============================================================================
