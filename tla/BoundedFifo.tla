---------------------------- MODULE BoundedFifo ----------------------------
(***************************************************************************)
(* What the bounded queue of ecs/src/queue.rs promises its users, without  *)
(* sequence numbers, positions, stale reads or retries.                    *)
(*                                                                         *)
(* A push takes the next place of the line in one step and completes in a  *)
(* later one; a pop takes the value at the head of the line in one step    *)
(* and hands it over in a later one.  The head can be taken only once its  *)
(* push has completed.  A push may be refused only when the line is at     *)
(* capacity or a pop is half way; a pop may come back empty-handed only    *)
(* when the line is empty or the push at its head is half way.             *)
(***************************************************************************)
EXTENDS Naturals, Sequences

CONSTANTS
  Threads,    \* threads that use the queue
  Values,     \* what is pushed
  Capacity,   \* places in the line
  NoValue     \* not a value

VARIABLES
  line,       \* the claimed places, oldest first: [val, done]
  held,       \* held[t]: the value t has taken and not yet handed over, or NoValue
  result      \* result[t]: outcome of the last operation of t, "busy" during one

vars == <<line, held, result>>

Place(v, d) == [val |-> v, done |-> d]

TypeOK ==
  /\ line \in Seq([val : Values, done : BOOLEAN])
  /\ held \in [Threads -> Values \cup {NoValue}]
  /\ result \in [Threads -> Values \cup {"idle", "busy", "ok", "full", "none"}]

Init ==
  /\ line = <<>>
  /\ held = [t \in Threads |-> NoValue]
  /\ result = [t \in Threads |-> "idle"]

Call(t) ==
  /\ result[t] # "busy"
  /\ result' = [result EXCEPT ![t] = "busy"]
  /\ UNCHANGED <<line, held>>

Answer(t, r) ==
  /\ result[t] = "busy"
  /\ result' = [result EXCEPT ![t] = r]

Claim(t) ==
  /\ result[t] = "busy"
  /\ Len(line) < Capacity
  /\ \E v \in Values : line' = Append(line, Place(v, FALSE))
  /\ UNCHANGED <<held, result>>

Complete(t) ==
  /\ \E k \in DOMAIN line :
       /\ ~line[k].done
       /\ line' = [line EXCEPT ![k].done = TRUE]
  /\ Answer(t, "ok")
  /\ UNCHANGED held

Refuse(t) ==
  /\ Len(line) = Capacity \/ \E u \in Threads : held[u] # NoValue
  /\ Answer(t, "full")
  /\ UNCHANGED <<line, held>>

Take(t) ==
  /\ result[t] = "busy"
  /\ line # <<>> /\ Head(line).done
  /\ held' = [held EXCEPT ![t] = Head(line).val]
  /\ line' = Tail(line)
  /\ UNCHANGED result

Hand(t) ==
  /\ held[t] # NoValue
  /\ Answer(t, held[t])
  /\ held' = [held EXCEPT ![t] = NoValue]
  /\ UNCHANGED line

ComeBackEmpty(t) ==
  /\ line = <<>> \/ ~Head(line).done
  /\ Answer(t, "none")
  /\ UNCHANGED <<line, held>>

Next == \E t \in Threads :
  \/ Call(t) \/ Claim(t) \/ Complete(t) \/ Refuse(t)
  \/ Take(t) \/ Hand(t) \/ ComeBackEmpty(t)

Spec == Init /\ [][Next]_vars
=============================================================================
