------------------------- MODULE CommandQueueProofs -------------------------
(***************************************************************************)
(* Proofs about the ring of MpmcQueue and about the command queue of a     *)
(* world that is built on it, for any number of threads, any values,       *)
(* programs and commands and any capacity of at least two.                 *)
(*                                                                         *)
(* The first half is about the ring alone.  Its inductive invariant IInv   *)
(* says, slot by slot, who owns it: the sequence number of a slot is a     *)
(* position of that slot (free), one more (ready), and at most one thread  *)
(* is between its claim of a position and its store of the sequence        *)
(* number; all positions between the two counters are in one of those      *)
(* states.  Each action that touches a claim has a lemma of its own; the   *)
(* others leave everything the invariant speaks of alone.                  *)
(*                                                                         *)
(* The second half is about the command queue.  Producers and the thread   *)
(* of the world only ever do what MpmcQueue allows, so that the ring's     *)
(* invariant RingInv holds in the composition; CInv adds how the history   *)
(* of the ring and of the queue are related: an accepted command has its   *)
(* place and is no longer being written, a place that the drain has passed *)
(* has been executed or is in the drain's hands, and the places of a       *)
(* producer's commands are in the order of its program.                    *)
(***************************************************************************)
EXTENDS CommandQueue, FiniteSetTheorems, SequenceTheorems, TLAPS

----------------------------------------------------------------------------
(* Arithmetic of positions and slots                                       *)

\* Multiples of c are c or more apart.
LEMMA ProductMonotone ==
  ASSUME NEW c \in Nat, NEW m \in Nat, NEW n \in Nat, m < n
  PROVE  c * m + c <= c * n
<1>1. PICK d \in Nat : n = m + 1 + d
  <2> WITNESS n - m - 1 \in Nat
  <2> QED OBVIOUS
<1>2. c * n = c * m + c + c * d
  BY <1>1
<1>3. c * d \in Nat /\ c * m \in Nat
  OBVIOUS
<1> QED BY <1>2, <1>3

\* A number has one remainder modulo c: the slot of a position is well defined.
LEMMA RemainderUnique ==
  ASSUME NEW c \in Nat, NEW m \in Nat, NEW n \in Nat, c > 0,
         NEW r \in 0 .. c - 1, NEW s \in 0 .. c - 1, c * m + r = c * n + s
  PROVE  r = s
<1>1. c * m \in Nat /\ c * n \in Nat
  OBVIOUS
<1>2. CASE m < n
  BY <1>1, <1>2, ProductMonotone
<1>3. CASE n < m
  BY <1>1, <1>3, ProductMonotone
<1>4. CASE m = n
  BY <1>1, <1>4
<1> QED BY <1>2, <1>3, <1>4

\* pos & mask is a slot, and the position is that many rounds ahead of it
\* (queue.rs:105-107, the mask of a power-of-two capacity).
LEMMA SlotParts ==
  ASSUME NEW p \in Nat
  PROVE  /\ p \div Capacity \in Nat
         /\ Slot(p) \in 0 .. Capacity - 1
         /\ p = Capacity * (p \div Capacity) + Slot(p)
  BY CapacityAssumption DEF Slot

\* A position one round later is in the same slot: the sequence number that pop
\* stores names the position that will next be pushed there (queue.rs:178-180).
LEMMA SlotRound ==
  ASSUME NEW p \in Nat
  PROVE  Slot(p + Capacity) = Slot(p)
<1> DEFINE m == p \div Capacity
           n == (p + Capacity) \div Capacity
<1>1. /\ m \in Nat /\ Slot(p) \in 0 .. Capacity - 1
      /\ p = Capacity * m + Slot(p)
  BY SlotParts
<1>2. /\ n \in Nat /\ Slot(p + Capacity) \in 0 .. Capacity - 1
      /\ p + Capacity = Capacity * n + Slot(p + Capacity)
  <2>1. p + Capacity \in Nat
    BY CapacityAssumption
  <2> QED BY <2>1, SlotParts
<1>3. Capacity * (m + 1) = Capacity * m + Capacity
  BY <1>1, CapacityAssumption
<1> HIDE DEF m, n
<1>4. Capacity * m \in Nat /\ Capacity * n \in Nat
  BY <1>1, <1>2, CapacityAssumption
<1>5. Capacity * (m + 1) + Slot(p) = Capacity * n + Slot(p + Capacity)
  BY <1>1, <1>2, <1>3, <1>4, CapacityAssumption
<1>6. m + 1 \in Nat /\ Capacity \in Nat /\ Capacity > 0
  BY <1>1, CapacityAssumption
<1>7. \A k, l \in Nat, r, s \in 0 .. Capacity - 1 :
        Capacity * k + r = Capacity * l + s => r = s
  BY <1>6, RemainderUnique
<1> QED BY <1>1, <1>2, <1>5, <1>6, <1>7

\* Neighbouring positions are in different slots, so the thread that holds one
\* does not hold the other; false for a ring of one slot.
LEMMA SlotNext ==
  ASSUME NEW p \in Nat
  PROVE  Slot(p) # Slot(p + 1)
<1> DEFINE m == p \div Capacity
           n == (p + 1) \div Capacity
<1> SUFFICES ASSUME Slot(p) = Slot(p + 1) PROVE FALSE
  OBVIOUS
<1>1. /\ m \in Nat /\ Slot(p) \in 0 .. Capacity - 1
      /\ p = Capacity * m + Slot(p)
  BY SlotParts
<1>2. /\ n \in Nat /\ Slot(p + 1) \in 0 .. Capacity - 1
      /\ p + 1 = Capacity * n + Slot(p + 1)
  BY SlotParts
<1> HIDE DEF m, n
<1>3. Capacity * m \in Nat /\ Capacity * n \in Nat
  BY <1>1, <1>2, CapacityAssumption
<1>4. Capacity * n = Capacity * m + 1
  BY <1>1, <1>2, <1>3, CapacityAssumption
<1>5. CASE m < n
  BY <1>1, <1>2, <1>3, <1>4, <1>5, ProductMonotone, CapacityAssumption
<1>6. CASE n < m
  BY <1>1, <1>2, <1>3, <1>4, <1>6, ProductMonotone, CapacityAssumption
<1>7. CASE m = n
  BY <1>3, <1>4, <1>7
<1> QED BY <1>1, <1>2, <1>5, <1>6, <1>7

\* The positions of the first round are the slots themselves: the initial
\* sequence numbers (queue.rs:81-98).
LEMMA SlotFirst ==
  ASSUME NEW p \in Nat
  PROVE  /\ Slot(p) \in Slots
         /\ Slot(p) <= p
         /\ Slot(p) = p => p < Capacity
<1>1. /\ p \div Capacity \in Nat /\ Slot(p) \in 0 .. Capacity - 1
      /\ p = Capacity * (p \div Capacity) + Slot(p)
  BY SlotParts
<1>2. Capacity * (p \div Capacity) \in Nat
  BY <1>1, CapacityAssumption
<1> QED BY <1>1, <1>2, CapacityAssumption DEF Slots

\* The facts about slots in the form in which the steps below use them.
LEMMA SlotFacts ==
  \A p \in Nat : /\ Slot(p) \in Slots
                 /\ Slot(p) # Slot(p + 1)
                 /\ Slot(p + Capacity) = Slot(p)
  BY SlotFirst, SlotNext, SlotRound

----------------------------------------------------------------------------
(* Type correctness *)

\* The queue that new() returns has its variables in their sets.
LEMMA TypeInit == Init => TypeOK
  BY CapacityAssumption DEF Init, TypeOK, Pushing, Slots

\* Every access of push and pop keeps the variables in their sets.
LEMMA TypeStep == TypeOK /\ [Next]_vars => TypeOK'
<1> SUFFICES ASSUME TypeOK, [Next]_vars PROVE TypeOK'
  OBVIOUS
<1> USE DEF TypeOK, Pushing, Goto, Return
<1>1. ASSUME NEW t \in Threads, NEW v \in Values, PushBegin(t, v)
      PROVE  TypeOK'
  BY <1>1 DEF PushBegin
<1>2. ASSUME NEW t \in Threads, PopBegin(t)
      PROVE  TypeOK'
  BY <1>2 DEF PopBegin
<1>3. ASSUME NEW t \in Threads, PushStep(t)
      PROVE  TypeOK'
  <2>1. CASE PushSlotFree(t)
    BY <2>1 DEF PushSlotFree
  <2>2. CASE PushFull(t)
    BY <2>2 DEF PushFull
  <2>3. CASE PushOvertaken(t)
    BY <2>3 DEF PushOvertaken
  <2>4. CASE PushReload(t)
    BY <2>4 DEF PushReload
  <2>5. CASE PushClaim(t)
    <3>1. pos[t] + 1 \in Nat /\ arg[t] \in Values
      BY <2>5 DEF PushClaim
    <3>2. Append(entered, arg[t]) \in Seq(Values)
      BY <3>1
    <3> QED BY <2>5, <3>1, <3>2 DEF PushClaim
  <2>6. CASE PushClaimFails(t)
    BY <2>6 DEF PushClaimFails
  <2>7. CASE PushWrite(t)
    <3>1. Slot(pos[t]) \in Slots
      BY SlotFacts
    <3>2. value' \in [Slots -> Values \cup {NoValue}]
      BY <2>7, <3>1 DEF PushWrite
    <3> QED BY <2>7, <3>2 DEF PushWrite
  <2>8. CASE PushPublish(t)
    <3>1. Slot(pos[t]) \in Slots /\ pos[t] + 1 \in Nat
      BY SlotFacts
    <3>2. sequence' \in [Slots -> Nat]
      BY <2>8, <3>1 DEF PushPublish
    <3> QED BY <2>8, <3>2 DEF PushPublish
  <2> QED BY <1>3, <2>1, <2>2, <2>3, <2>4, <2>5, <2>6, <2>7, <2>8
          DEF PushStep
<1>4. ASSUME NEW t \in Threads, PopStep(t)
      PROVE  TypeOK'
  <2>1. CASE PopSlotReady(t)
    BY <2>1 DEF PopSlotReady
  <2>2. CASE PopNone(t)
    BY <2>2 DEF PopNone
  <2>3. CASE PopOvertaken(t)
    BY <2>3 DEF PopOvertaken
  <2>4. CASE PopReload(t)
    BY <2>4 DEF PopReload
  <2>5. CASE PopClaim(t)
    <3>1. pos[t] + 1 \in Nat
      OBVIOUS
    <3> QED BY <2>5, <3>1 DEF PopClaim
  <2>6. CASE PopClaimFails(t)
    BY <2>6 DEF PopClaimFails
  <2>7. CASE PopRead(t)
    <3>1. Slot(pos[t]) \in Slots /\ pos[t] \in Nat
      BY SlotFacts
    <3>2. value[Slot(pos[t])] \in Values \cup {NoValue}
      BY <3>1
    <3>3. left' \subseteq Nat \X (Values \cup {NoValue})
      BY <2>7, <3>1, <3>2 DEF PopRead
    <3>4. value' \in [Slots -> Values \cup {NoValue}]
      BY <2>7, <3>1 DEF PopRead
    <3> QED BY <2>7, <3>2, <3>3, <3>4 DEF PopRead
  <2>8. CASE PopRelease(t)
    <3>1. pos[t] \in Nat
      OBVIOUS
    <3>2. Slot(pos[t]) \in Slots
      BY <3>1, SlotFirst
    <3>3. pos[t] + Capacity \in Nat
      BY <3>1, CapacityAssumption
    <3>4. sequence' \in [Slots -> Nat]
      BY <2>8, <3>2, <3>3 DEF PopRelease
    <3> QED BY <2>8, <3>4 DEF PopRelease
  <2> QED BY <1>4, <2>1, <2>2, <2>3, <2>4, <2>5, <2>6, <2>7, <2>8
          DEF PopStep
<1>5. CASE UNCHANGED vars
  BY <1>5 DEF vars
<1> QED BY <1>1, <1>2, <1>3, <1>4, <1>5 DEF Next


----------------------------------------------------------------------------
(* The inductive invariant *)

Counters ==
  /\ dequeue_pos <= enqueue_pos
  /\ enqueue_pos <= dequeue_pos + Capacity
  /\ Len(entered) = enqueue_pos

\* A local copy of a position is never ahead of the shared counter, and when it
\* is the counter's value the comparison made with it before the
\* compare-and-exchange still holds: this is what makes the claim safe.
LocalCopies ==
  \A t \in Threads :
    /\ pc[t] \in {"push_seq", "push_cas", "push_reload"} => pos[t] <= enqueue_pos
    /\ pc[t] \in {"pop_seq", "pop_cas", "pop_reload"} => pos[t] <= dequeue_pos
    /\ pc[t] = "push_cas" /\ pos[t] = enqueue_pos
         => sequence[Slot(pos[t])] = pos[t]
    /\ pc[t] = "pop_cas" /\ pos[t] = dequeue_pos
         => sequence[Slot(pos[t])] = pos[t] + 1

\* A thread past its claim owns a position of its own, and the slot's sequence
\* number stands still until it stores the next one.
Owners ==
  \A t \in Threads :
    /\ Writing(t) => /\ dequeue_pos <= pos[t] /\ pos[t] < enqueue_pos
                     /\ sequence[Slot(pos[t])] = pos[t]
                     /\ arg[t] = entered[pos[t] + 1]
    /\ Reading(t) => /\ pos[t] < dequeue_pos
                     /\ sequence[Slot(pos[t])] = pos[t] + 1

Apart ==
  \A t, u \in Threads :
    /\ t # u
    /\ \/ Writing(t) /\ Writing(u)
       \/ Reading(t) /\ Reading(u)
    => pos[t] # pos[u]

\* What a slot's sequence number says of the counters.
Rounds ==
  \A p \in Nat :
    /\ sequence[Slot(p)] = p + 1 => p < enqueue_pos
    /\ sequence[Slot(p)] = p => p < dequeue_pos + Capacity

\* What it says of the value cell.
Cells ==
  /\ \A p \in Nat :
       /\ sequence[Slot(p)] = p + 1
            => \/ value[Slot(p)] = entered[p + 1]
               \/ \E t \in Threads : pc[t] = "pop_release" /\ pos[t] = p
       /\ sequence[Slot(p)] = p
            => \/ value[Slot(p)] = NoValue
               \/ \E t \in Threads : pc[t] = "push_publish" /\ pos[t] = p
  /\ \A t \in Threads :
       /\ pc[t] = "push_publish" => value[Slot(pos[t])] = arg[t]
       /\ pc[t] = "pop_release" => value[Slot(pos[t])] = NoValue

IInv ==
  TypeOK /\ Counters /\ LocalCopies /\ Owners /\ Apart /\ Rounds /\ Cells /\ Accounted

\* The queue that new() returns satisfies the invariant.
LEMMA InitIInv == Init => IInv
<1> SUFFICES ASSUME Init PROVE IInv
  OBVIOUS
<1> USE CapacityAssumption DEF Init
<1>1. TypeOK
  BY DEF TypeOK, Pushing, Slots
<1>2. Counters /\ LocalCopies /\ Owners /\ Apart /\ Accounted
  BY DEF Counters, LocalCopies, Owners, Apart, Accounted, Writing, Reading
<1>3. \A p \in Nat : sequence[Slot(p)] = Slot(p) /\ value[Slot(p)] = NoValue
  BY SlotFirst
<1>4. Rounds
  BY <1>3, SlotFirst DEF Rounds
<1>5. \A p \in Nat : Slot(p) # p + 1
  BY SlotFirst DEF Slots
<1>6. Cells
  BY <1>3, <1>5 DEF Cells
<1> QED BY <1>1, <1>2, <1>4, <1>6 DEF IInv

\* A step that moves no shared word and no thread into or out of its claim
\* keeps everything that is said of the claims.
LEMMA QuietStep ==
  ASSUME IInv, TypeOK', NEW t \in Threads,
         ~Writing(t), ~Reading(t), ~Writing(t)', ~Reading(t)',
         \A u \in Threads \ {t} : pc'[u] = pc[u] /\ pos'[u] = pos[u] /\ arg'[u] = arg[u],
         UNCHANGED <<enqueue_pos, dequeue_pos, sequence, value, entered, left>>,
         LocalCopies'
  PROVE  IInv'
<1>1. \A u \in Threads : /\ Writing(u)' => Writing(u) /\ u # t
                         /\ Reading(u)' => Reading(u) /\ u # t
  BY DEF Writing, Reading
<1>2. \A u \in Threads : \A x \in {"push_publish", "pop_read", "pop_release"} :
        (pc'[u] = x) <=> (pc[u] = x)
  BY DEF Writing, Reading
<1>3. \A u \in Threads : \A x \in {"push_publish", "pop_read", "pop_release"} :
        pc[u] = x => u # t
  BY DEF Writing, Reading
<1>4. Counters' /\ Rounds'
  BY DEF IInv, Counters, Rounds
<1>5. Owners' /\ Apart'
  BY <1>1 DEF IInv, Owners, Apart
<1>6. Cells'
  BY <1>2, <1>3 DEF IInv, Cells
<1>7. Accounted'
  <2>1. \A u \in Threads : \A p \in Nat :
          (pc'[u] = "pop_read" /\ pos'[u] = p) <=> (pc[u] = "pop_read" /\ pos[u] = p)
    BY <1>2, <1>3
  <2>2. \A p \in 0 .. dequeue_pos - 1 :
          (\E u \in Threads : pc'[u] = "pop_read" /\ pos'[u] = p)
            <=> (\E u \in Threads : pc[u] = "pop_read" /\ pos[u] = p)
    BY <2>1 DEF IInv, TypeOK
  <2>3. Accounted /\ UNCHANGED <<entered, left, enqueue_pos, dequeue_pos>>
    BY DEF IInv
  <2>4. /\ Len(entered') = enqueue_pos'
        /\ \A x \in left' : x[1] < dequeue_pos' /\ x[2] = entered'[x[1] + 1]
    BY <2>3, SMT DEF Accounted
  <2>5. \A p \in 0 .. dequeue_pos' - 1 :
          (\E v \in Values : <<p, v>> \in left')
            <=> ~ \E u \in Threads : pc'[u] = "pop_read" /\ pos'[u] = p
    BY <2>2, <2>3, Zenon DEF Accounted
  <2> QED BY <2>4, <2>5, Zenon DEF Accounted
<1> QED BY <1>4, <1>5, <1>6, <1>7 DEF IInv

\* The accesses that only read shared words, or fail to claim, are quiet.
LEMMA QuietActions ==
  ASSUME IInv, TypeOK', NEW t \in Threads,
         \/ \E v \in Values : PushBegin(t, v)
         \/ PopBegin(t)
         \/ PushSlotFree(t)
         \/ PushFull(t)
         \/ PushOvertaken(t)
         \/ PushReload(t)
         \/ PushClaimFails(t)
         \/ PopSlotReady(t)
         \/ PopNone(t)
         \/ PopOvertaken(t)
         \/ PopReload(t)
         \/ PopClaimFails(t)
  PROVE  IInv'
<1> USE DEF Goto, Return
<1>1. TypeOK /\ LocalCopies
  BY DEF IInv
<1>2. CASE \E v \in Values : PushBegin(t, v)
  <2>1. LocalCopies'
    BY <1>1, <1>2 DEF PushBegin, LocalCopies, TypeOK
  <2>2. PICK v \in Values : PushBegin(t, v)
    BY <1>2
  <2>3. /\ pc[t] = "idle" /\ pc'[t] = "push_seq"
        /\ \A u \in Threads \ {t} : pc'[u] = pc[u] /\ pos'[u] = pos[u] /\ arg'[u] = arg[u]
    BY <1>1, <2>2 DEF PushBegin, TypeOK
  <2>4. ~Writing(t) /\ ~Reading(t) /\ ~Writing(t)' /\ ~Reading(t)'
    BY <2>3 DEF Writing, Reading
  <2>5. UNCHANGED <<enqueue_pos, dequeue_pos, sequence, value, entered, left>>
    BY <2>2 DEF PushBegin
  <2> QED BY <2>1, <2>3, <2>4, <2>5, QuietStep
<1>3. CASE PopBegin(t)
  <2>1. LocalCopies'
    BY <1>1, <1>3 DEF PopBegin, LocalCopies, TypeOK
  <2> QED BY <1>1, <1>3, <2>1, QuietStep DEF PopBegin, TypeOK, Writing, Reading
<1>4. CASE PushSlotFree(t)
  <2>1. LocalCopies'
    BY <1>1, <1>4 DEF PushSlotFree, LocalCopies, TypeOK
  <2> QED BY <1>1, <1>4, <2>1, QuietStep DEF PushSlotFree, TypeOK, Writing, Reading
<1>5. CASE PushFull(t)
  <2>1. LocalCopies'
    BY <1>1, <1>5 DEF PushFull, LocalCopies, TypeOK
  <2> QED BY <1>1, <1>5, <2>1, QuietStep DEF PushFull, TypeOK, Writing, Reading
<1>6. CASE PushOvertaken(t)
  <2>1. LocalCopies'
    BY <1>1, <1>6 DEF PushOvertaken, LocalCopies, TypeOK
  <2> QED BY <1>1, <1>6, <2>1, QuietStep DEF PushOvertaken, TypeOK, Writing, Reading
<1>7. CASE PushReload(t)
  <2>1. LocalCopies'
    BY <1>1, <1>7 DEF PushReload, LocalCopies, TypeOK
  <2> QED BY <1>1, <1>7, <2>1, QuietStep DEF PushReload, TypeOK, Writing, Reading
<1>8. CASE PushClaimFails(t)
  <2>1. LocalCopies'
    BY <1>1, <1>8 DEF PushClaimFails, LocalCopies, TypeOK
  <2> QED BY <1>1, <1>8, <2>1, QuietStep DEF PushClaimFails, TypeOK, Writing, Reading
<1>9. CASE PopSlotReady(t)
  <2>1. LocalCopies'
    BY <1>1, <1>9 DEF PopSlotReady, LocalCopies, TypeOK
  <2> QED BY <1>1, <1>9, <2>1, QuietStep DEF PopSlotReady, TypeOK, Writing, Reading
<1>10. CASE PopNone(t)
  <2>1. LocalCopies'
    BY <1>1, <1>10 DEF PopNone, LocalCopies, TypeOK
  <2> QED BY <1>1, <1>10, <2>1, QuietStep DEF PopNone, TypeOK, Writing, Reading
<1>11. CASE PopOvertaken(t)
  <2>1. LocalCopies'
    BY <1>1, <1>11 DEF PopOvertaken, LocalCopies, TypeOK
  <2> QED BY <1>1, <1>11, <2>1, QuietStep DEF PopOvertaken, TypeOK, Writing, Reading
<1>12. CASE PopReload(t)
  <2>1. LocalCopies'
    BY <1>1, <1>12 DEF PopReload, LocalCopies, TypeOK
  <2> QED BY <1>1, <1>12, <2>1, QuietStep DEF PopReload, TypeOK, Writing, Reading
<1>13. CASE PopClaimFails(t)
  <2>1. LocalCopies'
    BY <1>1, <1>13 DEF PopClaimFails, LocalCopies, TypeOK
  <2> QED BY <1>1, <1>13, <2>1, QuietStep DEF PopClaimFails, TypeOK, Writing, Reading
<1> QED BY <1>2, <1>3, <1>4, <1>5, <1>6, <1>7, <1>8, <1>9, <1>10, <1>11, <1>12, <1>13

\* Two owners are never at the same slot.
LEMMA OwnersExclusive ==
  ASSUME TypeOK, Owners, Apart, NEW t \in Threads, NEW u \in Threads, t # u,
         Writing(t) \/ Reading(t), Writing(u) \/ Reading(u)
  PROVE  Slot(pos[t]) # Slot(pos[u])
<1> SUFFICES ASSUME Slot(pos[t]) = Slot(pos[u]) PROVE FALSE
  OBVIOUS
<1>1. pos[t] \in Nat /\ pos[u] \in Nat
  BY DEF TypeOK
<1>2. CASE Writing(t) /\ Writing(u)
  <2>1. pos[t] = pos[u]
    BY <1>2 DEF Owners
  <2> QED BY <1>2, <2>1 DEF Apart, Writing, Reading
<1>3. CASE Reading(t) /\ Reading(u)
  <2>1. pos[t] + 1 = pos[u] + 1
    BY <1>3 DEF Owners
  <2>2. pos[t] = pos[u]
    BY <1>1, <2>1
  <2> QED BY <1>3, <2>2 DEF Apart, Writing, Reading
<1>4. CASE Writing(t) /\ Reading(u)
  <2>1. pos[t] = pos[u] + 1
    BY <1>4 DEF Owners
  <2> QED BY <1>1, <2>1, SlotNext
<1>5. CASE Reading(t) /\ Writing(u)
  <2>1. pos[u] = pos[t] + 1
    BY <1>5 DEF Owners
  <2> QED BY <1>1, <2>1, SlotNext
<1> QED BY <1>2, <1>3, <1>4, <1>5

\* The exchange of enqueue_pos (queue.rs:112-117) gives the position to one
\* thread, whose slot no other thread then holds.
LEMMA PushClaimKeeps ==
  ASSUME IInv, TypeOK', NEW t \in Threads, PushClaim(t)
  PROVE  IInv'
<1> DEFINE q == pos[t]
<1>1. TypeOK /\ Counters /\ LocalCopies /\ Owners /\ Apart /\ Rounds /\ Cells /\ Accounted
  BY DEF IInv
<1>2. /\ q = enqueue_pos /\ pc[t] = "push_cas"
      /\ pc' = [pc EXCEPT ![t] = "push_write"]
      /\ enqueue_pos' = q + 1 /\ entered' = Append(entered, arg[t])
      /\ dequeue_pos' = dequeue_pos /\ sequence' = sequence /\ value' = value
      /\ pos' = pos /\ arg' = arg /\ left' = left
  BY DEF PushClaim, Goto
<1>3. /\ q \in Nat /\ dequeue_pos \in Nat /\ arg[t] \in Values
      /\ \A u \in Threads : pos[u] \in Nat
  BY <1>1, <1>2 DEF TypeOK, Pushing
<1>4. /\ sequence[Slot(q)] = q /\ q < dequeue_pos + Capacity
      /\ dequeue_pos <= q /\ Len(entered) = q
  BY <1>1, <1>2, <1>3 DEF LocalCopies, Rounds, Counters
<1>5. /\ Len(entered') = q + 1 /\ entered'[q + 1] = arg[t]
      /\ \A p \in Nat : p < q => entered'[p + 1] = entered[p + 1]
  BY <1>1, <1>2, <1>3, <1>4 DEF TypeOK
<1>6. /\ \A u \in Threads \ {t} : pc'[u] = pc[u]
      /\ pc'[t] = "push_write"
  BY <1>1, <1>2 DEF TypeOK
<1>7. /\ \A u \in Threads \ {t} : /\ Writing(u)' <=> Writing(u)
                                 /\ Reading(u)' <=> Reading(u)
      /\ Writing(t)' /\ ~Reading(t)' /\ ~Reading(t) /\ ~Writing(t)
  BY <1>2, <1>6 DEF Writing, Reading
<1>8. \A u \in Threads : /\ pc'[u] = "push_publish" <=> pc[u] = "push_publish"
                         /\ pc'[u] = "pop_release" <=> pc[u] = "pop_release"
                         /\ pc'[u] = "pop_read" <=> pc[u] = "pop_read"
  BY <1>2, <1>6
<1>9. Counters'
  BY <1>2, <1>3, <1>4, <1>5, CapacityAssumption DEF Counters
<1>10. LocalCopies'
  BY <1>1, <1>2, <1>3, <1>6 DEF LocalCopies
<1>11. Owners'
  BY <1>1, <1>2, <1>3, <1>4, <1>5, <1>7 DEF Owners, Writing, Reading
<1>12. Apart'
  BY <1>1, <1>2, <1>3, <1>7 DEF Owners, Apart, Writing, Reading
<1>13. Rounds'
  BY <1>1, <1>2, <1>3 DEF Rounds
<1>14. \A p \in Nat : sequence[Slot(p)] = p + 1 => entered'[p + 1] = entered[p + 1]
  BY <1>1, <1>2, <1>5 DEF Rounds
<1>15. Cells'
  <2>1. ASSUME NEW p \in Nat, sequence'[Slot(p)] = p + 1
        PROVE  \/ value'[Slot(p)] = entered'[p + 1]
               \/ \E u \in Threads : pc'[u] = "pop_release" /\ pos'[u] = p
    <3>1. \/ value[Slot(p)] = entered[p + 1]
          \/ \E u \in Threads : pc[u] = "pop_release" /\ pos[u] = p
      BY <1>1, <1>2, <2>1 DEF Cells
    <3>2. entered'[p + 1] = entered[p + 1]
      BY <1>2, <1>14, <2>1
    <3> QED BY <1>2, <1>8, <3>1, <3>2
  <2>2. ASSUME NEW p \in Nat, sequence'[Slot(p)] = p
        PROVE  \/ value'[Slot(p)] = NoValue
               \/ \E u \in Threads : pc'[u] = "push_publish" /\ pos'[u] = p
    <3>1. \/ value[Slot(p)] = NoValue
          \/ \E u \in Threads : pc[u] = "push_publish" /\ pos[u] = p
      BY <1>1, <1>2, <2>2 DEF Cells
    <3> QED BY <1>2, <1>8, <3>1
  <2>3. \A u \in Threads :
          /\ pc'[u] = "push_publish" => value'[Slot(pos'[u])] = arg'[u]
          /\ pc'[u] = "pop_release" => value'[Slot(pos'[u])] = NoValue
    BY <1>1, <1>2, <1>8 DEF Cells
  <2> QED BY <2>1, <2>2, <2>3 DEF Cells
<1>16. Accounted'
  <2>1. ASSUME NEW x \in left
        PROVE  x[1] \in Nat /\ x[1] < dequeue_pos /\ x[2] = entered'[x[1] + 1]
    <3>1. x[1] \in Nat
      BY <1>1 DEF TypeOK
    <3>2. x[1] < dequeue_pos /\ x[2] = entered[x[1] + 1]
      BY <1>1 DEF Accounted
    <3>3. x[1] < q
      BY <1>3, <1>4, <3>1, <3>2
    <3> QED BY <1>5, <3>1, <3>2, <3>3
  <2> QED BY <1>1, <1>2, <1>5, <1>8, <2>1 DEF Accounted
<1> QED BY <1>9, <1>10, <1>11, <1>12, <1>13, <1>15, <1>16 DEF IInv

\* The exchange of dequeue_pos (queue.rs:157-162) gives the position to one
\* thread, whose slot no other thread then holds.
LEMMA PopClaimKeeps ==
  ASSUME IInv, TypeOK', NEW t \in Threads, PopClaim(t)
  PROVE  IInv'
<1> DEFINE q == pos[t]
<1>1. TypeOK /\ Counters /\ LocalCopies /\ Owners /\ Apart /\ Rounds /\ Cells /\ Accounted
  BY DEF IInv
<1>2. /\ q = dequeue_pos /\ pc[t] = "pop_cas"
      /\ pc' = [pc EXCEPT ![t] = "pop_read"] /\ dequeue_pos' = q + 1
      /\ enqueue_pos' = enqueue_pos /\ sequence' = sequence /\ value' = value
      /\ pos' = pos /\ arg' = arg /\ entered' = entered /\ left' = left
  BY DEF PopClaim, Goto
<1>3. /\ q \in Nat /\ enqueue_pos \in Nat
      /\ \A u \in Threads : pos[u] \in Nat
  BY <1>1, <1>2 DEF TypeOK
<1>4. sequence[Slot(q)] = q + 1 /\ q < enqueue_pos
  BY <1>1, <1>2, <1>3 DEF LocalCopies, Rounds
<1>5. /\ \A u \in Threads \ {t} : pc'[u] = pc[u]
      /\ pc'[t] = "pop_read"
  BY <1>1, <1>2 DEF TypeOK
<1>6. /\ \A u \in Threads \ {t} : /\ Writing(u)' <=> Writing(u)
                                 /\ Reading(u)' <=> Reading(u)
      /\ Reading(t)' /\ ~Writing(t)' /\ ~Reading(t) /\ ~Writing(t)
  BY <1>2, <1>5 DEF Writing, Reading
<1>7. \A u \in Threads : /\ pc'[u] = "push_publish" <=> pc[u] = "push_publish"
                         /\ pc'[u] = "pop_release" <=> pc[u] = "pop_release"
  BY <1>2, <1>5
<1>8. Counters'
  BY <1>1, <1>2, <1>3, <1>4, CapacityAssumption DEF Counters
<1>9. LocalCopies'
  BY <1>1, <1>2, <1>3, <1>5 DEF LocalCopies
<1>10. \A u \in Threads : Writing(u) => pos[u] # q
  BY <1>1, <1>3, <1>4 DEF Owners, Writing, Reading
<1>11. Owners'
  BY <1>1, <1>2, <1>3, <1>4, <1>6, <1>10 DEF Owners, Writing, Reading
<1>12. Apart'
  BY <1>1, <1>2, <1>3, <1>6 DEF Owners, Apart, Writing, Reading
<1>13. Rounds'
  BY <1>1, <1>2, <1>3, CapacityAssumption DEF Rounds
<1>14. Cells'
  BY <1>1, <1>2, <1>7 DEF Cells
<1>15. Accounted'
  <2>1. \A x \in left : x[1] \in Nat /\ x[1] < q /\ x[2] = entered[x[1] + 1]
    BY <1>1, <1>2, <1>3 DEF Accounted, TypeOK
  <2>2. ASSUME NEW v \in Values, <<q, v>> \in left PROVE FALSE
    <3>1. <<q, v>>[1] < q
      BY <2>1, <2>2
    <3> QED BY <1>3, <3>1
  <2>3. \A u \in Threads : \A p \in 0 .. q - 1 :
          (pc'[u] = "pop_read" /\ pos'[u] = p) <=> (pc[u] = "pop_read" /\ pos[u] = p)
    BY <1>2, <1>3, <1>5
  <2>4. \A p \in 0 .. q - 1 :
          (\E v \in Values : <<p, v>> \in left)
            <=> ~ \E u \in Threads : pc'[u] = "pop_read" /\ pos'[u] = p
    BY <1>1, <1>2, <2>3 DEF Accounted
  <2>5. \E u \in Threads : pc'[u] = "pop_read" /\ pos'[u] = q
    BY <1>2, <1>5
  <2>6. \A p \in 0 .. dequeue_pos' - 1 : p \in 0 .. q - 1 \/ p = q
    BY <1>2, <1>3
  <2>7. \A x \in left : x[1] < dequeue_pos' /\ x[2] = entered'[x[1] + 1]
    BY <1>2, <1>3, <2>1
  <2>8. Len(entered') = enqueue_pos'
    BY <1>1, <1>2 DEF Accounted
  <2>9. \A p \in 0 .. dequeue_pos' - 1 :
          (\E v \in Values : <<p, v>> \in left')
            <=> ~ \E u \in Threads : pc'[u] = "pop_read" /\ pos'[u] = p
    BY <1>2, <2>2, <2>4, <2>5, <2>6
  <2> QED BY <1>2, <2>7, <2>8, <2>9 DEF Accounted
<1> QED BY <1>8, <1>9, <1>11, <1>12, <1>13, <1>14, <1>15 DEF IInv

\* The write of the value cell (queue.rs:118-128) touches the slot of the
\* claim only.
LEMMA PushWriteKeeps ==
  ASSUME IInv, TypeOK', NEW t \in Threads, PushWrite(t)
  PROVE  IInv'
<1> DEFINE q == pos[t]
<1>1. TypeOK /\ Counters /\ LocalCopies /\ Owners /\ Apart /\ Rounds /\ Cells /\ Accounted
  BY DEF IInv
<1>2. /\ pc[t] = "push_write" /\ pc' = [pc EXCEPT ![t] = "push_publish"]
      /\ value' = [value EXCEPT ![Slot(q)] = arg[t]]
      /\ dequeue_pos' = dequeue_pos /\ enqueue_pos' = enqueue_pos /\ sequence' = sequence
      /\ pos' = pos /\ arg' = arg /\ entered' = entered /\ left' = left
  BY DEF PushWrite, Goto
<1>3. /\ q \in Nat /\ \A u \in Threads : pos[u] \in Nat
      /\ \A i \in Slots : i # Slot(q) => value'[i] = value[i]
      /\ value'[Slot(q)] = arg[t]
  BY <1>1, <1>2, SlotFacts DEF TypeOK
<1>4. sequence[Slot(q)] = q
  BY <1>1, <1>2 DEF Owners, Writing
<1>5. /\ \A u \in Threads \ {t} : pc'[u] = pc[u]
      /\ pc'[t] = "push_publish"
  BY <1>1, <1>2 DEF TypeOK
<1>6. \A u \in Threads : /\ pc'[u] = "pop_release" <=> pc[u] = "pop_release"
                         /\ pc'[u] = "pop_read" <=> pc[u] = "pop_read"
  BY <1>2, <1>5
<1>7. Counters' /\ Rounds'
  BY <1>1, <1>2 DEF Counters, Rounds
<1>8. LocalCopies'
  BY <1>1, <1>2, <1>5 DEF LocalCopies
<1>9. Owners' /\ Apart'
  BY <1>1, <1>2, <1>5 DEF Owners, Apart, Writing, Reading
<1>10. Cells'
  <2>1. ASSUME NEW p \in Nat, sequence'[Slot(p)] = p + 1
        PROVE  \/ value'[Slot(p)] = entered'[p + 1]
               \/ \E u \in Threads : pc'[u] = "pop_release" /\ pos'[u] = p
    <3>1. Slot(p) # Slot(q)
      BY <1>2, <1>3, <1>4, <2>1, SlotFacts
    <3>2. \/ value[Slot(p)] = entered[p + 1]
          \/ \E u \in Threads : pc[u] = "pop_release" /\ pos[u] = p
      BY <1>1, <1>2, <2>1 DEF Cells
    <3> QED BY <1>2, <1>3, <1>6, <3>1, <3>2, SlotFacts
  <2>2. ASSUME NEW p \in Nat, sequence'[Slot(p)] = p
        PROVE  \/ value'[Slot(p)] = NoValue
               \/ \E u \in Threads : pc'[u] = "push_publish" /\ pos'[u] = p
    <3>1. CASE Slot(p) = Slot(q)
      BY <1>2, <1>4, <1>5, <2>2, <3>1
    <3>2. CASE Slot(p) # Slot(q)
      <4>1. \/ value[Slot(p)] = NoValue
            \/ \E u \in Threads : pc[u] = "push_publish" /\ pos[u] = p
        BY <1>1, <1>2, <2>2 DEF Cells
      <4> QED BY <1>2, <1>3, <1>5, <3>2, <4>1, SlotFacts
    <3> QED BY <3>1, <3>2
  <2>3. ASSUME NEW u \in Threads
        PROVE  /\ pc'[u] = "push_publish" => value'[Slot(pos'[u])] = arg'[u]
               /\ pc'[u] = "pop_release" => value'[Slot(pos'[u])] = NoValue
    <3>1. CASE u = t
      BY <1>2, <1>3, <1>5, <3>1
    <3>2. CASE u # t /\ pc[u] \in {"push_publish", "pop_release"}
      <4>1. Slot(pos[u]) # Slot(q)
        BY <1>1, <1>2, <3>2, OwnersExclusive DEF Writing, Reading
      <4> QED BY <1>1, <1>2, <1>3, <1>5, <3>2, <4>1, SlotFacts DEF Cells
    <3> QED BY <1>5, <3>1, <3>2
  <2> QED BY <2>1, <2>2, <2>3 DEF Cells
<1>11. Accounted'
  BY <1>1, <1>2, <1>6 DEF Accounted
<1> QED BY <1>7, <1>8, <1>9, <1>10, <1>11 DEF IInv

\* The store of pos + 1 (queue.rs:130-131) hands a written slot to the pops.
LEMMA PushPublishKeeps ==
  ASSUME IInv, TypeOK', NEW t \in Threads, PushPublish(t)
  PROVE  IInv'
<1> DEFINE q == pos[t]
<1>1. TypeOK /\ Counters /\ LocalCopies /\ Owners /\ Apart /\ Rounds /\ Cells /\ Accounted
  BY DEF IInv
<1>2. /\ pc[t] = "push_publish" /\ pc' = [pc EXCEPT ![t] = "idle"]
      /\ sequence' = [sequence EXCEPT ![Slot(q)] = q + 1]
      /\ dequeue_pos' = dequeue_pos /\ enqueue_pos' = enqueue_pos /\ value' = value
      /\ pos' = pos /\ arg' = arg /\ entered' = entered /\ left' = left
  BY DEF PushPublish, Goto
<1>3. /\ q \in Nat /\ \A u \in Threads : pos[u] \in Nat
      /\ \A i \in Slots : i # Slot(q) => sequence'[i] = sequence[i]
      /\ sequence'[Slot(q)] = q + 1
      /\ dequeue_pos \in Nat /\ enqueue_pos \in Nat
  BY <1>1, <1>2, SlotFacts DEF TypeOK
<1>4. /\ sequence[Slot(q)] = q /\ dequeue_pos <= q /\ q < enqueue_pos
      /\ value[Slot(q)] = entered[q + 1]
  BY <1>1, <1>2 DEF Owners, Writing, Cells
<1>5. /\ \A u \in Threads \ {t} : pc'[u] = pc[u]
      /\ pc'[t] = "idle"
  BY <1>1, <1>2 DEF TypeOK
<1>6. \A u \in Threads : /\ pc'[u] = "pop_release" <=> pc[u] = "pop_release"
                         /\ pc'[u] = "pop_read" <=> pc[u] = "pop_read"
  BY <1>2, <1>5
<1>7. Counters'
  BY <1>1, <1>2 DEF Counters
<1>8. LocalCopies'
  <2>1. ASSUME NEW u \in Threads, pc'[u] = "push_cas", pos[u] = enqueue_pos
        PROVE  sequence'[Slot(pos[u])] = pos[u]
    <3>1. u # t /\ pc[u] = "push_cas" /\ sequence[Slot(pos[u])] = pos[u]
      BY <1>1, <1>5, <2>1 DEF LocalCopies
    <3>2. Slot(pos[u]) # Slot(q)
      BY <1>3, <1>4, <2>1, <3>1
    <3> QED BY <1>3, <3>1, <3>2, SlotFacts
  <2>2. ASSUME NEW u \in Threads, pc'[u] = "pop_cas", pos[u] = dequeue_pos
        PROVE  sequence'[Slot(pos[u])] = pos[u] + 1
    <3>1. u # t /\ pc[u] = "pop_cas" /\ sequence[Slot(pos[u])] = pos[u] + 1
      BY <1>1, <1>5, <2>2 DEF LocalCopies
    <3>2. Slot(pos[u]) # Slot(q)
      BY <1>3, <1>4, <3>1, SlotFacts
    <3> QED BY <1>3, <3>1, <3>2, SlotFacts
  <2> QED BY <1>1, <1>2, <1>5, <2>1, <2>2 DEF LocalCopies
<1>9. Owners'
  <2>1. ASSUME NEW u \in Threads, Writing(u)' \/ Reading(u)'
        PROVE  u # t /\ (Writing(u) \/ Reading(u))
    BY <1>5, <2>1 DEF Writing, Reading
  <2>2. ASSUME NEW u \in Threads, Writing(u)' \/ Reading(u)'
        PROVE  sequence'[Slot(pos[u])] = sequence[Slot(pos[u])]
    BY <1>1, <1>2, <1>3, <2>1, <2>2, OwnersExclusive, SlotFacts DEF Writing
  <2> QED BY <1>1, <1>2, <1>5, <2>1, <2>2 DEF Owners, Writing, Reading
<1>10. Apart'
  BY <1>1, <1>2, <1>5 DEF Apart, Writing, Reading
<1>11. Rounds'
  <2>1. ASSUME NEW p \in Nat, Slot(p) = Slot(q)
        PROVE  /\ sequence'[Slot(p)] = p + 1 => p < enqueue_pos'
               /\ sequence'[Slot(p)] = p => p < dequeue_pos' + Capacity
    BY <1>2, <1>3, <1>4, <2>1, SlotFacts
  <2>2. ASSUME NEW p \in Nat, Slot(p) # Slot(q)
        PROVE  /\ sequence'[Slot(p)] = p + 1 => p < enqueue_pos'
               /\ sequence'[Slot(p)] = p => p < dequeue_pos' + Capacity
    BY <1>1, <1>2, <1>3, <2>2, SlotFacts DEF Rounds
  <2> QED BY <2>1, <2>2 DEF Rounds
<1>12. Cells'
  <2>1. ASSUME NEW p \in Nat, sequence'[Slot(p)] = p + 1
        PROVE  \/ value'[Slot(p)] = entered'[p + 1]
               \/ \E u \in Threads : pc'[u] = "pop_release" /\ pos'[u] = p
    <3>1. CASE Slot(p) = Slot(q)
      BY <1>2, <1>3, <1>4, <2>1, <3>1
    <3>2. CASE Slot(p) # Slot(q)
      <4>1. \/ value[Slot(p)] = entered[p + 1]
            \/ \E u \in Threads : pc[u] = "pop_release" /\ pos[u] = p
        BY <1>1, <1>3, <2>1, <3>2, SlotFacts DEF Cells
      <4> QED BY <1>2, <1>6, <4>1
    <3> QED BY <3>1, <3>2
  <2>2. ASSUME NEW p \in Nat, sequence'[Slot(p)] = p
        PROVE  \/ value'[Slot(p)] = NoValue
               \/ \E u \in Threads : pc'[u] = "push_publish" /\ pos'[u] = p
    <3>1. Slot(p) # Slot(q)
      BY <1>3, <2>2, SlotFacts
    <3>2. \/ value[Slot(p)] = NoValue
          \/ \E u \in Threads : pc[u] = "push_publish" /\ pos[u] = p
      BY <1>1, <1>3, <2>2, <3>1, SlotFacts DEF Cells
    <3> QED BY <1>2, <1>5, <3>1, <3>2
  <2>3. \A u \in Threads :
          /\ pc'[u] = "push_publish" => value'[Slot(pos'[u])] = arg'[u]
          /\ pc'[u] = "pop_release" => value'[Slot(pos'[u])] = NoValue
    BY <1>1, <1>2, <1>5 DEF Cells
  <2> QED BY <2>1, <2>2, <2>3 DEF Cells
<1>13. Accounted'
  BY <1>1, <1>2, <1>6 DEF Accounted
<1> QED BY <1>7, <1>8, <1>9, <1>10, <1>11, <1>12, <1>13 DEF IInv

\* The read of the value cell (queue.rs:163-176) takes the value pushed at
\* that position, once.
LEMMA PopReadKeeps ==
  ASSUME IInv, TypeOK', NEW t \in Threads, PopRead(t)
  PROVE  IInv'
<1> DEFINE q == pos[t]
<1>1. TypeOK /\ Counters /\ LocalCopies /\ Owners /\ Apart /\ Rounds /\ Cells /\ Accounted
  BY DEF IInv
<1>2. /\ pc[t] = "pop_read" /\ pc' = [pc EXCEPT ![t] = "pop_release"]
      /\ arg' = [arg EXCEPT ![t] = value[Slot(q)]]
      /\ value' = [value EXCEPT ![Slot(q)] = NoValue]
      /\ left' = left \cup {<<q, value[Slot(q)]>>}
      /\ dequeue_pos' = dequeue_pos /\ enqueue_pos' = enqueue_pos /\ sequence' = sequence
      /\ pos' = pos /\ entered' = entered
  BY DEF PopRead, Goto
<1>3. /\ q \in Nat /\ \A u \in Threads : pos[u] \in Nat
      /\ \A i \in Slots : i # Slot(q) => value'[i] = value[i]
      /\ value'[Slot(q)] = NoValue
      /\ dequeue_pos \in Nat /\ enqueue_pos \in Nat
  BY <1>1, <1>2, SlotFacts DEF TypeOK
<1>4. /\ \A u \in Threads \ {t} : pc'[u] = pc[u] /\ arg'[u] = arg[u]
      /\ pc'[t] = "pop_release"
  BY <1>1, <1>2 DEF TypeOK
<1>5. sequence[Slot(q)] = q + 1 /\ q < dequeue_pos /\ q < enqueue_pos
  BY <1>1, <1>2, <1>3 DEF Owners, Reading, Counters
<1>6. value[Slot(q)] = entered[q + 1] /\ entered[q + 1] \in Values
  <2>1. \A u \in Threads : ~(pc[u] = "pop_release" /\ pos[u] = q)
    BY <1>1, <1>2 DEF Apart, Reading
  <2>2. value[Slot(q)] = entered[q + 1]
    BY <1>1, <1>3, <1>5, <2>1 DEF Cells
  <2>3. q + 1 \in 1 .. Len(entered)
    BY <1>1, <1>3, <1>5 DEF Counters
  <2> QED BY <1>1, <2>2, <2>3 DEF TypeOK
<1>7. Counters' /\ Rounds'
  BY <1>1, <1>2 DEF Counters, Rounds
<1>8. LocalCopies'
  BY <1>1, <1>2, <1>4 DEF LocalCopies
<1>9. Owners' /\ Apart'
  BY <1>1, <1>2, <1>4 DEF Owners, Apart, Writing, Reading
<1>10. Cells'
  <2>1. ASSUME NEW p \in Nat, sequence'[Slot(p)] = p + 1
        PROVE  \/ value'[Slot(p)] = entered'[p + 1]
               \/ \E u \in Threads : pc'[u] = "pop_release" /\ pos'[u] = p
    <3>1. CASE Slot(p) = Slot(q)
      <4>1. p = q
        BY <1>2, <1>3, <1>5, <2>1, <3>1
      <4> QED BY <1>2, <1>4, <4>1
    <3>2. CASE Slot(p) # Slot(q)
      <4>1. \/ value[Slot(p)] = entered[p + 1]
            \/ \E u \in Threads : pc[u] = "pop_release" /\ pos[u] = p
        BY <1>1, <1>2, <2>1 DEF Cells
      <4> QED BY <1>2, <1>3, <1>4, <3>2, <4>1, SlotFacts
    <3> QED BY <3>1, <3>2
  <2>2. ASSUME NEW p \in Nat, sequence'[Slot(p)] = p
        PROVE  \/ value'[Slot(p)] = NoValue
               \/ \E u \in Threads : pc'[u] = "push_publish" /\ pos'[u] = p
    <3>1. \/ value[Slot(p)] = NoValue
          \/ \E u \in Threads : pc[u] = "push_publish" /\ pos[u] = p
      BY <1>1, <1>2, <2>2 DEF Cells
    <3> QED BY <1>2, <1>3, <1>4, <3>1, SlotFacts
  <2>3. ASSUME NEW u \in Threads
        PROVE  /\ pc'[u] = "push_publish" => value'[Slot(pos'[u])] = arg'[u]
               /\ pc'[u] = "pop_release" => value'[Slot(pos'[u])] = NoValue
    <3>1. CASE u = t
      BY <1>2, <1>3, <1>4, <3>1
    <3>2. CASE u # t /\ pc[u] \in {"push_publish", "pop_release"}
      <4>1. Slot(pos[u]) # Slot(q)
        BY <1>1, <1>2, <3>2, OwnersExclusive DEF Writing, Reading
      <4> QED BY <1>1, <1>2, <1>3, <1>4, <3>2, <4>1, SlotFacts DEF Cells
    <3> QED BY <1>4, <3>1, <3>2
  <2> QED BY <2>1, <2>2, <2>3 DEF Cells
<1>11. Accounted'
  <2>1. \A x \in left' : x[1] < dequeue_pos' /\ x[2] = entered'[x[1] + 1]
    BY <1>1, <1>2, <1>5, <1>6 DEF Accounted
  <2>2. ASSUME NEW p \in 0 .. dequeue_pos - 1, p # q
        PROVE  (\E v \in Values : <<p, v>> \in left')
                 <=> ~ \E u \in Threads : pc'[u] = "pop_read" /\ pos'[u] = p
    <3>1. \A v \in Values : <<p, v>> \in left' <=> <<p, v>> \in left
      BY <1>2, <2>2
    <3>2. \A u \in Threads :
            (pc'[u] = "pop_read" /\ pos'[u] = p) <=> (pc[u] = "pop_read" /\ pos[u] = p)
      BY <1>2, <1>4, <2>2
    <3> QED BY <1>1, <3>1, <3>2 DEF Accounted
  <2>3. \E v \in Values : <<q, v>> \in left'
    BY <1>2, <1>6
  <2>4. ~ \E u \in Threads : pc'[u] = "pop_read" /\ pos'[u] = q
    BY <1>1, <1>2, <1>4 DEF Apart, Reading
  <2>5. \A p \in 0 .. dequeue_pos' - 1 :
          (\E v \in Values : <<p, v>> \in left')
            <=> ~ \E u \in Threads : pc'[u] = "pop_read" /\ pos'[u] = p
    BY <1>2, <2>2, <2>3, <2>4
  <2> QED BY <1>1, <1>2, <2>1, <2>5 DEF Accounted
<1> QED BY <1>7, <1>8, <1>9, <1>10, <1>11 DEF IInv

\* The store of pos + capacity (queue.rs:178-180) hands an emptied slot to
\* the pushes of the next round.
LEMMA PopReleaseKeeps ==
  ASSUME IInv, TypeOK', NEW t \in Threads, PopRelease(t)
  PROVE  IInv'
<1> DEFINE q == pos[t]
           r == pos[t] + Capacity
<1>1. TypeOK /\ Counters /\ LocalCopies /\ Owners /\ Apart /\ Rounds /\ Cells /\ Accounted
  BY DEF IInv
<1>2. /\ pc[t] = "pop_release" /\ pc' = [pc EXCEPT ![t] = "idle"]
      /\ sequence' = [sequence EXCEPT ![Slot(q)] = r]
      /\ dequeue_pos' = dequeue_pos /\ enqueue_pos' = enqueue_pos /\ value' = value
      /\ pos' = pos /\ arg' = arg /\ entered' = entered /\ left' = left
  BY DEF PopRelease, Goto
<1>3. /\ q \in Nat /\ r \in Nat /\ \A u \in Threads : pos[u] \in Nat
      /\ Slot(r) = Slot(q)
      /\ \A i \in Slots : i # Slot(q) => sequence'[i] = sequence[i]
      /\ sequence'[Slot(q)] = r
      /\ dequeue_pos \in Nat /\ enqueue_pos \in Nat
  BY <1>1, <1>2, SlotFacts, CapacityAssumption DEF TypeOK
<1>4. /\ sequence[Slot(q)] = q + 1 /\ q < dequeue_pos /\ value[Slot(q)] = NoValue
  BY <1>1, <1>2 DEF Owners, Reading, Cells
<1>5. /\ \A u \in Threads \ {t} : pc'[u] = pc[u]
      /\ pc'[t] = "idle"
  BY <1>1, <1>2 DEF TypeOK
<1>6. \A u \in Threads : /\ pc'[u] = "push_publish" <=> pc[u] = "push_publish"
                         /\ pc'[u] = "pop_read" <=> pc[u] = "pop_read"
  BY <1>2, <1>5
<1>7. Counters'
  BY <1>1, <1>2 DEF Counters
<1>8. \A p \in Nat : Slot(p) = Slot(q) => r # p + 1
  BY <1>3, SlotFacts
<1>9. LocalCopies'
  <2>1. ASSUME NEW u \in Threads, pc'[u] = "push_cas", pos[u] = enqueue_pos
        PROVE  sequence'[Slot(pos[u])] = pos[u]
    <3>1. u # t /\ pc[u] = "push_cas" /\ sequence[Slot(pos[u])] = pos[u]
      BY <1>1, <1>5, <2>1 DEF LocalCopies
    <3>2. Slot(pos[u]) # Slot(q)
      <4> SUFFICES ASSUME Slot(pos[u]) = Slot(q) PROVE FALSE
        OBVIOUS
      <4>1. pos[u] = q + 1
        BY <1>4, <3>1
      <4> QED BY <1>3, <4>1, SlotNext
    <3> QED BY <1>3, <3>1, <3>2, SlotFacts
  <2>2. ASSUME NEW u \in Threads, pc'[u] = "pop_cas", pos[u] = dequeue_pos
        PROVE  sequence'[Slot(pos[u])] = pos[u] + 1
    <3>1. u # t /\ pc[u] = "pop_cas" /\ sequence[Slot(pos[u])] = pos[u] + 1
      BY <1>1, <1>5, <2>2 DEF LocalCopies
    <3>2. Slot(pos[u]) # Slot(q)
      BY <1>3, <1>4, <2>2, <3>1
    <3> QED BY <1>3, <3>1, <3>2, SlotFacts
  <2> QED BY <1>1, <1>2, <1>5, <2>1, <2>2 DEF LocalCopies
<1>10. Owners'
  <2>1. ASSUME NEW u \in Threads, Writing(u)' \/ Reading(u)'
        PROVE  u # t /\ (Writing(u) \/ Reading(u))
    BY <1>5, <2>1 DEF Writing, Reading
  <2>2. ASSUME NEW u \in Threads, Writing(u)' \/ Reading(u)'
        PROVE  sequence'[Slot(pos[u])] = sequence[Slot(pos[u])]
    BY <1>1, <1>2, <1>3, <2>1, <2>2, OwnersExclusive, SlotFacts DEF Reading
  <2> QED BY <1>1, <1>2, <1>5, <2>1, <2>2 DEF Owners, Writing, Reading
<1>11. Apart'
  BY <1>1, <1>2, <1>5 DEF Apart, Writing, Reading
<1>12. Rounds'
  <2>1. ASSUME NEW p \in Nat, Slot(p) = Slot(q)
        PROVE  /\ sequence'[Slot(p)] = p + 1 => p < enqueue_pos'
               /\ sequence'[Slot(p)] = p => p < dequeue_pos' + Capacity
    BY <1>2, <1>3, <1>4, <1>8, <2>1, CapacityAssumption
  <2>2. ASSUME NEW p \in Nat, Slot(p) # Slot(q)
        PROVE  /\ sequence'[Slot(p)] = p + 1 => p < enqueue_pos'
               /\ sequence'[Slot(p)] = p => p < dequeue_pos' + Capacity
    BY <1>1, <1>2, <1>3, <2>2, SlotFacts DEF Rounds
  <2> QED BY <2>1, <2>2 DEF Rounds
<1>13. Cells'
  <2>1. ASSUME NEW p \in Nat, sequence'[Slot(p)] = p + 1
        PROVE  \/ value'[Slot(p)] = entered'[p + 1]
               \/ \E u \in Threads : pc'[u] = "pop_release" /\ pos'[u] = p
    <3>1. Slot(p) # Slot(q)
      BY <1>3, <1>8, <2>1
    <3>2. \/ value[Slot(p)] = entered[p + 1]
          \/ \E u \in Threads : pc[u] = "pop_release" /\ pos[u] = p
      BY <1>1, <1>3, <2>1, <3>1, SlotFacts DEF Cells
    <3> QED BY <1>2, <1>5, <3>1, <3>2
  <2>2. ASSUME NEW p \in Nat, sequence'[Slot(p)] = p
        PROVE  \/ value'[Slot(p)] = NoValue
               \/ \E u \in Threads : pc'[u] = "push_publish" /\ pos'[u] = p
    <3>1. CASE Slot(p) = Slot(q)
      BY <1>2, <1>4, <3>1
    <3>2. CASE Slot(p) # Slot(q)
      <4>1. \/ value[Slot(p)] = NoValue
            \/ \E u \in Threads : pc[u] = "push_publish" /\ pos[u] = p
        BY <1>1, <1>3, <2>2, <3>2, SlotFacts DEF Cells
      <4> QED BY <1>2, <1>6, <4>1
    <3> QED BY <3>1, <3>2
  <2>3. \A u \in Threads :
          /\ pc'[u] = "push_publish" => value'[Slot(pos'[u])] = arg'[u]
          /\ pc'[u] = "pop_release" => value'[Slot(pos'[u])] = NoValue
    BY <1>1, <1>2, <1>5 DEF Cells
  <2> QED BY <2>1, <2>2, <2>3 DEF Cells
<1>14. Accounted'
  BY <1>1, <1>2, <1>6 DEF Accounted
<1> QED BY <1>7, <1>9, <1>10, <1>11, <1>12, <1>13, <1>14 DEF IInv

----------------------------------------------------------------------------
(* The theorems *)

\* Every step keeps the invariant.
LEMMA StepIInv == IInv /\ [Next]_vars => IInv'
<1> SUFFICES ASSUME IInv, [Next]_vars PROVE IInv'
  OBVIOUS
<1>1. TypeOK'
  BY TypeStep DEF IInv
<1>2. ASSUME NEW t \in Threads,
             PushStep(t) \/ PopStep(t) \/ PopBegin(t) \/ \E v \in Values : PushBegin(t, v)
      PROVE  IInv'
  <2>1. CASE PushStep(t)
    BY <1>1, <2>1, QuietActions, PushClaimKeeps, PushWriteKeeps, PushPublishKeeps,
       SMTT(20) DEF PushStep
  <2>2. CASE PopStep(t)
    BY <1>1, <2>2, QuietActions, PopClaimKeeps, PopReadKeeps, PopReleaseKeeps,
       SMTT(20) DEF PopStep
  <2>3. CASE PopBegin(t) \/ \E v \in Values : PushBegin(t, v)
    BY <1>1, <2>3, QuietActions
  <2> QED BY <1>2, <2>1, <2>2, <2>3
<1>3. CASE UNCHANGED vars
  <2>1. UNCHANGED <<enqueue_pos, dequeue_pos, sequence, value, pc, pos, arg, entered, left>>
    BY <1>3 DEF vars
  <2>2. Counters' /\ LocalCopies' /\ Rounds'
    BY <2>1 DEF IInv, Counters, LocalCopies, Rounds
  <2>3. Owners' /\ Apart'
    BY <2>1 DEF IInv, Owners, Apart, Writing, Reading
  <2>4. Cells'
    BY <2>1 DEF IInv, Cells
  <2>5. Accounted'
    <3>1. Accounted
      BY DEF IInv
    <3> QED BY <2>1, <3>1, Zenon DEF Accounted
  <2> QED BY <1>1, <2>2, <2>3, <2>4, <2>5 DEF IInv
<1> QED BY <1>2, <1>3 DEF Next

\* Every variable stays in its set, for any threads, values and capacity.
THEOREM TypeCorrect == Spec => []TypeOK
<1>1. TypeOK /\ [Next]_vars => TypeOK'
  BY TypeStep
<1> QED BY <1>1, TypeInit, PTL DEF Spec

\* The inductive invariant holds in every reachable state of push and pop.
THEOREM Invariance == Spec => []IInv
  BY InitIInv, StepIInv, PTL DEF Spec

\* No two threads are ever inside the unsafe accesses of the same slot: the
\* argument for `unsafe impl Sync' (queue.rs:28-37), for every instance.
THEOREM Exclusive == Spec => []SlotExclusive
<1>1. IInv => SlotExclusive
  BY OwnersExclusive DEF IInv, SlotExclusive
<1> QED BY <1>1, Invariance, PTL

\* An unsafe access finds its slot as the unsafe block assumes: a write finds
\* an empty cell, a read an initialised one (queue.rs:118-128, 163-176).
THEOREM Ready == Spec => []CellReady
<1>1. IInv => CellReady
  <2> SUFFICES ASSUME IInv, NEW t \in Threads
               PROVE  /\ Writing(t) => sequence[Slot(pos[t])] = pos[t]
                      /\ Reading(t) => sequence[Slot(pos[t])] = pos[t] + 1
                      /\ pc[t] = "push_write" => value[Slot(pos[t])] = NoValue
                      /\ pc[t] = "pop_read" => value[Slot(pos[t])] # NoValue
    BY DEF CellReady
  <2>1. TypeOK /\ Counters /\ Owners /\ Apart /\ Cells /\ pos[t] \in Nat
    BY DEF IInv, TypeOK
  <2>2. ASSUME pc[t] = "push_write" PROVE value[Slot(pos[t])] = NoValue
    <3>1. ASSUME NEW u \in Threads, pc[u] = "push_publish" PROVE pos[u] # pos[t]
      <4>1. u # t /\ Writing(u) /\ Writing(t)
        BY <2>2, <3>1 DEF Writing
      <4> QED BY <2>1, <2>2, <3>1, <4>1 DEF Apart, Writing, Reading
    <3> QED BY <2>1, <2>2, <3>1 DEF Owners, Cells, Writing
  <2>3. ASSUME pc[t] = "pop_read" PROVE value[Slot(pos[t])] # NoValue
    <3>1. \A u \in Threads : ~(pc[u] = "pop_release" /\ pos[u] = pos[t])
      BY <2>1, <2>3 DEF Apart, Reading
    <3>2. value[Slot(pos[t])] = entered[pos[t] + 1]
      BY <2>1, <2>3, <3>1 DEF Owners, Cells, Reading
    <3>3. pos[t] + 1 \in 1 .. Len(entered)
      BY <2>1, <2>3 DEF Owners, Reading, Counters, TypeOK
    <3> QED BY <2>1, <3>2, <3>3, ValueAssumption DEF TypeOK
  <2> QED BY <2>1, <2>2, <2>3 DEF Owners
<1> QED BY <1>1, Invariance, PTL

\* What pops have read is what was pushed at those positions, and every
\* position passed by pops has been read or is about to be by the one thread
\* that claimed it (queue.rs:149-192).
THEOREM NothingLost == Spec => []Accounted
<1>1. IInv => Accounted
  BY DEF IInv
<1> QED BY <1>1, Invariance, PTL

----------------------------------------------------------------------------
(***************************************************************************)
(* Proof that the ring of MpmcQueue implements BoundedFifo.  IInv says     *)
(* what a sequence number found by a thread allows it to do; a refusal     *)
(* needs the converse, what a number that was NOT found excludes: a        *)
(* position the pops have passed never looks free or ready again, a        *)
(* claimed one is ready unless its push is half way, and the next round's  *)
(* is free unless a pop is half way.                                       *)
(***************************************************************************)

\* A thread inside an operation has not answered yet.
Answers == \A t \in Threads : result[t] = "busy" <=> pc[t] # "idle"

\* What a pop carries is what was pushed at its position.
Carried == \A t \in Threads : pc[t] = "pop_release" => arg[t] = entered[pos[t] + 1]

\* A position the pops have passed looks neither free nor ready again.
Passed ==
  \A p \in Nat : p < dequeue_pos => p < sequence[Slot(p)]

\* A claimed position is ready, or its push is half way.
Filled ==
  \A p \in Nat :
    dequeue_pos <= p /\ p < enqueue_pos
      => \/ sequence[Slot(p)] = p + 1
         \/ \E t \in Threads : Writing(t) /\ pos[t] = p

\* A position of the next round is free, or the pop of the round before is half
\* way.
Vacated ==
  \A p \in Nat :
    enqueue_pos <= p /\ p < dequeue_pos + Capacity
      => \/ sequence[Slot(p)] = p
         \/ \E t \in Threads : Reading(t) /\ pos[t] + Capacity = p

RingInv == IInv /\ Answers /\ Carried /\ Passed /\ Filled /\ Vacated

\* The queue that new() returns: nothing is claimed and every slot of the first
\* round is free.
LEMMA InitRing == Init => RingInv
<1> SUFFICES ASSUME Init PROVE RingInv
  OBVIOUS
<1>1. IInv
  BY InitIInv
<1>2. Answers /\ Carried /\ Passed /\ Filled
  BY DEF Init, Answers, Carried, Passed, Filled
<1>3. ASSUME NEW p \in Nat, p < Capacity
      PROVE  Slot(p) = p
  BY <1>3, CapacityAssumption DEF Slot
<1>4. Vacated
  BY <1>3, CapacityAssumption DEF Init, Vacated, Slots
<1> QED BY <1>1, <1>2, <1>4 DEF RingInv

\* An access that neither takes nor gives up a slot, and moves neither counter.
LEMMA QuietRing ==
  ASSUME RingInv, IInv',
         UNCHANGED <<enqueue_pos, dequeue_pos, sequence>>,
         \A u \in Threads : (Writing(u) \/ Reading(u) \/ Writing(u)' \/ Reading(u)')
                              => /\ pos'[u] = pos[u]
                                 /\ Writing(u)' = Writing(u)
                                 /\ Reading(u)' = Reading(u)
  PROVE  Passed' /\ Filled' /\ Vacated'
<1>1. Passed'
  BY DEF RingInv, Passed
<1>2. Filled'
  BY DEF RingInv, Filled
<1>3. Vacated'
  BY DEF RingInv, Vacated
<1> QED BY <1>1, <1>2, <1>3

\* A claim of a push: its position is the last of the claimed ones.
LEMMA PushClaimRing ==
  ASSUME RingInv, NEW t \in Threads, PushClaim(t)
  PROVE  Passed' /\ Filled' /\ Vacated'
<1>1. /\ pos[t] = enqueue_pos /\ enqueue_pos' = enqueue_pos + 1
      /\ dequeue_pos' = dequeue_pos /\ sequence' = sequence /\ pos' = pos
      /\ enqueue_pos \in Nat /\ pc[t] = "push_cas"
      /\ pc' = [pc EXCEPT ![t] = "push_write"] /\ t \in DOMAIN pc
  BY DEF PushClaim, Goto, RingInv, IInv, TypeOK
<1>2. /\ Writing(t)' /\ \A u \in Threads : Writing(u) => Writing(u)'
      /\ \A u \in Threads : Reading(u) => Reading(u)'
  BY <1>1 DEF Writing, Reading
<1>3. Passed'
  BY <1>1 DEF RingInv, Passed
<1>4. Filled'
  BY <1>1, <1>2 DEF RingInv, Filled
<1>5. Vacated'
  BY <1>1, <1>2 DEF RingInv, Vacated
<1> QED BY <1>3, <1>4, <1>5

\* A claim of a pop: its slot is the last of the next round's.
LEMMA PopClaimRing ==
  ASSUME RingInv, NEW t \in Threads, PopClaim(t)
  PROVE  Passed' /\ Filled' /\ Vacated'
<1>1. /\ pos[t] = dequeue_pos /\ dequeue_pos' = dequeue_pos + 1
      /\ enqueue_pos' = enqueue_pos /\ sequence' = sequence /\ pos' = pos
      /\ dequeue_pos \in Nat /\ pc[t] = "pop_cas"
      /\ pc' = [pc EXCEPT ![t] = "pop_read"] /\ t \in DOMAIN pc
      /\ sequence[Slot(dequeue_pos)] = dequeue_pos + 1
  BY DEF PopClaim, Goto, RingInv, IInv, TypeOK, LocalCopies
<1>2. /\ Reading(t)' /\ \A u \in Threads : Writing(u) => Writing(u)'
      /\ \A u \in Threads : Reading(u) => Reading(u)'
  BY <1>1 DEF Writing, Reading
<1>3. Passed'
  <2> SUFFICES ASSUME NEW p \in Nat, p < dequeue_pos + 1
               PROVE  p < sequence[Slot(p)]
    BY <1>1 DEF Passed
  <2>1. p < dequeue_pos \/ p = dequeue_pos
    BY <1>1
  <2> QED BY <1>1, <2>1 DEF RingInv, Passed
<1>4. Filled'
  BY <1>1, <1>2 DEF RingInv, Filled
<1>5. Vacated'
  <2> SUFFICES ASSUME NEW p \in Nat, enqueue_pos <= p, p < dequeue_pos + 1 + Capacity
               PROVE  \/ sequence[Slot(p)] = p
                      \/ \E u \in Threads : Reading(u)' /\ pos[u] + Capacity = p
    BY <1>1 DEF Vacated
  <2>1. p < dequeue_pos + Capacity \/ p = dequeue_pos + Capacity
    BY <1>1, CapacityAssumption
  <2> QED BY <1>1, <1>2, <2>1 DEF RingInv, Vacated
<1> QED BY <1>3, <1>4, <1>5

\* A push stores its sequence number: its position, and no other, is ready now.
LEMMA PushPublishRing ==
  ASSUME RingInv, NEW t \in Threads, PushPublish(t)
  PROVE  Passed' /\ Filled' /\ Vacated'
<1> DEFINE q == pos[t]
<1>1. /\ q \in Nat /\ dequeue_pos \in Nat /\ enqueue_pos \in Nat
      /\ \A p \in Nat : sequence[Slot(p)] \in Nat
      /\ \A u \in Threads : pos[u] \in Nat
      /\ t \in DOMAIN pc /\ DOMAIN sequence = Slots
  BY SlotFacts DEF RingInv, IInv, TypeOK
<1>2. /\ pc[t] = "push_publish" /\ pc' = [pc EXCEPT ![t] = "idle"]
      /\ sequence' = [sequence EXCEPT ![Slot(q)] = q + 1]
      /\ dequeue_pos' = dequeue_pos /\ enqueue_pos' = enqueue_pos /\ pos' = pos
      /\ Writing(t)
  BY DEF PushPublish, Goto, Writing
<1>3. dequeue_pos <= q /\ q < enqueue_pos /\ sequence[Slot(q)] = q
  BY <1>2 DEF RingInv, IInv, Owners
<1>4. \A u \in Threads : /\ Writing(u) /\ u # t => Writing(u)'
                         /\ Reading(u) => Reading(u)'
                         /\ Writing(u) => sequence[Slot(pos[u])] = pos[u]
                         /\ Reading(u) => sequence[Slot(pos[u])] = pos[u] + 1
  BY <1>1, <1>2 DEF Writing, Reading, RingInv, IInv, Owners
<1>5. \A p \in Nat : sequence'[Slot(p)] = IF Slot(p) = Slot(q) THEN q + 1
                                          ELSE sequence[Slot(p)]
  BY <1>1, <1>2, SlotFacts
<1> HIDE DEF q
<1>6. Passed'
  <2> SUFFICES ASSUME NEW p \in Nat, p < dequeue_pos
               PROVE  p < sequence'[Slot(p)]
    BY <1>2 DEF Passed
  <2> QED BY <1>1, <1>3, <1>5 DEF RingInv, Passed
<1>7. Filled'
  <2> SUFFICES ASSUME NEW p \in Nat, dequeue_pos <= p, p < enqueue_pos
               PROVE  \/ sequence'[Slot(p)] = p + 1
                      \/ \E u \in Threads : Writing(u)' /\ pos[u] = p
    BY <1>2 DEF Filled
  <2>1. CASE p = q
    BY <1>5, <2>1
  <2>2. CASE p # q
    <3>1. CASE \E u \in Threads : Writing(u) /\ pos[u] = p
      BY <1>4, <2>2, <3>1 DEF q
    <3>2. CASE sequence[Slot(p)] = p + 1
      <4>1. Slot(p) # Slot(q)
        BY <1>1, <1>3, <3>2, SlotFacts
      <4> QED BY <1>5, <3>2, <4>1
    <3> QED BY <3>1, <3>2 DEF RingInv, Filled
  <2> QED BY <2>1, <2>2
<1>8. Vacated'
  <2> SUFFICES ASSUME NEW p \in Nat, enqueue_pos <= p, p < dequeue_pos + Capacity
               PROVE  \/ sequence'[Slot(p)] = p
                      \/ \E u \in Threads : Reading(u)' /\ pos[u] + Capacity = p
    BY <1>2 DEF Vacated
  <2>1. CASE \E u \in Threads : Reading(u) /\ pos[u] + Capacity = p
    BY <1>4, <2>1
  <2>2. CASE sequence[Slot(p)] = p
    <3>1. Slot(p) # Slot(q)
      BY <1>1, <1>3, <2>2
    <3> QED BY <1>5, <2>2, <3>1
  <2> QED BY <2>1, <2>2 DEF RingInv, Vacated
<1> QED BY <1>6, <1>7, <1>8

\* A pop stores its sequence number: its slot is free for the next round.
LEMMA PopReleaseRing ==
  ASSUME RingInv, NEW t \in Threads, PopRelease(t)
  PROVE  Passed' /\ Filled' /\ Vacated'
<1> DEFINE q == pos[t]
           r == pos[t] + Capacity
<1>1. /\ q \in Nat /\ r \in Nat /\ r = q + Capacity /\ dequeue_pos \in Nat /\ enqueue_pos \in Nat
      /\ \A p \in Nat : sequence[Slot(p)] \in Nat
      /\ \A u \in Threads : pos[u] \in Nat
      /\ t \in DOMAIN pc /\ DOMAIN sequence = Slots
  <2>1. TypeOK
    BY DEF RingInv, IInv
  <2>2. q \in Nat /\ Capacity \in Nat
    BY <2>1, CapacityAssumption DEF TypeOK
  <2>3. r \in Nat /\ r = q + Capacity
    BY <2>2
  <2> HIDE DEF q, r
  <2> QED BY <2>1, <2>2, <2>3, SlotFacts DEF TypeOK
<1>2. /\ pc[t] = "pop_release" /\ pc' = [pc EXCEPT ![t] = "idle"]
      /\ sequence' = [sequence EXCEPT ![Slot(q)] = r]
      /\ dequeue_pos' = dequeue_pos /\ enqueue_pos' = enqueue_pos /\ pos' = pos
      /\ Reading(t)
  BY DEF PopRelease, Goto, Reading
<1>3. q < dequeue_pos /\ sequence[Slot(q)] = q + 1 /\ Slot(r) = Slot(q)
  BY <1>1, <1>2, SlotFacts DEF RingInv, IInv, Owners
<1>4. \A u \in Threads : /\ Writing(u) => Writing(u)'
                         /\ Reading(u) /\ u # t => Reading(u)'
  BY <1>1, <1>2 DEF Writing, Reading
<1>5. \A p \in Nat : sequence'[Slot(p)] = IF Slot(p) = Slot(q) THEN r
                                          ELSE sequence[Slot(p)]
  BY <1>1, <1>2, SlotFacts
<1> HIDE DEF q, r
<1>6. Passed'
  <2> SUFFICES ASSUME NEW p \in Nat, p < dequeue_pos
               PROVE  p < sequence'[Slot(p)]
    BY <1>2 DEF Passed
  <2>1. p < sequence[Slot(p)]
    BY DEF RingInv, Passed
  <2> QED BY <1>1, <1>3, <1>5, <2>1, CapacityAssumption
<1>7. Filled'
  <2> SUFFICES ASSUME NEW p \in Nat, dequeue_pos <= p, p < enqueue_pos
               PROVE  \/ sequence'[Slot(p)] = p + 1
                      \/ \E u \in Threads : Writing(u)' /\ pos[u] = p
    BY <1>2 DEF Filled
  <2>1. CASE \E u \in Threads : Writing(u) /\ pos[u] = p
    BY <1>4, <2>1
  <2>2. CASE sequence[Slot(p)] = p + 1
    <3>1. Slot(p) # Slot(q)
      BY <1>1, <1>3, <2>2
    <3> QED BY <1>5, <2>2, <3>1
  <2> QED BY <2>1, <2>2 DEF RingInv, Filled
<1>8. Vacated'
  <2> SUFFICES ASSUME NEW p \in Nat, enqueue_pos <= p, p < dequeue_pos + Capacity
               PROVE  \/ sequence'[Slot(p)] = p
                      \/ \E u \in Threads : Reading(u)' /\ pos[u] + Capacity = p
    BY <1>2 DEF Vacated
  <2>1. CASE p = r
    BY <1>3, <1>5, <2>1
  <2>2. CASE p # r
    <3>1. CASE \E u \in Threads : Reading(u) /\ pos[u] + Capacity = p
      BY <1>1, <1>4, <2>2, <3>1 DEF q, r
    <3>2. CASE sequence[Slot(p)] = p
      <4>1. Slot(p) # Slot(q)
        BY <1>1, <1>3, <3>2, SlotFacts
      <4> QED BY <1>5, <3>2, <4>1
    <3> QED BY <3>1, <3>2 DEF RingInv, Vacated
  <2> QED BY <2>1, <2>2
<1> QED BY <1>6, <1>7, <1>8

----------------------------------------------------------------------------
(* The invariant *)

\* The value cell that a pop reads holds what was pushed at its position.
LEMMA ReadsPushed ==
  ASSUME IInv, NEW t \in Threads, pc[t] = "pop_read"
  PROVE  /\ value[Slot(pos[t])] = entered[pos[t] + 1]
         /\ pos[t] \in Nat /\ pos[t] < dequeue_pos /\ entered[pos[t] + 1] \in Values
<1>1. pos[t] \in Nat /\ Reading(t) /\ entered \in Seq(Values) /\ enqueue_pos \in Nat
      /\ dequeue_pos \in Nat
  BY DEF IInv, TypeOK, Reading
<1>2. pos[t] < dequeue_pos /\ sequence[Slot(pos[t])] = pos[t] + 1
  BY <1>1 DEF IInv, Owners
<1>3. \A u \in Threads : ~ (pc[u] = "pop_release" /\ pos[u] = pos[t])
  BY <1>1 DEF IInv, Apart, Reading
<1>4. entered[pos[t] + 1] \in Values
  BY <1>1, <1>2, ElementOfSeq DEF IInv, Counters
<1> QED BY <1>1, <1>2, <1>3, <1>4 DEF IInv, Cells

\* Push and pop answer with their last access, and only with it.
LEMMA AnswersKeep ==
  ASSUME TypeOK, Answers, [Next]_vars
  PROVE  Answers'
<1> USE DEF TypeOK, Answers, Goto, Return
<1>1. ASSUME NEW t \in Threads, NEW v \in Values, PushBegin(t, v)
      PROVE  Answers'
  BY <1>1 DEF PushBegin
<1>2. ASSUME NEW t \in Threads, PopBegin(t)
      PROVE  Answers'
  BY <1>2 DEF PopBegin
<1>3. ASSUME NEW t \in Threads, PushStep(t) \/ PopStep(t)
      PROVE  Answers'
  <2>1. CASE PushSlotFree(t)
    BY <2>1 DEF PushSlotFree
  <2>2. CASE PushFull(t)
    BY <2>2 DEF PushFull
  <2>3. CASE PushOvertaken(t)
    BY <2>3 DEF PushOvertaken
  <2>4. CASE PushReload(t)
    BY <2>4 DEF PushReload
  <2>5. CASE PushClaim(t)
    BY <2>5 DEF PushClaim
  <2>6. CASE PushClaimFails(t)
    BY <2>6 DEF PushClaimFails
  <2>7. CASE PushWrite(t)
    BY <2>7 DEF PushWrite
  <2>8. CASE PushPublish(t)
    BY <2>8 DEF PushPublish
  <2>9. CASE PopSlotReady(t)
    BY <2>9 DEF PopSlotReady
  <2>10. CASE PopNone(t)
    BY <2>10 DEF PopNone
  <2>11. CASE PopOvertaken(t)
    BY <2>11 DEF PopOvertaken
  <2>12. CASE PopReload(t)
    BY <2>12 DEF PopReload
  <2>13. CASE PopClaim(t)
    BY <2>13 DEF PopClaim
  <2>14. CASE PopClaimFails(t)
    BY <2>14 DEF PopClaimFails
  <2>15. CASE PopRead(t)
    BY <2>15 DEF PopRead
  <2>16. CASE PopRelease(t)
    BY <2>16, ValueAssumption DEF PopRelease
  <2> QED BY <1>3, <2>1, <2>2, <2>3, <2>4, <2>5, <2>6, <2>7, <2>8,
             <2>9, <2>10, <2>11, <2>12, <2>13, <2>14, <2>15, <2>16 DEF PushStep, PopStep
<1>4. CASE UNCHANGED vars
  BY <1>4 DEF vars
<1> QED BY <1>1, <1>2, <1>3, <1>4 DEF Next

\* A pop carries the value it read until it answers with it.
LEMMA CarriedKeeps ==
  ASSUME IInv, Carried, [Next]_vars
  PROVE  Carried'
<1>1. TypeOK
  BY DEF IInv
<1> USE DEF Carried, Goto
<1>2. ASSUME NEW t \in Threads, NEW v \in Values, PushBegin(t, v)
      PROVE  Carried'
  BY <1>1, <1>2 DEF PushBegin, TypeOK
<1>3. ASSUME NEW t \in Threads, PopBegin(t)
      PROVE  Carried'
  BY <1>1, <1>3 DEF PopBegin, TypeOK
<1>4. ASSUME NEW t \in Threads, PushStep(t) \/ PopStep(t)
      PROVE  Carried'
  <2>1. CASE PushSlotFree(t)
    BY <1>1, <2>1 DEF PushSlotFree, TypeOK
  <2>2. CASE PushFull(t)
    BY <1>1, <2>2 DEF PushFull, TypeOK
  <2>3. CASE PushOvertaken(t)
    BY <1>1, <2>3 DEF PushOvertaken, TypeOK
  <2>4. CASE PushReload(t)
    BY <1>1, <2>4 DEF PushReload, TypeOK
  <2>5. CASE PushClaim(t)
    <3>1. /\ pc' = [pc EXCEPT ![t] = "push_write"] /\ pos' = pos /\ arg' = arg
          /\ entered' = Append(entered, arg[t]) /\ arg[t] \in Values
      BY <1>1, <2>5 DEF PushClaim, TypeOK, Pushing
    <3> SUFFICES ASSUME NEW u \in Threads, pc[u] = "pop_release"
                 PROVE  entered'[pos[u] + 1] = entered[pos[u] + 1]
      BY <1>1, <3>1 DEF TypeOK
    <3>2. pos[u] \in Nat /\ pos[u] < dequeue_pos /\ dequeue_pos <= Len(entered)
      BY <1>1 DEF IInv, Owners, Counters, Reading, TypeOK
    <3>3. entered \in Seq(Values) /\ dequeue_pos \in Nat
      BY <1>1 DEF TypeOK
    <3>4. pos[u] + 1 \in 1 .. Len(entered)
      BY <3>2, <3>3
    <3> QED BY <3>1, <3>3, <3>4, AppendProperties
  <2>6. CASE PushClaimFails(t)
    BY <1>1, <2>6 DEF PushClaimFails, TypeOK
  <2>7. CASE PushWrite(t)
    BY <1>1, <2>7 DEF PushWrite, TypeOK
  <2>8. CASE PushPublish(t)
    BY <1>1, <2>8 DEF PushPublish, TypeOK
  <2>9. CASE PopSlotReady(t)
    BY <1>1, <2>9 DEF PopSlotReady, TypeOK
  <2>10. CASE PopNone(t)
    BY <1>1, <2>10 DEF PopNone, TypeOK
  <2>11. CASE PopOvertaken(t)
    BY <1>1, <2>11 DEF PopOvertaken, TypeOK
  <2>12. CASE PopReload(t)
    BY <1>1, <2>12 DEF PopReload, TypeOK
  <2>13. CASE PopClaim(t)
    BY <1>1, <2>13 DEF PopClaim, TypeOK
  <2>14. CASE PopClaimFails(t)
    BY <1>1, <2>14 DEF PopClaimFails, TypeOK
  <2>15. CASE PopRead(t)
    <3>1. value[Slot(pos[t])] = entered[pos[t] + 1]
      BY <2>15, ReadsPushed DEF PopRead
    <3> QED BY <1>1, <2>15, <3>1 DEF PopRead, TypeOK
  <2>16. CASE PopRelease(t)
    BY <1>1, <2>16 DEF PopRelease, TypeOK
  <2> QED BY <1>4, <2>1, <2>2, <2>3, <2>4, <2>5, <2>6, <2>7, <2>8,
             <2>9, <2>10, <2>11, <2>12, <2>13, <2>14, <2>15, <2>16 DEF PushStep, PopStep
<1>5. CASE UNCHANGED vars
  BY <1>5 DEF vars
<1> QED BY <1>2, <1>3, <1>4, <1>5 DEF Next

\* Every access keeps what the sequence numbers exclude.
LEMMA StepRing == RingInv /\ [Next]_vars => RingInv'
<1> SUFFICES ASSUME RingInv, [Next]_vars PROVE RingInv'
  OBVIOUS
<1>1. IInv' /\ Answers' /\ Carried'
  BY StepIInv, AnswersKeep, CarriedKeeps DEF RingInv, IInv
<1>2. TypeOK
  BY DEF RingInv, IInv
<1> USE DEF Goto, Writing, Reading
<1>3. ASSUME NEW t \in Threads, NEW v \in Values, PushBegin(t, v)
      PROVE  Passed' /\ Filled' /\ Vacated'
  BY <1>1, <1>2, <1>3, QuietRing DEF PushBegin, TypeOK
<1>4. ASSUME NEW t \in Threads, PopBegin(t)
      PROVE  Passed' /\ Filled' /\ Vacated'
  BY <1>1, <1>2, <1>4, QuietRing DEF PopBegin, TypeOK
<1>5. ASSUME NEW t \in Threads, PushStep(t) \/ PopStep(t)
      PROVE  Passed' /\ Filled' /\ Vacated'
  <2>1. CASE PushSlotFree(t)
    BY <1>1, <1>2, <2>1, QuietRing DEF PushSlotFree, TypeOK
  <2>2. CASE PushFull(t)
    BY <1>1, <1>2, <2>2, QuietRing DEF PushFull, TypeOK
  <2>3. CASE PushOvertaken(t)
    BY <1>1, <1>2, <2>3, QuietRing DEF PushOvertaken, TypeOK
  <2>4. CASE PushReload(t)
    BY <1>1, <1>2, <2>4, QuietRing DEF PushReload, TypeOK
  <2>5. CASE PushClaim(t)
    BY <2>5, PushClaimRing
  <2>6. CASE PushClaimFails(t)
    BY <1>1, <1>2, <2>6, QuietRing DEF PushClaimFails, TypeOK
  <2>7. CASE PushWrite(t)
    BY <1>1, <1>2, <2>7, QuietRing DEF PushWrite, TypeOK
  <2>8. CASE PushPublish(t)
    BY <2>8, PushPublishRing
  <2>9. CASE PopSlotReady(t)
    BY <1>1, <1>2, <2>9, QuietRing DEF PopSlotReady, TypeOK
  <2>10. CASE PopNone(t)
    BY <1>1, <1>2, <2>10, QuietRing DEF PopNone, TypeOK
  <2>11. CASE PopOvertaken(t)
    BY <1>1, <1>2, <2>11, QuietRing DEF PopOvertaken, TypeOK
  <2>12. CASE PopReload(t)
    BY <1>1, <1>2, <2>12, QuietRing DEF PopReload, TypeOK
  <2>13. CASE PopClaim(t)
    BY <2>13, PopClaimRing
  <2>14. CASE PopClaimFails(t)
    BY <1>1, <1>2, <2>14, QuietRing DEF PopClaimFails, TypeOK
  <2>15. CASE PopRead(t)
    BY <1>1, <1>2, <2>15, QuietRing DEF PopRead, TypeOK
  <2>16. CASE PopRelease(t)
    BY <2>16, PopReleaseRing
  <2> QED BY <1>5, <2>1, <2>2, <2>3, <2>4, <2>5, <2>6, <2>7, <2>8,
             <2>9, <2>10, <2>11, <2>12, <2>13, <2>14, <2>15, <2>16 DEF PushStep, PopStep
<1>6. CASE UNCHANGED vars
  BY <1>1, <1>6, QuietRing DEF vars, RingInv
<1> QED BY <1>1, <1>3, <1>4, <1>5, <1>6 DEF Next, RingInv

----------------------------------------------------------------------------
(* The line *)

\* The positions pushes have claimed and not yet made ready.
Written == {pos[t] : t \in {u \in Threads : Writing(u)}}

Places == [val : Values, done : BOOLEAN]

Done(p, written) == IF p \in written THEN FALSE ELSE TRUE

LineOf(d, e, values, written) ==
  [k \in 1 .. e - d |-> [val |-> values[d + k], done |-> Done(d + k - 1, written)]]

\* The line is a function of the counters, the history and the pushes half way.
LEMMA LineIs ==
  ASSUME TypeOK, TypeOK'
  PROVE  /\ Line = LineOf(dequeue_pos, enqueue_pos, entered, Written)
         /\ Line' = LineOf(dequeue_pos', enqueue_pos', entered', Written')
<1>1. ASSUME NEW k \in 1 .. enqueue_pos - dequeue_pos
      PROVE  /\ entered[dequeue_pos + k - 1 + 1] = entered[dequeue_pos + k]
             /\ (~ \E t \in Threads : Writing(t) /\ pos[t] = dequeue_pos + k - 1)
                  = Done(dequeue_pos + k - 1, Written)
  <2>1. dequeue_pos + k - 1 + 1 = dequeue_pos + k
    BY DEF TypeOK
  <2>2. dequeue_pos + k - 1 \in Written
          <=> \E t \in Threads : Writing(t) /\ pos[t] = dequeue_pos + k - 1
    BY DEF Written
  <2> QED BY <2>1, <2>2 DEF Done
<1>2. ASSUME NEW k \in 1 .. enqueue_pos' - dequeue_pos'
      PROVE  /\ entered'[dequeue_pos' + k - 1 + 1] = entered'[dequeue_pos' + k]
             /\ (~ \E t \in Threads : Writing(t)' /\ pos'[t] = dequeue_pos' + k - 1)
                  = Done(dequeue_pos' + k - 1, Written')
  <2>1. dequeue_pos' + k - 1 + 1 = dequeue_pos' + k
    BY DEF TypeOK
  <2>2. dequeue_pos' + k - 1 \in Written'
          <=> \E t \in Threads : Writing(t)' /\ pos'[t] = dequeue_pos' + k - 1
    BY DEF Written
  <2> QED BY <2>1, <2>2 DEF Done
<1>3. Line = LineOf(dequeue_pos, enqueue_pos, entered, Written)
  BY <1>1 DEF Line, LineOf
<1>4. Line' = LineOf(dequeue_pos', enqueue_pos', entered', Written')
  BY <1>2 DEF Line, LineOf
<1> QED BY <1>3, <1>4

\* What is known of a line without its definition.
Shaped(l, d, e, values, written) ==
  /\ l \in Seq(Places) /\ Len(l) = e - d /\ DOMAIN l = 1 .. e - d
  /\ \A k \in 1 .. e - d :
       l[k] = [val |-> values[d + k], done |-> Done(d + k - 1, written)]

\* A line is a sequence of places.
LEMMA LineSeq ==
  ASSUME NEW d \in Nat, NEW e \in Nat, NEW values \in Seq(Values), NEW written,
         d <= e, e <= Len(values)
  PROVE  Shaped(LineOf(d, e, values, written), d, e, values, written)
<1> DEFINE l == LineOf(d, e, values, written)
<1>1. e - d \in Nat
  OBVIOUS
<1>2. \A k \in 1 .. e - d : values[d + k] \in Values
  <2> TAKE k \in 1 .. e - d
  <2>1. d + k \in 1 .. Len(values)
    OBVIOUS
  <2> QED BY <2>1, ElementOfSeq
<1>3. \A k \in 1 .. e - d : [val |-> values[d + k], done |-> Done(d + k - 1, written)]
                              \in Places
  BY <1>2 DEF Places, Done
<1>4. l \in [1 .. e - d -> Places]
  BY <1>3 DEF LineOf
<1>5. /\ DOMAIN l = 1 .. e - d
      /\ \A k \in 1 .. e - d :
           l[k] = [val |-> values[d + k], done |-> Done(d + k - 1, written)]
  BY DEF LineOf
<1> HIDE DEF l
<1>6. l \in Seq(Places) /\ Len(l) = e - d
  BY <1>1, <1>4
<1>7. Shaped(l, d, e, values, written)
  BY <1>5, <1>6 DEF Shaped
<1> QED BY <1>7 DEF l

\* A line with one place more, not done, at its end.
Grows(d, values, v, written) ==
  LineOf(d, Len(values) + 1, Append(values, v), written \cup {Len(values)})
    = Append(LineOf(d, Len(values), values, written), Fifo!Place(v, FALSE))

\* A claim of a push appends a place that is not done.
LEMMA LineGrows ==
  ASSUME NEW d \in Nat, NEW values \in Seq(Values), NEW v \in Values, NEW written,
         d <= Len(values)
  PROVE  Grows(d, values, v, written)
<1> DEFINE e == Len(values)
           values2 == Append(values, v)
           written2 == written \cup {e}
           l == LineOf(d, e, values, written)
           l2 == LineOf(d, e + 1, values2, written2)
           place == Fifo!Place(v, FALSE)
<1>0. e \in Nat /\ d <= e /\ e <= Len(values)
  BY LenProperties
<1>1. /\ values2 \in Seq(Values) /\ Len(values2) = e + 1 /\ values2[e + 1] = v
      /\ \A i \in 1 .. e : values2[i] = values[i]
  BY AppendProperties
<1> HIDE DEF e
<1>2. place \in Places /\ place = [val |-> v, done |-> FALSE]
  BY DEF Fifo!Place, Places
<1>3. /\ l \in Seq(Places) /\ Len(l) = e - d
      /\ \A k \in 1 .. e - d :
           l[k] = [val |-> values[d + k], done |-> Done(d + k - 1, written)]
  <2>1. Shaped(LineOf(d, e, values, written), d, e, values, written)
    BY <1>0, LineSeq
  <2> QED BY <2>1 DEF Shaped
<1> HIDE DEF values2
<1>4. /\ l2 \in Seq(Places) /\ Len(l2) = (e + 1) - d
      /\ \A k \in 1 .. (e + 1) - d :
           l2[k] = [val |-> values2[d + k], done |-> Done(d + k - 1, written2)]
  <2> DEFINE n == e + 1
  <2>1. n \in Nat /\ d <= n /\ n <= Len(values2) /\ values2 \in Seq(Values)
    BY <1>0, <1>1
  <2> HIDE DEF n, written2, l, l2, place
  <2>2. Shaped(LineOf(d, n, values2, written2), d, n, values2, written2)
    BY <2>1, LineSeq
  <2>3. Shaped(l2, d, e + 1, values2, written2)
    BY <2>2, Zenon DEF l2, n
  <2> QED BY <2>3 DEF Shaped
<1> HIDE DEF l, l2, place
<1>5. /\ Append(l, place) \in Seq(Places) /\ Len(Append(l, place)) = e - d + 1
      /\ \A k \in 1 .. e - d : Append(l, place)[k] = l[k]
      /\ Append(l, place)[e - d + 1] = place
  <2>1. place \in Places /\ l \in Seq(Places) /\ Len(l) = e - d
    BY <1>2, <1>3
  <2> QED BY <1>0, <2>1, AppendProperties
<1>6. ASSUME NEW k \in 1 .. e - d
      PROVE  l2[k] = Append(l, place)[k]
  <2>1. /\ d + k \in 1 .. e /\ d + k - 1 \in Nat /\ d + k - 1 < e
        /\ k \in 1 .. (e + 1) - d
    BY <1>0
  <2>2. values2[d + k] = values[d + k]
    BY <1>0, <1>1, <2>1
  <2>3. Done(d + k - 1, written2) = Done(d + k - 1, written)
    BY <1>0, <2>1 DEF Done
  <2> QED BY <1>0, <1>3, <1>4, <1>5, <2>1, <2>2, <2>3
<1>7. l2[e - d + 1] = place
  <2> DEFINE n == e - d + 1
  <2>1. d + n = e + 1 /\ d + n - 1 = e /\ n \in 1 .. (e + 1) - d
    BY <1>0
  <2> HIDE DEF n
  <2>2. l2[n] = [val |-> values2[d + n], done |-> Done(d + n - 1, written2)]
    BY <1>4, <2>1
  <2>3. values2[d + n] = v /\ Done(d + n - 1, written2) = FALSE
    BY <1>0, <1>1, <2>1 DEF Done
  <2>4. l2[n] = place
    BY <1>2, <2>2, <2>3
  <2> QED BY <2>4 DEF n
<1>8. \A k \in 1 .. Len(l2) : l2[k] = Append(l, place)[k]
  <2> TAKE k \in 1 .. Len(l2)
  <2>1. k \in 1 .. e - d \/ k = e - d + 1
    BY <1>0, <1>4
  <2> QED BY <1>0, <1>5, <1>6, <1>7, <2>1
<1>9. Len(l2) = Len(Append(l, place))
  BY <1>0, <1>4, <1>5
<1>10. l2 = Append(l, place)
  BY <1>4, <1>5, <1>8, <1>9, SeqEqual
<1> QED BY <1>10 DEF e, l, l2, place, values2, Grows

\* A claim of a pop takes the place at the head away.
LEMMA LineShrinks ==
  ASSUME NEW d \in Nat, NEW e \in Nat, NEW values \in Seq(Values), NEW written,
         d < e, e <= Len(values)
  PROVE  LET l == LineOf(d, e, values, written)
         IN  /\ LineOf(d + 1, e, values, written) = Tail(l)
             /\ l # <<>> /\ Head(l) = [val |-> values[d + 1], done |-> Done(d, written)]
<1> DEFINE l == LineOf(d, e, values, written)
           l2 == LineOf(d + 1, e, values, written)
<1>1. /\ l \in Seq(Places) /\ Len(l) = e - d
      /\ \A k \in 1 .. e - d :
           l[k] = [val |-> values[d + k], done |-> Done(d + k - 1, written)]
  <2>1. d <= e
    OBVIOUS
  <2>2. Shaped(LineOf(d, e, values, written), d, e, values, written)
    BY <2>1, LineSeq
  <2> QED BY <2>2 DEF Shaped
<1>2. /\ l2 \in Seq(Places) /\ Len(l2) = e - (d + 1)
      /\ \A k \in 1 .. e - (d + 1) :
           l2[k] = [val |-> values[d + 1 + k], done |-> Done(d + 1 + k - 1, written)]
  <2>1. d + 1 \in Nat /\ d + 1 <= e
    OBVIOUS
  <2>2. Shaped(LineOf(d + 1, e, values, written), d + 1, e, values, written)
    BY <2>1, LineSeq
  <2> QED BY <2>2 DEF Shaped
<1> HIDE DEF l, l2
<1>3. l # <<>>
  BY <1>1
<1>4. Head(l) = [val |-> values[d + 1], done |-> Done(d, written)]
  <2>1. 1 \in 1 .. e - d /\ d + 1 - 1 = d
    OBVIOUS
  <2>2. Head(l) = l[1]
    BY <1>1, <1>3
  <2> QED BY <1>1, <2>1, <2>2
<1>5. /\ Tail(l) \in Seq(Places) /\ Len(Tail(l)) = e - d - 1
      /\ \A k \in 1 .. e - d - 1 : Tail(l)[k] = l[k + 1]
  <2>1. /\ Tail(l) \in Seq(Places) /\ Len(Tail(l)) = Len(l) - 1
        /\ \A k \in 1 .. Len(Tail(l)) : Tail(l)[k] = l[k + 1]
    BY <1>1, <1>3, HeadTailProperties
  <2> QED BY <1>1, <2>1
<1>6. Len(l2) = Len(Tail(l))
  <2>1. e - (d + 1) = e - d - 1
    OBVIOUS
  <2>2. Len(l2) = e - (d + 1) /\ Len(Tail(l)) = e - d - 1
    BY <1>2, <1>5
  <2> QED BY <2>1, <2>2, Zenon
<1>7. \A k \in 1 .. Len(l2) : l2[k] = Tail(l)[k]
  <2> TAKE k \in 1 .. Len(l2)
  <2>1. /\ k \in 1 .. e - (d + 1) /\ k \in 1 .. e - d - 1 /\ k + 1 \in 1 .. e - d
        /\ d + 1 + k = d + (k + 1) /\ d + 1 + k - 1 = d + (k + 1) - 1
    BY <1>2
  <2> QED BY <1>1, <1>2, <1>5, <2>1
<1>8. l2 = Tail(l)
  BY <1>2, <1>5, <1>6, <1>7, SeqEqual
<1> QED BY <1>3, <1>4, <1>8 DEF l, l2

\* A place that is completed.
LEMMA PlaceCompletes ==
  ASSUME NEW x, NEW place, place = [val |-> x, done |-> FALSE]
  PROVE  /\ ~ place.done
         /\ [place EXCEPT !.done = TRUE] = [val |-> x, done |-> TRUE]
<1>1. place.done = FALSE
  BY Zenon
<1>2. \A b, c : [[val |-> x, done |-> b] EXCEPT !.done = c] = [val |-> x, done |-> c]
  BY SMT
<1>3. [place EXCEPT !.done = TRUE] = [val |-> x, done |-> TRUE]
  BY <1>2, Zenon
<1> QED BY <1>1, <1>3

\* The store of a push completes its place.
LEMMA LineCompletes ==
  ASSUME NEW d \in Nat, NEW e \in Nat, NEW values \in Seq(Values), NEW written,
         NEW q \in Nat, d <= q, q < e, e <= Len(values), q \in written
  PROVE  LET l == LineOf(d, e, values, written)
         IN  \E k \in DOMAIN l :
               ~ l[k].done /\ LineOf(d, e, values, written \ {q}) = [l EXCEPT ![k].done = TRUE]
<1> DEFINE l == LineOf(d, e, values, written)
           written2 == written \ {q}
           l2 == LineOf(d, e, values, written2)
           k == q - d + 1
<1>1. /\ DOMAIN l = 1 .. e - d
      /\ \A i \in 1 .. e - d : l[i] = [val |-> values[d + i], done |-> Done(d + i - 1, written)]
  <2>1. d <= e
    OBVIOUS
  <2>2. Shaped(LineOf(d, e, values, written), d, e, values, written)
    BY <2>1, LineSeq
  <2> QED BY <2>2 DEF Shaped
<1>2. /\ l2 = [i \in 1 .. e - d |-> [val |-> values[d + i], done |-> Done(d + i - 1, written2)]]
  BY DEF LineOf
<1>3. k \in 1 .. e - d /\ d + k - 1 = q
  OBVIOUS
<1> HIDE DEF l, l2
<1>4. ~ l[k].done /\ l[k] = [val |-> values[d + k], done |-> FALSE]
  <2> HIDE DEF k
  <2>1. l[k] = [val |-> values[d + k], done |-> Done(d + k - 1, written)]
    BY <1>1, <1>3
  <2>2. Done(d + k - 1, written) = FALSE
    BY <1>3 DEF Done
  <2>3. l[k] = [val |-> values[d + k], done |-> FALSE]
    BY <2>1, <2>2, Zenon
  <2> QED BY <2>3, PlaceCompletes
<1>5. \A i \in 1 .. e - d : i # k => Done(d + i - 1, written2) = Done(d + i - 1, written)
  <2> TAKE i \in 1 .. e - d
  <2> HAVE i # k
  <2>1. d + i - 1 \in Nat /\ d + i - 1 # q
    OBVIOUS
  <2> QED BY <2>1 DEF Done
<1>6. Done(d + k - 1, written2) = TRUE
  BY <1>3 DEF Done
<1> HIDE DEF k
<1>7. [l EXCEPT ![k].done = TRUE]
        = [i \in 1 .. e - d |-> IF i = k THEN [l[k] EXCEPT !.done = TRUE] ELSE l[i]]
  BY <1>1, <1>3
<1>8. \A i \in 1 .. e - d :
        [val |-> values[d + i], done |-> Done(d + i - 1, written2)]
          = IF i = k THEN [l[k] EXCEPT !.done = TRUE] ELSE l[i]
  <2> TAKE i \in 1 .. e - d
  <2>1. CASE i = k
    <3>1. [l[k] EXCEPT !.done = TRUE] = [val |-> values[d + k], done |-> TRUE]
      BY <1>4, PlaceCompletes
    <3> QED BY <1>6, <2>1, <3>1, Zenon
  <2>2. CASE i # k
    BY <1>1, <1>5, <2>2
  <2> QED BY <2>1, <2>2
<1>9. l2 = [l EXCEPT ![k].done = TRUE]
  BY <1>2, <1>7, <1>8
<1> QED BY <1>1, <1>3, <1>4, <1>9 DEF l, l2

----------------------------------------------------------------------------
(* Steps *)

\* An access that claims no position and gives none up leaves the line and what
\* the pops hold as they are.
LEMMA Unmoved ==
  ASSUME TypeOK, TypeOK', UNCHANGED <<enqueue_pos, dequeue_pos, entered>>,
         \A u \in Threads :
           /\ Writing(u)' <=> Writing(u)
           /\ pc'[u] = "pop_read" <=> pc[u] = "pop_read"
           /\ pc'[u] = "pop_release" <=> pc[u] = "pop_release"
           /\ Writing(u) \/ Reading(u) => pos'[u] = pos[u] /\ arg'[u] = arg[u]
  PROVE  Line' = Line /\ Held' = Held
<1>1. Written' = Written
  BY DEF Written
<1>2. Line' = Line
  BY <1>1, LineIs
<1>3. \A u \in Threads :
        (IF pc'[u] = "pop_read" THEN entered'[pos'[u] + 1]
         ELSE IF pc'[u] = "pop_release" THEN arg'[u] ELSE NoValue)
          = IF pc[u] = "pop_read" THEN entered[pos[u] + 1]
            ELSE IF pc[u] = "pop_release" THEN arg[u] ELSE NoValue
  BY DEF Reading
<1>4. Held' = Held
  BY <1>3 DEF Held
<1> QED BY <1>2, <1>4

\* A call begins.
LEMMA BeginCalls ==
  ASSUME RingInv, RingInv', NEW t \in Threads,
         PopBegin(t) \/ \E v \in Values : PushBegin(t, v)
  PROVE  Fifo!Call(t)
<1>1. TypeOK /\ TypeOK' /\ Answers
  BY DEF RingInv, IInv
<1>2. /\ pc[t] = "idle" /\ (pc' = [pc EXCEPT ![t] = "pop_seq"] \/ pc' = [pc EXCEPT ![t] = "push_seq"])
      /\ \A u \in Threads \ {t} : pos'[u] = pos[u] /\ arg'[u] = arg[u]
      /\ UNCHANGED <<enqueue_pos, dequeue_pos, entered>>
      /\ result' = [result EXCEPT ![t] = "busy"]
  BY <1>1 DEF PopBegin, PushBegin, Goto, Return, TypeOK
<1>3. Line' = Line /\ Held' = Held
  BY <1>1, <1>2, Unmoved DEF TypeOK, Writing, Reading
<1>4. result[t] # "busy"
  BY <1>1, <1>2 DEF Answers
<1> QED BY <1>2, <1>3, <1>4 DEF Fifo!Call

\* The accesses that only find their way through the ring, and the write of the
\* value cell, are no step of the queue.
LEMMA RingStutters ==
  ASSUME RingInv, RingInv', NEW t \in Threads,
         \/ PushSlotFree(t) \/ PushOvertaken(t) \/ PushReload(t) \/ PushClaimFails(t)
         \/ PushWrite(t) \/ PopSlotReady(t) \/ PopOvertaken(t) \/ PopReload(t)
         \/ PopClaimFails(t)
  PROVE  UNCHANGED Fifo!vars
<1>1. TypeOK /\ TypeOK'
  BY DEF RingInv, IInv
<1> USE DEF Goto, TypeOK, Writing, Reading
<1>2. CASE PushSlotFree(t)
  BY <1>1, <1>2, Unmoved DEF PushSlotFree, Fifo!vars
<1>3. CASE PushOvertaken(t)
  BY <1>1, <1>3, Unmoved DEF PushOvertaken, Fifo!vars
<1>4. CASE PushReload(t)
  BY <1>1, <1>4, Unmoved DEF PushReload, Fifo!vars
<1>5. CASE PushClaimFails(t)
  BY <1>1, <1>5, Unmoved DEF PushClaimFails, Fifo!vars
<1>6. CASE PushWrite(t)
  BY <1>1, <1>6, Unmoved DEF PushWrite, Fifo!vars
<1>7. CASE PopSlotReady(t)
  BY <1>1, <1>7, Unmoved DEF PopSlotReady, Fifo!vars
<1>8. CASE PopOvertaken(t)
  BY <1>1, <1>8, Unmoved DEF PopOvertaken, Fifo!vars
<1>9. CASE PopReload(t)
  BY <1>1, <1>9, Unmoved DEF PopReload, Fifo!vars
<1>10. CASE PopClaimFails(t)
  BY <1>1, <1>10, Unmoved DEF PopClaimFails, Fifo!vars
<1> QED BY <1>2, <1>3, <1>4, <1>5, <1>6, <1>7, <1>8, <1>9, <1>10

\* The read of the value cell: the pop holds what it took.
LEMMA ReadStutters ==
  ASSUME RingInv, RingInv', NEW t \in Threads, PopRead(t)
  PROVE  UNCHANGED Fifo!vars
<1>1. TypeOK /\ TypeOK'
  BY DEF RingInv, IInv
<1>2. /\ pc[t] = "pop_read" /\ pc' = [pc EXCEPT ![t] = "pop_release"]
      /\ arg' = [arg EXCEPT ![t] = value[Slot(pos[t])]] /\ pos' = pos
      /\ UNCHANGED <<enqueue_pos, dequeue_pos, entered, result>>
  BY DEF PopRead, Goto
<1>3. arg'[t] = entered[pos[t] + 1] /\ pc'[t] = "pop_release"
  BY <1>1, <1>2, ReadsPushed DEF RingInv, TypeOK
<1>4. Written' = Written
  BY <1>1, <1>2 DEF Written, Writing, TypeOK
<1>5. Line' = Line
  BY <1>1, <1>2, <1>4, LineIs
<1>6. \A u \in Threads :
        (IF pc'[u] = "pop_read" THEN entered'[pos'[u] + 1]
         ELSE IF pc'[u] = "pop_release" THEN arg'[u] ELSE NoValue)
          = IF pc[u] = "pop_read" THEN entered[pos[u] + 1]
            ELSE IF pc[u] = "pop_release" THEN arg[u] ELSE NoValue
  BY <1>1, <1>2, <1>3 DEF TypeOK
<1>7. Held' = Held
  BY <1>6 DEF Held
<1> QED BY <1>2, <1>5, <1>7 DEF Fifo!vars

\* What a pop holds is a value.
LEMMA HoldsValue ==
  ASSUME RingInv, NEW t \in Threads, Reading(t)
  PROVE  Held[t] \in Values /\ Held[t] = entered[pos[t] + 1]
<1>1. TypeOK /\ Owners /\ Counters /\ Carried
  BY DEF RingInv, IInv
<1>2. /\ pos[t] \in Nat /\ pos[t] < dequeue_pos /\ entered \in Seq(Values)
      /\ Len(entered) = enqueue_pos /\ dequeue_pos <= enqueue_pos
      /\ enqueue_pos \in Nat /\ dequeue_pos \in Nat
  BY <1>1 DEF TypeOK, Owners, Counters
<1>3. pos[t] + 1 \in 1 .. Len(entered)
  BY <1>2
<1>4. entered[pos[t] + 1] \in Values
  BY <1>2, <1>3, ElementOfSeq
<1> QED BY <1>1, <1>4 DEF Held, Reading, Carried

\* A push is refused at capacity, or while a pop is half way (queue.rs:134-136).
LEMMA FullRefuses ==
  ASSUME RingInv, RingInv', NEW t \in Threads, PushFull(t)
  PROVE  Fifo!Refuse(t)
<1>1. TypeOK /\ TypeOK' /\ Answers /\ LocalCopies /\ Counters
  BY DEF RingInv, IInv
<1>2. /\ pc[t] = "push_seq" /\ pc' = [pc EXCEPT ![t] = "idle"]
      /\ UNCHANGED <<enqueue_pos, dequeue_pos, entered, pos, arg>>
      /\ result' = [result EXCEPT ![t] = "full"]
      /\ sequence[Slot(pos[t])] < pos[t]
  BY DEF PushFull, Goto, Return
<1>3. Line' = Line /\ Held' = Held
  BY <1>1, <1>2, Unmoved DEF TypeOK, Writing, Reading
<1>4. result[t] = "busy"
  BY <1>1, <1>2 DEF Answers
<1> DEFINE p == pos[t]
<1>5. /\ p \in Nat /\ p <= enqueue_pos /\ enqueue_pos \in Nat /\ dequeue_pos \in Nat
      /\ sequence[Slot(p)] \in Nat /\ sequence[Slot(p)] < p
      /\ dequeue_pos <= enqueue_pos /\ enqueue_pos <= dequeue_pos + Capacity
  BY <1>1, <1>2, SlotFacts DEF TypeOK, LocalCopies, Counters
<1> HIDE DEF p
<1>6. ~ p < dequeue_pos
  BY <1>5 DEF RingInv, Passed
<1>7. ~ p < enqueue_pos
  <2> SUFFICES ASSUME p < enqueue_pos PROVE FALSE
    OBVIOUS
  <2>1. sequence[Slot(p)] = p + 1 \/ \E u \in Threads : Writing(u) /\ pos[u] = p
    BY <1>5, <1>6 DEF RingInv, Filled
  <2>2. sequence[Slot(p)] = p + 1 \/ sequence[Slot(p)] = p
    BY <2>1 DEF RingInv, IInv, Owners
  <2> QED BY <1>5, <2>2
<1>8. CASE p < dequeue_pos + Capacity
  <2>1. \E u \in Threads : Reading(u) /\ pos[u] + Capacity = p
    BY <1>5, <1>7, <1>8 DEF RingInv, Vacated
  <2>2. PICK u \in Threads : Reading(u)
    BY <2>1
  <2>3. Held[u] # NoValue
    BY <2>2, HoldsValue, ValueAssumption
  <2> QED BY <1>2, <1>3, <1>4, <2>3 DEF Fifo!Refuse, Fifo!Answer
<1>9. CASE ~ p < dequeue_pos + Capacity
  <2>1. enqueue_pos - dequeue_pos = Capacity
    BY <1>5, <1>7, <1>9, CapacityAssumption
  <2>2. Len(Line) = Capacity
    <3>1. Line = LineOf(dequeue_pos, enqueue_pos, entered, Written)
      BY <1>1, LineIs
    <3>2. entered \in Seq(Values) /\ Len(entered) = enqueue_pos
      BY <1>1 DEF TypeOK, Counters
    <3>3. enqueue_pos <= Len(entered)
      BY <1>5, <3>2
    <3>4. Shaped(Line, dequeue_pos, enqueue_pos, entered, Written)
      BY <1>5, <3>1, <3>2, <3>3, LineSeq
    <3> QED BY <2>1, <3>4 DEF Shaped
  <2> QED BY <1>2, <1>3, <1>4, <2>2 DEF Fifo!Refuse, Fifo!Answer
<1> QED BY <1>8, <1>9

\* The compare-and-exchange of a push takes the next place of the line.
LEMMA PushClaims ==
  ASSUME RingInv, RingInv', NEW t \in Threads, PushClaim(t)
  PROVE  Fifo!Claim(t)
<1> DEFINE e == enqueue_pos
           d == dequeue_pos
<1>1. TypeOK /\ TypeOK' /\ Answers /\ LocalCopies /\ Counters /\ Owners /\ Rounds
  BY DEF RingInv, IInv
<1>2. /\ pos[t] = e /\ pc[t] = "push_cas" /\ pc' = [pc EXCEPT ![t] = "push_write"]
      /\ enqueue_pos' = e + 1 /\ entered' = Append(entered, arg[t])
      /\ UNCHANGED <<dequeue_pos, pos, arg, result>>
  BY DEF PushClaim, Goto
<1>3. /\ e \in Nat /\ d \in Nat /\ d <= e /\ entered \in Seq(Values) /\ e = Len(entered)
      /\ arg[t] \in Values /\ \A u \in Threads : pos[u] \in Nat
  BY <1>1, <1>2 DEF TypeOK, Counters, Pushing
<1>4. e < d + Capacity
  BY <1>1, <1>2, <1>3 DEF LocalCopies, Rounds
<1>5. result[t] = "busy"
  BY <1>1, <1>2 DEF Answers
<1>6. Line = LineOf(d, e, entered, Written)
  BY <1>1, LineIs
<1>7. Line' = LineOf(d, e + 1, Append(entered, arg[t]), Written')
  BY <1>1, <1>2, LineIs
<1>8. Written' = Written \cup {e}
  <2>1. \A u \in Threads : Writing(u)' <=> Writing(u) \/ u = t
    BY <1>1, <1>2 DEF Writing, TypeOK
  <2> QED BY <1>2, <1>3, <2>1 DEF Written
<1> HIDE DEF e, d
<1>9. Line' = Append(Line, Fifo!Place(arg[t], FALSE))
  <2>1. LineOf(d, e + 1, Append(entered, arg[t]), Written \cup {e})
          = Append(LineOf(d, e, entered, Written), Fifo!Place(arg[t], FALSE))
    <3>1. Grows(d, entered, arg[t], Written)
      <4>1. /\ d \in Nat /\ d <= Len(entered) /\ entered \in Seq(Values)
            /\ arg[t] \in Values
        BY <1>3
      <4> QED BY <4>1, LineGrows
    <3> QED BY <1>3, <3>1, Zenon DEF Grows
  <2> QED BY <1>6, <1>7, <1>8, <2>1, Zenon
<1>10. Len(Line) < Capacity
  <2>1. e <= Len(entered)
    BY <1>3
  <2>2. Shaped(Line, d, e, entered, Written)
    BY <1>3, <1>6, <2>1, LineSeq
  <2>3. Len(Line) = e - d
    BY <2>2 DEF Shaped
  <2> QED BY <1>3, <1>4, <2>3, CapacityAssumption
<1>11. Held' = Held
  <2>1. \A u \in Threads : pc[u] = "pop_read" =>
          entered'[pos[u] + 1] = entered[pos[u] + 1]
    <3> SUFFICES ASSUME NEW u \in Threads, pc[u] = "pop_read"
                 PROVE  entered'[pos[u] + 1] = entered[pos[u] + 1]
      OBVIOUS
    <3>1. pos[u] + 1 \in 1 .. Len(entered)
      BY <1>1, <1>3 DEF Owners, Reading, d, e
    <3> QED BY <1>2, <1>3, <3>1, AppendProperties
  <2>2. \A u \in Threads :
          (IF pc'[u] = "pop_read" THEN entered'[pos'[u] + 1]
           ELSE IF pc'[u] = "pop_release" THEN arg'[u] ELSE NoValue)
            = IF pc[u] = "pop_read" THEN entered[pos[u] + 1]
              ELSE IF pc[u] = "pop_release" THEN arg[u] ELSE NoValue
    BY <1>1, <1>2, <2>1 DEF TypeOK
  <2> QED BY <2>2 DEF Held
<1> QED BY <1>2, <1>3, <1>5, <1>9, <1>10, <1>11 DEF Fifo!Claim

\* The store of a push's sequence number completes its place.
LEMMA PublishCompletes ==
  ASSUME RingInv, RingInv', NEW t \in Threads, PushPublish(t)
  PROVE  Fifo!Complete(t)
<1> DEFINE e == enqueue_pos
           d == dequeue_pos
           q == pos[t]
<1>1. TypeOK /\ TypeOK' /\ Answers /\ Counters /\ Owners /\ Apart
  BY DEF RingInv, IInv
<1>2. /\ pc[t] = "push_publish" /\ pc' = [pc EXCEPT ![t] = "idle"]
      /\ result' = [result EXCEPT ![t] = "ok"]
      /\ UNCHANGED <<enqueue_pos, dequeue_pos, entered, pos, arg>>
  BY DEF PushPublish, Goto, Return
<1>3. /\ e \in Nat /\ d \in Nat /\ d <= e /\ entered \in Seq(Values) /\ e <= Len(entered)
      /\ q \in Nat /\ d <= q /\ q < e
  BY <1>1, <1>2 DEF TypeOK, Counters, Owners, Writing
<1>4. result[t] = "busy"
  BY <1>1, <1>2 DEF Answers
<1>5. Line = LineOf(d, e, entered, Written) /\ Line' = LineOf(d, e, entered, Written')
  BY <1>1, <1>2, LineIs
<1>6. Written' = Written \ {q} /\ q \in Written
  <2>1. \A u \in Threads : Writing(u)' <=> Writing(u) /\ u # t
    BY <1>1, <1>2 DEF Writing, TypeOK
  <2>2. \A u \in Threads : Writing(u) /\ u # t => pos[u] # q
    BY <1>1, <1>2 DEF Apart, Writing
  <2>3. Writing(t)
    BY <1>2 DEF Writing
  <2> QED BY <1>2, <2>1, <2>2, <2>3 DEF Written
<1> HIDE DEF e, d, q
<1>7. \E k \in DOMAIN Line : ~ Line[k].done /\ Line' = [Line EXCEPT ![k].done = TRUE]
  BY <1>3, <1>5, <1>6, LineCompletes
<1>8. Held' = Held
  <2>1. \A u \in Threads :
          (IF pc'[u] = "pop_read" THEN entered'[pos'[u] + 1]
           ELSE IF pc'[u] = "pop_release" THEN arg'[u] ELSE NoValue)
            = IF pc[u] = "pop_read" THEN entered[pos[u] + 1]
              ELSE IF pc[u] = "pop_release" THEN arg[u] ELSE NoValue
    BY <1>1, <1>2 DEF TypeOK
  <2> QED BY <2>1 DEF Held
<1> QED BY <1>2, <1>4, <1>7, <1>8 DEF Fifo!Complete, Fifo!Answer

\* The compare-and-exchange of a pop takes the head of the line, which is done.
LEMMA PopClaims ==
  ASSUME RingInv, RingInv', NEW t \in Threads, PopClaim(t)
  PROVE  Fifo!Take(t)
<1> DEFINE e == enqueue_pos
           d == dequeue_pos
<1>1. TypeOK /\ TypeOK' /\ Answers /\ LocalCopies /\ Counters /\ Owners /\ Rounds
  BY DEF RingInv, IInv
<1>2. /\ pos[t] = d /\ pc[t] = "pop_cas" /\ pc' = [pc EXCEPT ![t] = "pop_read"]
      /\ dequeue_pos' = d + 1
      /\ UNCHANGED <<enqueue_pos, entered, pos, arg, result>>
  BY DEF PopClaim, Goto
<1>3. /\ e \in Nat /\ d \in Nat /\ entered \in Seq(Values) /\ e <= Len(entered)
      /\ \A u \in Threads : pos[u] \in Nat
  BY <1>1 DEF TypeOK, Counters
<1>4. sequence[Slot(d)] = d + 1 /\ d < e
  BY <1>1, <1>2, <1>3 DEF LocalCopies, Rounds
<1>5. result[t] = "busy"
  BY <1>1, <1>2 DEF Answers
<1>6. Written' = Written
  BY <1>1, <1>2 DEF Written, Writing, TypeOK
<1>7. Line = LineOf(d, e, entered, Written) /\ Line' = LineOf(d + 1, e, entered, Written)
  BY <1>1, <1>2, <1>6, LineIs
<1>8. d \notin Written
  <2> SUFFICES ASSUME NEW u \in Threads, Writing(u), pos[u] = d PROVE FALSE
    BY DEF Written
  <2>1. sequence[Slot(d)] = d
    BY <1>1 DEF Owners
  <2> QED BY <1>3, <1>4, <2>1
<1> HIDE DEF e, d
<1>9. Line' = Tail(Line) /\ Line # <<>>
      /\ Head(Line) = [val |-> entered[d + 1], done |-> Done(d, Written)]
  BY <1>3, <1>4, <1>7, LineShrinks
<1>10. Head(Line).done /\ Head(Line).val = entered[d + 1]
  BY <1>8, <1>9 DEF Done
<1>11. Held' = [Held EXCEPT ![t] = entered[d + 1]]
  <2>1. \A u \in Threads :
          (IF pc'[u] = "pop_read" THEN entered'[pos'[u] + 1]
           ELSE IF pc'[u] = "pop_release" THEN arg'[u] ELSE NoValue)
            = IF u = t THEN entered[d + 1]
              ELSE IF pc[u] = "pop_read" THEN entered[pos[u] + 1]
              ELSE IF pc[u] = "pop_release" THEN arg[u] ELSE NoValue
    BY <1>1, <1>2 DEF TypeOK
  <2> QED BY <2>1 DEF Held
<1> QED BY <1>2, <1>5, <1>9, <1>10, <1>11 DEF Fifo!Take

\* The store of a pop's sequence number hands the value over.
LEMMA ReleaseHands ==
  ASSUME RingInv, RingInv', NEW t \in Threads, PopRelease(t)
  PROVE  Fifo!Hand(t)
<1>1. TypeOK /\ TypeOK' /\ Answers
  BY DEF RingInv, IInv
<1>2. /\ pc[t] = "pop_release" /\ pc' = [pc EXCEPT ![t] = "idle"]
      /\ result' = [result EXCEPT ![t] = arg[t]]
      /\ UNCHANGED <<enqueue_pos, dequeue_pos, entered, pos, arg>>
  BY DEF PopRelease, Goto, Return
<1>3. result[t] = "busy"
  BY <1>1, <1>2 DEF Answers
<1>4. Written' = Written
  BY <1>1, <1>2 DEF Written, Writing, TypeOK
<1>5. Line' = Line
  BY <1>1, <1>2, <1>4, LineIs
<1>6. Held[t] = arg[t] /\ Held[t] # NoValue
  <2>1. Held[t] # NoValue
    BY <1>2, HoldsValue, ValueAssumption DEF Reading
  <2> QED BY <1>2, <2>1 DEF Held
<1>7. Held' = [Held EXCEPT ![t] = NoValue]
  <2>1. \A u \in Threads :
          (IF pc'[u] = "pop_read" THEN entered'[pos'[u] + 1]
           ELSE IF pc'[u] = "pop_release" THEN arg'[u] ELSE NoValue)
            = IF u = t THEN NoValue
              ELSE IF pc[u] = "pop_read" THEN entered[pos[u] + 1]
              ELSE IF pc[u] = "pop_release" THEN arg[u] ELSE NoValue
    BY <1>1, <1>2 DEF TypeOK
  <2> QED BY <2>1 DEF Held
<1> QED BY <1>2, <1>3, <1>5, <1>6, <1>7 DEF Fifo!Hand, Fifo!Answer

\* A pop finds nothing only when the line is empty or its head is still being
\* written (queue.rs:184-186).
LEMMA NoneIsEmpty ==
  ASSUME RingInv, RingInv', NEW t \in Threads, PopNone(t)
  PROVE  Fifo!ComeBackEmpty(t)
<1> DEFINE e == enqueue_pos
           d == dequeue_pos
           p == pos[t]
<1>1. TypeOK /\ TypeOK' /\ Answers /\ LocalCopies /\ Counters
  BY DEF RingInv, IInv
<1>2. /\ pc[t] = "pop_seq" /\ pc' = [pc EXCEPT ![t] = "idle"]
      /\ result' = [result EXCEPT ![t] = "none"]
      /\ UNCHANGED <<enqueue_pos, dequeue_pos, entered, pos, arg>>
      /\ sequence[Slot(p)] < p + 1
  BY DEF PopNone, Goto, Return
<1>3. Line' = Line /\ Held' = Held
  BY <1>1, <1>2, Unmoved DEF TypeOK, Writing, Reading
<1>4. result[t] = "busy"
  BY <1>1, <1>2 DEF Answers
<1>5. /\ e \in Nat /\ d \in Nat /\ d <= e /\ entered \in Seq(Values) /\ e <= Len(entered)
      /\ p \in Nat /\ p <= d /\ sequence[Slot(p)] \in Nat
  <2>1. e \in Nat /\ d \in Nat /\ p \in Nat /\ entered \in Seq(Values)
    BY <1>1 DEF TypeOK
  <2>2. d <= e /\ e <= Len(entered)
    BY <1>1, <2>1 DEF Counters
  <2>3. p <= d
    BY <1>1, <1>2 DEF LocalCopies
  <2>4. sequence[Slot(p)] \in Nat
    BY <1>1, <2>1, SlotFacts DEF TypeOK
  <2> QED BY <2>1, <2>2, <2>3, <2>4
<1>6. Line = LineOf(d, e, entered, Written)
  BY <1>1, LineIs
<1>7. p = d
  <2>1. ~ p < d
    BY <1>2, <1>5 DEF RingInv, Passed
  <2> QED BY <1>5, <2>1
<1> HIDE DEF p
<1>8. CASE d = e
  <2>1. Line = <<>>
    <3>1. Shaped(Line, d, e, entered, Written)
      <4> HIDE DEF d, e
      <4> QED BY <1>5, <1>6, LineSeq
    <3>2. e - d = 0
      BY <1>5, <1>8
    <3> QED BY <3>1, <3>2 DEF Shaped
  <2> QED BY <1>2, <1>3, <1>4, <2>1 DEF Fifo!ComeBackEmpty, Fifo!Answer
<1>9. CASE d < e
  <2>1. \/ sequence[Slot(d)] = d + 1
        \/ \E u \in Threads : Writing(u) /\ pos[u] = d
    BY <1>5, <1>9 DEF RingInv, Filled
  <2>2. d \in Written
    BY <1>2, <1>5, <1>7, <2>1 DEF Written
  <2>3. Head(Line) = [val |-> entered[d + 1], done |-> Done(d, Written)]
    <3> HIDE DEF d, e
    <3> QED BY <1>5, <1>6, <1>9, LineShrinks
  <2>4. ~ Head(Line).done
    BY <2>2, <2>3 DEF Done
  <2> QED BY <1>2, <1>3, <1>4, <2>4 DEF Fifo!ComeBackEmpty, Fifo!Answer
<1> QED BY <1>5, <1>8, <1>9

----------------------------------------------------------------------------
(* The theorem *)

\* The ring implements the bounded queue, whatever its capacity and however many
\* threads share it: values leave in the order in which their pushes claimed
\* their positions, a push is refused only at capacity or while a pop is half
\* way, and a pop finds nothing only when the line is empty or its head is
\* still being written (queue.rs:91-190).
THEOREM RingImplementsFifo == Spec => ImplementsFifo
<1>1. Init => Fifo!Init
  <2> SUFFICES ASSUME Init PROVE Fifo!Init
    OBVIOUS
  <2>1. Line = <<>>
    <3>1. 1 .. enqueue_pos - dequeue_pos = {}
      BY DEF Init
    <3> QED BY <3>1 DEF Line
  <2>2. Held = [t \in Threads |-> NoValue]
    BY DEF Init, Held
  <2> QED BY <2>1, <2>2 DEF Init, Fifo!Init
<1>2. RingInv /\ RingInv' /\ [Next]_vars => [Fifo!Next]_(Fifo!vars)
  <2> SUFFICES ASSUME RingInv, RingInv', [Next]_vars
               PROVE  [Fifo!Next]_(Fifo!vars)
    OBVIOUS
  <2>1. ASSUME NEW t \in Threads, PopBegin(t) \/ \E v \in Values : PushBegin(t, v)
        PROVE  Fifo!Next
    BY <2>1, BeginCalls DEF Fifo!Next
  <2>2. ASSUME NEW t \in Threads, PushStep(t)
        PROVE  Fifo!Next \/ UNCHANGED Fifo!vars
    BY <2>2, RingStutters, FullRefuses, PushClaims, PublishCompletes DEF PushStep, Fifo!Next
  <2>3. ASSUME NEW t \in Threads, PopStep(t)
        PROVE  Fifo!Next \/ UNCHANGED Fifo!vars
    BY <2>3, RingStutters, ReadStutters, NoneIsEmpty, PopClaims, ReleaseHands
       DEF PopStep, Fifo!Next
  <2>4. CASE UNCHANGED vars
    BY <2>4 DEF vars, Fifo!vars, Line, Held, Writing
  <2> QED BY <2>1, <2>2, <2>3, <2>4 DEF Next
<1>3. Spec => []RingInv
  BY InitRing, StepRing, PTL DEF Spec
<1> QED BY <1>1, <1>2, <1>3, PTL DEF Spec, ImplementsFifo, Fifo!Spec

----------------------------------------------------------------------------
(* The command queue of a world                                            *)

\* Producers push, the world pops, and len() runs outside of a drain.
Roles ==
  /\ accepted \in Seq(Values) /\ applied \in Seq(Values)
  /\ \A p \in Producers : pc[p] = "idle" \/ Pushing(p)
  /\ ~ Pushing(World)
  /\ asked # NotAsked => ~ draining /\ pc[World] = "idle"

\* The place of an accepted command is not being written.
Settled ==
  \A c \in ToSet(accepted) :
    \E n \in 1 .. enqueue_pos :
      entered[n] = c /\ ~ \E p \in Threads : Writing(p) /\ pos[p] = n - 1

Executed ==
  \A n \in 1 .. dequeue_pos :
    entered[n] \in ToSet(applied) \/ (Reading(World) /\ pos[World] = n - 1)

\* What drain and len() found waiting when they were called.
Remembered ==
  /\ backlog \subseteq ToSet(accepted)
  /\ asked # NotAsked =>
       /\ asked \in 0 .. enqueue_pos
       /\ \A c \in backlog : c \notin ToSet(applied) /\ \E n \in 1 .. asked : entered[n] = c

\* How many commands producer p has claimed a place for.
Claimed(p) == Issued(p) + (IF Writing(p) THEN 1 ELSE 0)

\* A producer pushes the next command of its program.
Pending ==
  \A p \in Producers : Pushing(p) =>
    Issued(p) < Len(Program[p]) /\ arg[p] = Program[p][Issued(p) + 1]

\* Place n is that of the k-th command of p, behind those of all before it.
PlaceOf(n, p, k) ==
  entered[n] = Program[p][k] /\ \A l \in 1 .. k - 1 : \E m \in 1 .. n - 1 : entered[m] = Program[p][l]

\* The places of a producer's commands: one each, in the order of its program.
InOrder ==
  /\ \A n \in 1 .. enqueue_pos : \E p \in Producers :
       \E k \in DOMAIN Program[p] : k <= Claimed(p) /\ PlaceOf(n, p, k)
  /\ \A p \in Producers : \A k \in 1 .. Claimed(p) :
       \E n \in 1 .. enqueue_pos : entered[n] = Program[p][k]
  /\ \A m, n \in 1 .. enqueue_pos : entered[m] = entered[n] => m = n

\* What has been executed is what stands at the places that were popped, in that
\* order, but for the one in the hands of the drain.
Copied ==
  /\ Len(applied) = (IF Reading(World) THEN pos[World] ELSE dequeue_pos)
  /\ Reading(World) => pos[World] + 1 = dequeue_pos
  /\ \A n \in 1 .. Len(applied) : applied[n] = entered[n]

CInv ==
  /\ RingInv /\ Roles /\ Settled /\ Executed /\ Remembered
  /\ Pending /\ InOrder /\ Copied

----------------------------------------------------------------------------
(* The ring in the composition *)

\* The queue starts as its ring, with nothing pushed and nothing executed.
LEMMA InitQueue == CInit => CInv
<1> SUFFICES ASSUME CInit PROVE CInv
  OBVIOUS
<1>1. RingInv
  BY InitRing DEF CInit
<1>2. Roles
  BY WorldAssumption DEF CInit, Init, Roles, Producers, Pushing, NotAsked
<1>3. ToSet(accepted) = {}
  BY DEF CInit, ToSet
<1>4. Settled /\ Executed /\ Remembered
  BY <1>3 DEF CInit, Init, Settled, Executed, Remembered, NotAsked
<1>5. Pending /\ Copied
  BY WorldAssumption DEF CInit, Init, Producers, Pending, Copied, Pushing, Reading
<1>6. InOrder
  <2>1. \A p \in Producers : Issued(p) = 0
    <3> SUFFICES ASSUME NEW p \in Producers PROVE Issued(p) = 0
      OBVIOUS
    <3>1. {i \in DOMAIN accepted : accepted[i] \in ToSet(Program[p])} = {}
      BY DEF CInit
    <3> QED BY <3>1, FS_EmptySet DEF Issued
  <2>2. \A p \in Producers : Claimed(p) = 0
    BY <2>1 DEF Claimed, CInit, Init, Writing, Producers
  <2> QED BY <2>2 DEF InOrder, CInit, Init
<1> QED BY <1>1, <1>2, <1>4, <1>5, <1>6 DEF CInv

\* A producer that has commands left pushes one of the values.
LEMMA ProgramValue ==
  ASSUME Roles, NEW p \in Producers, Issued(p) < Len(Program[p])
  PROVE  Program[p][Issued(p) + 1] \in Values
<1> DEFINE S == {i \in DOMAIN accepted : accepted[i] \in ToSet(Program[p])}
<1>1. accepted \in Seq(Values) /\ Program[p] \in Seq(Values)
  BY ProgramAssumption DEF Roles
<1>2. DOMAIN accepted = 1 .. Len(accepted) /\ Len(accepted) \in Nat /\ Len(Program[p]) \in Nat
  BY <1>1, LenProperties
<1>3. IsFiniteSet(S)
  <2>1. IsFiniteSet(1 .. Len(accepted))
    BY <1>2, FS_Interval
  <2> QED BY <1>2, <2>1, FS_Subset
<1>4. Issued(p) \in Nat
  BY <1>3, FS_CardinalityType DEF Issued
<1>5. Issued(p) + 1 \in 1 .. Len(Program[p])
  BY <1>2, <1>4
<1> QED BY <1>1, <1>5, ElementOfSeq

\* Every step of the queue is a step of its ring, or leaves the ring alone.
LEMMA QueueUsesRing ==
  ASSUME Roles, [CNext]_cvars
  PROVE  [Next]_vars
<1>1. World \in Threads /\ Producers \subseteq Threads
  BY WorldAssumption DEF Producers
<1>2. ASSUME NEW p \in Producers, PushCommand(p)
      PROVE  Next
  <2>1. PushBegin(p, Program[p][Issued(p) + 1]) /\ Program[p][Issued(p) + 1] \in Values
    BY <1>2, ProgramValue DEF PushCommand
  <2> QED BY <1>1, <2>1 DEF Next
<1>3. ASSUME NEW p \in Producers, PushAccepted(p) \/ PushOther(p)
      PROVE  Next
  BY <1>1, <1>3 DEF PushAccepted, PushOther, PushStep, Next
<1>4. CASE DrainBegin \/ DrainContinue \/ DrainPop \/ DrainExecute \/ DrainEnd
  BY <1>1, <1>4 DEF DrainBegin, DrainContinue, DrainPop, DrainExecute, DrainEnd, PopStep, Next
<1>5. CASE LenBegin \/ \E n \in Lengths : LenEnd(n)
  BY <1>5 DEF LenBegin, LenEnd
<1>6. CASE UNCHANGED cvars
  BY <1>6 DEF cvars
<1> QED BY <1>2, <1>3, <1>4, <1>5, <1>6 DEF CNext, WorldStep, ProducerStep

----------------------------------------------------------------------------
(* The invariant *)

\* What the drain executes is a value.
LEMMA ExecutesPushed ==
  ASSUME RingInv, pc[World] = "pop_release"
  PROVE  /\ arg[World] = entered[pos[World] + 1] /\ arg[World] \in Values
<1>1. World \in Threads /\ Reading(World)
  BY WorldAssumption DEF Reading
<1>2. arg[World] = entered[pos[World] + 1]
  BY <1>1 DEF RingInv, Carried
<1> QED BY <1>1, <1>2, HoldsValue

\* The roles of the threads, and the types of the history.
LEMMA RolesKeep ==
  ASSUME RingInv, Roles, [CNext]_cvars
  PROVE  Roles'
<1>1. World \in Threads /\ Producers = Threads \ {World} /\ TypeOK
  BY WorldAssumption DEF Producers, RingInv, IInv
<1> USE DEF Roles, Pushing, Goto, history
<1>2. ASSUME NEW p \in Producers, PushCommand(p)
      PROVE  Roles'
  BY <1>1, <1>2 DEF PushCommand, PushBegin, TypeOK
<1>3. ASSUME NEW p \in Producers, PushAccepted(p)
      PROVE  Roles'
  <2>1. arg[p] \in Values /\ pc' = [pc EXCEPT ![p] = "idle"]
        /\ accepted' = Append(accepted, arg[p]) /\ UNCHANGED <<applied, draining, asked>>
    BY <1>1, <1>3 DEF PushAccepted, PushPublish, TypeOK
  <2>2. accepted' \in Seq(Values)
    BY <2>1, AppendProperties
  <2> QED BY <1>1, <2>1, <2>2 DEF TypeOK
<1>4. ASSUME NEW p \in Producers, PushOther(p)
      PROVE  Roles'
  <2>1. \E s \in {"push_seq", "push_cas", "push_reload", "push_write", "push_publish", "idle"} :
          pc' = [pc EXCEPT ![p] = s]
    BY <1>4 DEF PushOther, PushSlotFree, PushFull, PushOvertaken, PushReload, PushClaim,
                PushClaimFails, PushWrite
  <2> QED BY <1>1, <1>4, <2>1 DEF PushOther, TypeOK
<1>5. CASE DrainBegin \/ DrainContinue
  BY <1>1, <1>5 DEF DrainBegin, DrainContinue, PopBegin, TypeOK
<1>6. CASE DrainPop \/ DrainEnd
  <2>1. /\ pc[World] # "idle"
        /\ \E s \in {"pop_seq", "pop_cas", "pop_reload", "pop_read", "pop_release", "idle"} :
             pc' = [pc EXCEPT ![World] = s]
    BY <1>6 DEF DrainPop, DrainEnd, PopSlotReady, PopOvertaken, PopReload, PopClaim,
                PopClaimFails, PopRead, PopNone
  <2> QED BY <1>1, <1>6, <2>1 DEF DrainPop, DrainEnd, TypeOK
<1>7. CASE DrainExecute
  <2>1. pc[World] = "pop_release" /\ pc' = [pc EXCEPT ![World] = "idle"]
        /\ applied' = Append(applied, arg[World]) /\ UNCHANGED <<accepted, draining, asked>>
    BY <1>7 DEF DrainExecute, PopRelease
  <2>2. applied' \in Seq(Values)
    BY <2>1, ExecutesPushed, AppendProperties
  <2> QED BY <1>1, <2>1, <2>2 DEF TypeOK
<1>8. CASE LenBegin \/ \E n \in Lengths : LenEnd(n)
  BY <1>8 DEF LenBegin, LenEnd, vars
<1>9. CASE UNCHANGED cvars
  BY <1>9 DEF cvars, vars
<1> QED BY <1>2, <1>3, <1>4, <1>5, <1>6, <1>7, <1>8, <1>9 DEF CNext, WorldStep, ProducerStep

\* Claims are never taken back and what was pushed at one stays.
LEMMA EnteredStays ==
  ASSUME RingInv, [Next]_vars
  PROVE  /\ enqueue_pos \in Nat /\ enqueue_pos' \in Nat /\ enqueue_pos <= enqueue_pos'
         /\ dequeue_pos \in Nat /\ dequeue_pos <= enqueue_pos
         /\ \A n \in 1 .. enqueue_pos : entered'[n] = entered[n]
<1>1. /\ TypeOK /\ enqueue_pos \in Nat /\ dequeue_pos \in Nat /\ dequeue_pos <= enqueue_pos
      /\ entered \in Seq(Values) /\ Len(entered) = enqueue_pos
  BY DEF RingInv, IInv, TypeOK, Counters
<1>2. ASSUME NEW t \in Threads, PushClaim(t)
      PROVE  enqueue_pos' = enqueue_pos + 1 /\ \A n \in 1 .. enqueue_pos : entered'[n] = entered[n]
  <2>1. arg[t] \in Values
    BY <1>1, <1>2 DEF TypeOK, Pushing, PushClaim, Goto
  <2> QED BY <1>1, <1>2, <2>1, AppendProperties DEF PushClaim
<1>3. CASE UNCHANGED <<enqueue_pos, entered>>
  BY <1>1, <1>3
<1>4. (\E t \in Threads : PushClaim(t)) \/ UNCHANGED <<enqueue_pos, entered>>
  BY DEF Next, vars, PushBegin, PopBegin, PushStep, PopStep, PushSlotFree, PushFull, PushOvertaken,
         PushReload, PushClaimFails, PushWrite, PushPublish, PopSlotReady, PopNone, PopOvertaken,
         PopReload, PopClaim, PopClaimFails, PopRead, PopRelease
<1> QED BY <1>1, <1>2, <1>3, <1>4

\* A thread that writes after a step wrote at the same position before it, or
\* has just claimed the position behind all the others.
LEMMA WritersClaimLast ==
  ASSUME RingInv, [Next]_vars, NEW t \in Threads, Writing(t)'
  PROVE  (Writing(t) /\ pos'[t] = pos[t]) \/ pos'[t] = enqueue_pos
<1>1. TypeOK
  BY DEF RingInv, IInv
<1> USE <1>1 DEF TypeOK, Writing, Goto
<1>2. ASSUME NEW u \in Threads, (\E v \in Values : PushBegin(u, v)) \/ PopBegin(u)
      PROVE  Writing(t) /\ pos'[t] = pos[t]
  BY <1>2 DEF PushBegin, PopBegin
<1>3. ASSUME NEW u \in Threads, PushStep(u)
      PROVE  (Writing(t) /\ pos'[t] = pos[t]) \/ pos'[t] = enqueue_pos
  <2>1. CASE PushClaim(u)
    BY <2>1 DEF PushClaim
  <2>2. CASE PushSlotFree(u) \/ PushFull(u) \/ PushOvertaken(u) \/ PushReload(u) \/ PushClaimFails(u)
    BY <2>2 DEF PushSlotFree, PushFull, PushOvertaken, PushReload, PushClaimFails
  <2>3. CASE PushWrite(u) \/ PushPublish(u)
    BY <2>3 DEF PushWrite, PushPublish
  <2> QED BY <1>3, <2>1, <2>2, <2>3 DEF PushStep
<1>4. ASSUME NEW u \in Threads, PopStep(u)
      PROVE  Writing(t) /\ pos'[t] = pos[t]
  BY <1>4 DEF PopStep, PopSlotReady, PopNone, PopOvertaken, PopReload, PopClaim, PopClaimFails,
              PopRead, PopRelease
<1>5. CASE UNCHANGED vars
  BY <1>5 DEF vars
<1> QED BY <1>2, <1>3, <1>4, <1>5 DEF Next

\* An accepted command keeps its place, and nobody writes there again.
LEMMA SettledKeeps ==
  ASSUME RingInv, Roles, Settled, [CNext]_cvars
  PROVE  Settled'
<1> SUFFICES ASSUME NEW c \in ToSet(accepted')
             PROVE  \E n \in 1 .. enqueue_pos' :
                      /\ entered'[n] = c
                      /\ ~ \E t \in Threads : Writing(t)' /\ pos'[t] = n - 1
  BY DEF Settled
<1>1. [Next]_vars
  BY QueueUsesRing
<1>2. ASSUME NEW n \in 1 .. enqueue_pos, entered[n] = c,
             ~ \E t \in Threads : Writing(t) /\ Writing(t)' /\ pos[t] = n - 1
      PROVE  \E m \in 1 .. enqueue_pos' :
               /\ entered'[m] = c
               /\ ~ \E t \in Threads : Writing(t)' /\ pos'[t] = m - 1
  <2>1. n \in 1 .. enqueue_pos' /\ entered'[n] = c /\ n - 1 # enqueue_pos
    BY <1>1, <1>2, EnteredStays
  <2>2. ~ \E t \in Threads : Writing(t)' /\ pos'[t] = n - 1
    BY <1>1, <1>2, <2>1, WritersClaimLast
  <2> QED BY <2>1, <2>2
<1>3. CASE c \in ToSet(accepted)
  <2>1. PICK n \in 1 .. enqueue_pos :
               entered[n] = c /\ ~ \E t \in Threads : Writing(t) /\ pos[t] = n - 1
    BY <1>3 DEF Settled
  <2> QED BY <1>2, <2>1
<1>4. ASSUME NEW p \in Producers, PushAccepted(p), c = arg[p]
      PROVE  \E n \in 1 .. enqueue_pos :
               entered[n] = c /\ ~ \E t \in Threads : Writing(t) /\ Writing(t)' /\ pos[t] = n - 1
  <2>1. p \in Threads /\ Writing(p) /\ ~ Writing(p)' /\ TypeOK /\ Owners /\ Apart
    BY <1>4 DEF Producers, RingInv, IInv, PushAccepted, PushPublish, Goto, Writing, TypeOK
  <2>2. /\ pos[p] \in Nat /\ enqueue_pos \in Nat /\ pos[p] < enqueue_pos
        /\ arg[p] = entered[pos[p] + 1]
    BY <2>1 DEF Owners, TypeOK
  <2>3. pos[p] + 1 \in 1 .. enqueue_pos /\ (pos[p] + 1) - 1 = pos[p]
    BY <2>2
  <2>4. ~ \E t \in Threads : Writing(t) /\ Writing(t)' /\ pos[t] = pos[p]
    BY <2>1 DEF Apart
  <2> QED BY <1>4, <2>2, <2>3, <2>4
<1>5. ASSUME accepted' = accepted
      PROVE  c \in ToSet(accepted)
  BY <1>5
<1>6. ASSUME NEW p \in Producers, PushAccepted(p)
      PROVE  c \in ToSet(accepted) \/ c = arg[p]
  <2>1. arg[p] \in Values /\ accepted \in Seq(Values) /\ accepted' = Append(accepted, arg[p])
    BY <1>6 DEF RingInv, IInv, TypeOK, Pushing, Producers, Goto, PushAccepted, PushPublish, Roles
  <2> QED BY <2>1, AppendProperties DEF ToSet
<1>7. accepted' = accepted \/ \E p \in Producers : PushAccepted(p)
  BY DEF CNext, cvars, WorldStep, ProducerStep, history, PushCommand, PushOther, DrainBegin,
         DrainContinue, DrainPop, DrainExecute, DrainEnd, LenBegin, LenEnd
<1> QED BY <1>2, <1>3, <1>4, <1>5, <1>6, <1>7

\* What has been executed stays so.
LEMMA AppliedGrows ==
  ASSUME RingInv, Roles, [CNext]_cvars
  PROVE  /\ ToSet(applied) \subseteq ToSet(applied')
         /\ DrainExecute => arg[World] \in ToSet(applied')
         /\ ~ DrainExecute => applied' = applied
<1>1. ASSUME DrainExecute
      PROVE  ToSet(applied) \subseteq ToSet(applied') /\ arg[World] \in ToSet(applied')
  <2>1. arg[World] \in Values /\ applied \in Seq(Values) /\ applied' = Append(applied, arg[World])
    BY <1>1, ExecutesPushed DEF DrainExecute, PopRelease, Goto, Roles
  <2>2. /\ Len(applied) \in Nat /\ Len(applied') = Len(applied) + 1
        /\ DOMAIN applied = 1 .. Len(applied) /\ DOMAIN applied' = 1 .. Len(applied')
        /\ \A i \in 1 .. Len(applied) : applied'[i] = applied[i]
        /\ applied'[Len(applied) + 1] = arg[World]
    BY <2>1, AppendProperties, LenProperties
  <2> QED BY <2>2 DEF ToSet
<1>2. ASSUME ~ DrainExecute
      PROVE  applied' = applied
  BY <1>2 DEF CNext, cvars, WorldStep, ProducerStep, history, PushCommand, PushAccepted, PushOther,
              DrainBegin, DrainContinue, DrainPop, DrainEnd, LenBegin, LenEnd
<1> QED BY <1>1, <1>2

\* A position that the drain passes is in its hands until it has executed what
\* was pushed there.
LEMMA ExecutedKeeps ==
  ASSUME RingInv, Roles, Executed, [CNext]_cvars
  PROVE  Executed'
<1> SUFFICES ASSUME NEW n \in 1 .. dequeue_pos'
             PROVE  entered'[n] \in ToSet(applied') \/ (Reading(World)' /\ pos'[World] = n - 1)
  BY DEF Executed
<1>1. [Next]_vars /\ World \in Threads /\ TypeOK
  BY QueueUsesRing, WorldAssumption DEF RingInv, IInv
<1>2. ASSUME DrainPop, PopClaim(World)
      PROVE  /\ Reading(World)' /\ pos'[World] = dequeue_pos /\ dequeue_pos' = dequeue_pos + 1
             /\ ~ Reading(World)
  BY <1>1, <1>2 DEF PopClaim, Goto, Reading, TypeOK
<1>3. CASE n \in 1 .. dequeue_pos
  <2>1. entered'[n] = entered[n]
    BY <1>1, <1>3, EnteredStays
  <2>2. CASE entered[n] \in ToSet(applied)
    BY <2>1, <2>2, AppliedGrows
  <2>3. CASE Reading(World) /\ pos[World] = n - 1
    <3>1. CASE DrainExecute
      <4>1. arg[World] = entered[n]
        BY <1>3, <2>3, <3>1, ExecutesPushed DEF DrainExecute, PopRelease, Goto
      <4> QED BY <2>1, <3>1, <4>1, AppliedGrows
    <3>2. CASE DrainPop /\ ~ PopClaim(World)
      BY <1>1, <2>3, <3>2 DEF DrainPop, PopSlotReady, PopOvertaken, PopReload, PopClaimFails, PopRead,
                              Goto, Reading, TypeOK
    <3>3. CASE DrainBegin \/ DrainContinue \/ DrainEnd
      BY <2>3, <3>3 DEF DrainBegin, DrainContinue, DrainEnd, PopBegin, PopNone, Goto, Reading
    <3>4. CASE LenBegin \/ (\E k \in Lengths : LenEnd(k)) \/ UNCHANGED cvars
      BY <2>3, <3>4 DEF LenBegin, LenEnd, cvars, vars, Reading
    <3>5. ASSUME NEW p \in Producers, ProducerStep(p)
          PROVE  Reading(World)' /\ pos'[World] = pos[World]
      BY <1>1, <2>3, <3>5 DEF Producers, ProducerStep, PushCommand, PushBegin, PushAccepted,
             PushPublish, PushOther, PushSlotFree, PushFull, PushOvertaken, PushReload, PushClaim,
             PushClaimFails, PushWrite, Goto, Reading, TypeOK
    <3> QED BY <1>2, <2>3, <3>1, <3>2, <3>3, <3>4, <3>5 DEF CNext, WorldStep
  <2> QED BY <1>3, <2>2, <2>3 DEF Executed
<1>4. CASE n \notin 1 .. dequeue_pos
  <2>1. dequeue_pos' = dequeue_pos \/ (DrainPop /\ PopClaim(World))
    BY DEF CNext, cvars, vars, WorldStep, ProducerStep, PushCommand, PushBegin, PushAccepted,
           PushPublish, PushOther, PushSlotFree, PushFull, PushOvertaken, PushReload, PushClaim,
           PushClaimFails, PushWrite, DrainBegin, DrainContinue, PopBegin, DrainPop, PopSlotReady,
           PopOvertaken, PopReload, PopClaimFails, PopRead, DrainExecute, PopRelease, DrainEnd,
           PopNone, LenBegin, LenEnd
  <2> QED BY <1>1, <1>2, <1>4, <2>1, EnteredStays
<1> QED BY <1>3, <1>4

\* While the world asks for the length it executes nothing, and what it found
\* waiting stays accepted.
LEMMA RememberedKeeps ==
  ASSUME RingInv, Roles, Settled, Remembered, [CNext]_cvars
  PROVE  Remembered'
<1>1. [Next]_vars
  BY QueueUsesRing
<1>2. ToSet(accepted) \subseteq ToSet(accepted')
  <2>1. ASSUME NEW p \in Producers, PushAccepted(p)
        PROVE  ToSet(accepted) \subseteq ToSet(accepted')
    <3>1. arg[p] \in Values /\ accepted \in Seq(Values) /\ accepted' = Append(accepted, arg[p])
      BY <2>1 DEF RingInv, IInv, TypeOK, Pushing, Producers, Goto, PushAccepted, PushPublish, Roles
    <3>2. /\ Len(accepted) \in Nat /\ Len(accepted') = Len(accepted) + 1
          /\ DOMAIN accepted = 1 .. Len(accepted) /\ DOMAIN accepted' = 1 .. Len(accepted')
          /\ \A i \in 1 .. Len(accepted) : accepted'[i] = accepted[i]
      BY <3>1, AppendProperties, LenProperties
    <3> QED BY <3>2 DEF ToSet
  <2>2. accepted' = accepted \/ \E p \in Producers : PushAccepted(p)
    BY DEF CNext, cvars, WorldStep, ProducerStep, history, PushCommand, PushOther, DrainBegin,
           DrainContinue, DrainPop, DrainExecute, DrainEnd, LenBegin, LenEnd
  <2> QED BY <2>1, <2>2
<1>3. CASE DrainBegin
  BY <1>2, <1>3 DEF DrainBegin, Waiting, Remembered, NotAsked
<1>4. CASE LenBegin
  <2>1. /\ asked' = enqueue_pos /\ enqueue_pos' = enqueue_pos /\ entered' = entered
        /\ backlog' = ToSet(accepted) \ ToSet(applied) /\ applied' = applied /\ accepted' = accepted
    BY <1>4 DEF LenBegin, Waiting, vars
  <2>2. \A c \in backlog' : \E n \in 1 .. enqueue_pos : entered[n] = c
    BY <2>1 DEF Settled
  <2> QED BY <1>1, <2>1, <2>2, EnteredStays DEF Remembered
<1>5. CASE (\E k \in Lengths : LenEnd(k))
  BY <1>2, <1>5 DEF LenEnd, Remembered, vars
<1>6. CASE backlog' = backlog /\ asked' = asked /\ (asked # NotAsked => applied' = applied)
  BY <1>1, <1>2, <1>6, EnteredStays DEF Remembered
<1>7. CASE DrainContinue \/ DrainPop \/ DrainExecute \/ DrainEnd \/ UNCHANGED cvars
  <2>1. backlog' = backlog /\ asked' = asked
    BY <1>7 DEF DrainContinue, DrainPop, DrainExecute, DrainEnd, history, cvars
  <2>2. asked # NotAsked => ~ DrainExecute
    BY DEF Roles, DrainExecute, PopRelease, Goto
  <2> QED BY <1>6, <2>1, <2>2, AppliedGrows
<1>8. ASSUME NEW p \in Producers, ProducerStep(p)
      PROVE  backlog' = backlog /\ asked' = asked /\ applied' = applied
  BY <1>8 DEF ProducerStep, PushCommand, PushAccepted, PushOther, history
<1> QED BY <1>3, <1>4, <1>5, <1>6, <1>7, <1>8 DEF CNext, WorldStep

\* One more command accepted is one more issued by its producer alone.
LEMMA IssuedGrows ==
  ASSUME Roles, NEW p \in Producers
  PROVE  /\ Issued(p) \in Nat
         /\ accepted' = accepted => Issued(p)' = Issued(p)
         /\ \A c \in Values : accepted' = Append(accepted, c) =>
              Issued(p)' = Issued(p) + (IF c \in ToSet(Program[p]) THEN 1 ELSE 0)
<1> DEFINE S == {i \in DOMAIN accepted : accepted[i] \in ToSet(Program[p])}
           T == {i \in DOMAIN accepted' : accepted'[i] \in ToSet(Program[p])}
<1>1. /\ accepted \in Seq(Values) /\ Len(accepted) \in Nat /\ DOMAIN accepted = 1 .. Len(accepted)
  BY LenProperties DEF Roles
<1>2. IsFiniteSet(S)
  <2>1. IsFiniteSet(1 .. Len(accepted))
    BY <1>1, FS_Interval
  <2> QED BY <1>1, <2>1, FS_Subset
<1>3. Issued(p) \in Nat /\ Issued(p) = Cardinality(S) /\ Issued(p)' = Cardinality(T)
  BY <1>2, FS_CardinalityType DEF Issued
<1>4. ASSUME NEW c \in Values, accepted' = Append(accepted, c)
      PROVE  Issued(p)' = Issued(p) + (IF c \in ToSet(Program[p]) THEN 1 ELSE 0)
  <2>1. /\ DOMAIN accepted' = 1 .. Len(accepted) + 1
        /\ \A i \in 1 .. Len(accepted) : accepted'[i] = accepted[i]
        /\ accepted'[Len(accepted) + 1] = c
    <3>1. /\ Append(accepted, c) \in Seq(Values) /\ Len(Append(accepted, c)) = Len(accepted) + 1
          /\ \A i \in 1 .. Len(accepted) : Append(accepted, c)[i] = accepted[i]
          /\ Append(accepted, c)[Len(accepted) + 1] = c
      BY <1>1, AppendProperties
    <3> QED BY <1>4, <3>1, LenProperties
  <2>2. CASE c \in ToSet(Program[p])
    <3>1. T = S \cup {Len(accepted) + 1} /\ Len(accepted) + 1 \notin S
      BY <1>1, <2>1, <2>2
    <3>2. Cardinality(T) = Cardinality(S) + 1
      BY <1>2, <3>1, FS_AddElement
    <3> QED BY <1>3, <2>2, <3>2
  <2>3. CASE c \notin ToSet(Program[p])
    <3>1. T = S
      BY <1>1, <2>1, <2>3
    <3> HIDE DEF S, T
    <3> QED BY <1>3, <2>3, <3>1
  <2> QED BY <2>2, <2>3
<1>5. accepted' = accepted => Issued(p)' = Issued(p)
  BY DEF Issued
<1> QED BY <1>3, <1>4, <1>5

\* Which commands are a producer's.
LEMMA Commands ==
  ASSUME NEW p \in Producers
  PROVE  /\ Program[p] \in Seq(Values) /\ Len(Program[p]) \in Nat
         /\ DOMAIN Program[p] = 1 .. Len(Program[p])
         /\ \A k \in 1 .. Len(Program[p]) :
              /\ Program[p][k] \in Values /\ Program[p][k] \in ToSet(Program[p])
              /\ \A q \in Producers \ {p} : Program[p][k] \notin ToSet(Program[q])
<1>1. Program[p] \in Seq(Values) /\ Len(Program[p]) \in Nat /\ DOMAIN Program[p] = 1 .. Len(Program[p])
  BY ProgramAssumption, LenProperties
<1>2. \A k \in 1 .. Len(Program[p]) : Program[p][k] \in Values /\ Program[p][k] \in ToSet(Program[p])
  BY <1>1, ElementOfSeq DEF ToSet
<1>3. ASSUME NEW k \in 1 .. Len(Program[p]), NEW q \in Producers \ {p}
      PROVE  Program[p][k] \notin ToSet(Program[q])
  BY <1>1, CommandsAssumption DEF ToSet
<1> QED BY <1>1, <1>2, <1>3

\* A producer claims a place for the command that comes next in its program.
LEMMA ClaimedCount ==
  ASSUME RingInv, Roles, Pending, NEW p \in Producers
  PROVE  /\ Claimed(p) \in Nat /\ Issued(p) \in Nat
         /\ Pushing(p) => /\ Issued(p) + 1 \in 1 .. Len(Program[p])
                          /\ arg[p] = Program[p][Issued(p) + 1]
         /\ Writing(p) => Pushing(p) /\ Claimed(p) = Issued(p) + 1
         /\ ~Writing(p) => Claimed(p) = Issued(p)
<1>1. Issued(p) \in Nat /\ Len(Program[p]) \in Nat
  BY IssuedGrows, Commands
<1>2. Writing(p) => Pushing(p)
  BY DEF Writing, Pushing
<1> QED BY <1>1, <1>2 DEF Pending, Claimed

\* Only a claim of p changes how many places p has claimed.
LEMMA ClaimedKeeps ==
  ASSUME RingInv, Roles, Pending, [CNext]_cvars, NEW p \in Producers
  PROVE  /\ PushOther(p) /\ PushClaim(p) =>
              /\ Claimed(p)' = Claimed(p) + 1 /\ Pushing(p)' /\ ~Writing(p)
         /\ ~(PushOther(p) /\ PushClaim(p)) => Claimed(p)' = Claimed(p)
         /\ Pushing(p)' => Issued(p)' < Len(Program[p]) /\ arg'[p] = Program[p][Issued(p)' + 1]
<1>1. /\ TypeOK /\ p \in Threads /\ p # World /\ World \in Threads
  BY WorldAssumption DEF Producers, RingInv, IInv
<1>2. /\ Claimed(p) \in Nat /\ Issued(p) \in Nat
      /\ Pushing(p) => Issued(p) < Len(Program[p]) /\ arg[p] = Program[p][Issued(p) + 1]
      /\ Writing(p) => Claimed(p) = Issued(p) + 1
      /\ ~Writing(p) => Claimed(p) = Issued(p)
  BY ClaimedCount DEF Pending
<1>3. /\ Writing(p)' => Claimed(p)' = Issued(p)' + 1
      /\ Issued(p)' \in Nat => (~Writing(p)' => Claimed(p)' = Issued(p)')
  BY DEF Claimed
<1>4. accepted' = accepted => Issued(p)' = Issued(p)
  BY IssuedGrows
<1>5. ASSUME accepted' = accepted, Writing(p)' <=> Writing(p),
             Pushing(p)' => Pushing(p) /\ arg'[p] = arg[p], ~(PushOther(p) /\ PushClaim(p))
      PROVE  /\ Claimed(p)' = Claimed(p)
             /\ Pushing(p)' => Issued(p)' < Len(Program[p]) /\ arg'[p] = Program[p][Issued(p)' + 1]
  BY <1>2, <1>3, <1>4, <1>5
<1>6. ASSUME pc'[p] = pc[p], arg'[p] = arg[p]
      PROVE  (Writing(p)' <=> Writing(p)) /\ (Pushing(p)' => Pushing(p) /\ arg'[p] = arg[p])
  BY <1>6 DEF Writing, Pushing
<1>7. CASE PushCommand(p)
  <2>1. /\ accepted' = accepted /\ Issued(p) < Len(Program[p])
        /\ arg'[p] = Program[p][Issued(p) + 1] /\ pc[p] = "idle" /\ pc'[p] = "push_seq"
    BY <1>1, <1>7 DEF PushCommand, PushBegin, Goto, history, TypeOK
  <2>2. ~Writing(p) /\ ~Writing(p)' /\ ~PushClaim(p)
    BY <2>1 DEF Writing, PushClaim, Goto
  <2> QED BY <1>2, <1>3, <1>4, <2>1, <2>2
<1>8. CASE PushAccepted(p)
  <2>1. /\ accepted' = Append(accepted, arg[p]) /\ pc[p] = "push_publish" /\ pc'[p] = "idle"
    BY <1>1, <1>8 DEF PushAccepted, PushPublish, Goto, TypeOK
  <2>2. Writing(p) /\ Pushing(p) /\ ~Writing(p)' /\ ~Pushing(p)' /\ ~PushClaim(p)
    BY <2>1 DEF Writing, Pushing, PushClaim, Goto
  <2>3. Issued(p) + 1 \in 1 .. Len(Program[p]) /\ arg[p] = Program[p][Issued(p) + 1]
    BY <2>2, ClaimedCount
  <2>4. arg[p] \in Values /\ arg[p] \in ToSet(Program[p])
    BY <2>3, Commands
  <2>5. Issued(p)' = Issued(p) + 1
    BY <2>1, <2>4, IssuedGrows
  <2> QED BY <1>2, <1>3, <2>2, <2>5
<1>9. CASE PushOther(p) /\ PushClaim(p)
  <2>1. /\ accepted' = accepted /\ arg' = arg /\ pc[p] = "push_cas" /\ pc'[p] = "push_write"
    BY <1>1, <1>9 DEF PushOther, PushClaim, Goto, history, TypeOK
  <2>2. ~Writing(p) /\ Pushing(p) /\ Writing(p)' /\ Pushing(p)'
    BY <2>1 DEF Writing, Pushing
  <2> QED BY <1>2, <1>3, <1>4, <1>9, <2>1, <2>2
<1>10. CASE PushOther(p) /\ ~PushClaim(p)
  <2>1. accepted' = accepted /\ arg' = arg
    BY <1>10 DEF PushOther, history, PushSlotFree, PushFull, PushOvertaken, PushReload,
                 PushClaimFails, PushWrite
  <2>2. (Writing(p)' <=> Writing(p)) /\ (Pushing(p)' => Pushing(p))
    BY <1>1, <1>10 DEF PushOther, PushSlotFree, PushFull, PushOvertaken, PushReload,
                       PushClaimFails, PushWrite, Goto, Writing, Pushing, TypeOK
  <2> QED BY <1>5, <1>10, <2>1, <2>2
<1>11. ASSUME NEW q \in Producers, q # p, ProducerStep(q)
       PROVE  /\ Claimed(p)' = Claimed(p) /\ ~(PushOther(p) /\ PushClaim(p))
              /\ Pushing(p)' => Issued(p)' < Len(Program[p]) /\ arg'[p] = Program[p][Issued(p)' + 1]
  <2>1. /\ pc'[p] = pc[p] /\ arg'[p] = arg[p]
        /\ \E s : pc[q] # s /\ pc'[q] = s
    BY <1>1, <1>11 DEF Producers, ProducerStep, PushCommand, PushBegin, PushAccepted,
             PushPublish, PushOther, PushSlotFree, PushFull, PushOvertaken, PushReload, PushClaim,
             PushClaimFails, PushWrite, Goto, TypeOK
  <2>2. ~PushClaim(p)
    BY <1>1, <2>1 DEF PushClaim, Goto, TypeOK
  <2>3. Issued(p)' = Issued(p)
    <3>1. CASE PushAccepted(q)
      <4>1. pc[q] = "push_publish" /\ accepted' = Append(accepted, arg[q])
        BY <3>1 DEF PushAccepted, PushPublish, Goto
      <4>2. Issued(q) + 1 \in 1 .. Len(Program[q]) /\ arg[q] = Program[q][Issued(q) + 1]
        BY <4>1, ClaimedCount DEF Pushing
      <4>3. arg[q] \in Values /\ arg[q] \notin ToSet(Program[p])
        BY <1>11, <4>2, Commands
      <4> QED BY <1>2, <4>1, <4>3, IssuedGrows
    <3>2. CASE ~PushAccepted(q)
      BY <1>4, <1>11, <3>2 DEF ProducerStep, PushCommand, PushOther, history
    <3> QED BY <3>1, <3>2
  <2>4. (Writing(p)' <=> Writing(p)) /\ (Pushing(p)' => Pushing(p) /\ arg'[p] = arg[p])
    BY <1>6, <2>1
  <2> QED BY <1>2, <1>3, <2>2, <2>3, <2>4
<1>12. CASE WorldStep \/ UNCHANGED cvars
  <2>1. accepted' = accepted /\ pc'[p] = pc[p] /\ arg'[p] = arg[p]
    BY <1>1, <1>12 DEF WorldStep, DrainBegin, DrainContinue, PopBegin, DrainPop, PopSlotReady,
           PopOvertaken, PopReload, PopClaim, PopClaimFails, PopRead, DrainExecute, PopRelease,
           DrainEnd, PopNone, LenBegin, LenEnd, history, cvars, vars, Goto, TypeOK
  <2>2. ~PushClaim(p)
    BY <1>1, <2>1 DEF PushClaim, Goto, TypeOK
  <2> QED BY <1>5, <1>6, <2>1, <2>2
<1> QED BY <1>5, <1>7, <1>8, <1>9, <1>10, <1>11, <1>12 DEF CNext, ProducerStep

LEMMA PendingKeeps ==
  ASSUME RingInv, Roles, Pending, [CNext]_cvars
  PROVE  Pending'
  BY ClaimedKeeps DEF Pending

\* A claim adds the next command of its producer at the end of the places.
LEMMA ClaimAdds ==
  ASSUME RingInv, Roles, Pending, NEW p \in Producers, PushOther(p), PushClaim(p)
  PROVE  /\ enqueue_pos' = enqueue_pos + 1 /\ \A n \in 1 .. enqueue_pos : entered'[n] = entered[n]
         /\ Claimed(p) + 1 \in 1 .. Len(Program[p])
         /\ entered'[enqueue_pos + 1] = Program[p][Claimed(p) + 1]
<1>1. /\ TypeOK /\ p \in Threads /\ Counters /\ pc[p] = "push_cas"
  BY DEF Producers, RingInv, IInv, PushClaim, Goto
<1>2. Pushing(p) /\ ~Writing(p)
  BY <1>1 DEF Pushing, Writing
<1>3. /\ Claimed(p) = Issued(p) /\ Issued(p) + 1 \in 1 .. Len(Program[p])
      /\ arg[p] = Program[p][Issued(p) + 1]
  BY <1>2, ClaimedCount
<1>4. arg[p] \in Values
  BY <1>3, Commands
<1>5. /\ enqueue_pos \in Nat /\ entered \in Seq(Values) /\ Len(entered) = enqueue_pos
      /\ entered' = Append(entered, arg[p]) /\ enqueue_pos' = enqueue_pos + 1
  BY <1>1 DEF TypeOK, Counters, PushClaim
<1>6. /\ \A n \in 1 .. enqueue_pos : entered'[n] = entered[n]
      /\ entered'[enqueue_pos + 1] = arg[p]
  BY <1>4, <1>5, AppendProperties
<1> QED BY <1>3, <1>5, <1>6

\* What a place says of a command stays when places are added.
LEMMA PlaceStays ==
  ASSUME NEW n \in 1 .. enqueue_pos, enqueue_pos \in Nat,
         \A i \in 1 .. enqueue_pos : entered'[i] = entered[i],
         NEW p, NEW k, PlaceOf(n, p, k)
  PROVE  PlaceOf(n, p, k)'
<1>1. \A m \in 1 .. n - 1 : m \in 1 .. enqueue_pos
  OBVIOUS
<1> QED BY <1>1 DEF PlaceOf

\* The places stay in the order of the programs.
LEMMA InOrderKeeps ==
  ASSUME RingInv, Roles, Pending, InOrder, [CNext]_cvars
  PROVE  InOrder'
<1>1. /\ enqueue_pos \in Nat /\ enqueue_pos' \in Nat /\ enqueue_pos <= enqueue_pos'
      /\ \A n \in 1 .. enqueue_pos : entered'[n] = entered[n]
  BY QueueUsesRing, EnteredStays
<1>2. \A q \in Producers : Claimed(q) \in Nat /\ Claimed(q)' \in Nat /\ Claimed(q) <= Claimed(q)'
  BY ClaimedCount, ClaimedKeeps
<1>3. ASSUME NEW n \in 1 .. enqueue_pos
      PROVE  \E q \in Producers : \E k \in DOMAIN Program[q] : k <= Claimed(q)' /\ PlaceOf(n, q, k)'
  <2>1. PICK q \in Producers : \E k \in DOMAIN Program[q] : k <= Claimed(q) /\ PlaceOf(n, q, k)
    BY DEF InOrder
  <2>2. PICK k \in DOMAIN Program[q] : k <= Claimed(q) /\ PlaceOf(n, q, k)
    BY <2>1
  <2>3. k \in Nat /\ k <= Claimed(q)'
    BY <1>2, <2>2, Commands
  <2> QED BY <1>1, <2>2, <2>3, PlaceStays
<1>4. ASSUME \A q \in Producers : Claimed(q)' = Claimed(q), enqueue_pos' = enqueue_pos
      PROVE  InOrder'
  BY <1>1, <1>3, <1>4 DEF InOrder
<1>5. ASSUME NEW p \in Producers, PushOther(p), PushClaim(p)
      PROVE  InOrder'
  <2>0. PICK e \in Nat, c \in Nat : e = enqueue_pos /\ c = Claimed(p)
    BY <1>1, <1>2
  <2>1. /\ enqueue_pos' = e + 1 /\ c + 1 \in 1 .. Len(Program[p]) /\ entered'[e + 1] = Program[p][c + 1]
        /\ Claimed(p)' = c + 1
    BY <1>5, <2>0, ClaimAdds, ClaimedKeeps
  <2>2. \A q \in Producers \ {p} : Claimed(q)' = Claimed(q)
    <3> SUFFICES ASSUME NEW q \in Producers \ {p} PROVE ~PushClaim(q)
      BY ClaimedKeeps
    <3>1. pc \in [Threads -> {"idle", "push_seq", "push_cas", "push_reload", "push_write", "push_publish",
                              "pop_seq", "pop_cas", "pop_reload", "pop_read", "pop_release"}]
      BY DEF RingInv, IInv, TypeOK
    <3> QED BY <1>5, <3>1 DEF PushClaim, Goto, Producers
  <2>3. \A l \in 1 .. c : \E m \in 1 .. e : entered[m] = Program[p][l]
    BY <2>0 DEF InOrder
  <2>4. PlaceOf(e + 1, p, c + 1)'
    <3>1. \A l \in 1 .. c : \E m \in 1 .. e : entered'[m] = Program[p][l]
      BY <1>1, <2>0, <2>3
    <3>2. (c + 1) - 1 = c /\ (e + 1) - 1 = e
      OBVIOUS
    <3>3. entered'[e + 1] = Program[p][c + 1]
            /\ \A l \in 1 .. (c + 1) - 1 : \E m \in 1 .. (e + 1) - 1 : entered'[m] = Program[p][l]
      BY <2>1, <3>1, <3>2
    <3> QED BY <3>3 DEF PlaceOf
  <2>5. ASSUME NEW n \in 1 .. e + 1
        PROVE  \E q \in Producers : \E k \in DOMAIN Program[q] : k <= Claimed(q)' /\ PlaceOf(n, q, k)'
    <3>1. n \in 1 .. e \/ n = e + 1
      OBVIOUS
    <3>2. c + 1 \in DOMAIN Program[p] /\ c + 1 <= Claimed(p)'
      BY <2>1, Commands
    <3> QED BY <1>3, <2>0, <2>4, <3>1, <3>2
  <2>6. ASSUME NEW q \in Producers, NEW k \in 1 .. Claimed(q)'
        PROVE  \E n \in 1 .. e + 1 : entered'[n] = Program[q][k]
    <3>1. CASE k \in 1 .. Claimed(q)
      <4>1. PICK n \in 1 .. e : entered[n] = Program[q][k]
        BY <2>0, <3>1 DEF InOrder
      <4> QED BY <1>1, <2>0, <4>1
    <3>2. CASE k \notin 1 .. Claimed(q)
      <4>1. q = p /\ k = c + 1
        BY <1>2, <2>0, <2>1, <2>2, <3>2
      <4> QED BY <2>1, <4>1
    <3> QED BY <3>1, <3>2
  <2>7. ASSUME NEW n \in 1 .. e
        PROVE  entered[n] # Program[p][c + 1]
    <3>1. PICK q \in Producers : \E k \in DOMAIN Program[q] : k <= Claimed(q) /\ PlaceOf(n, q, k)
      BY <2>0 DEF InOrder
    <3>2. PICK k \in DOMAIN Program[q] : k <= Claimed(q) /\ entered[n] = Program[q][k]
      BY <3>1 DEF PlaceOf
    <3>3. c + 1 \in DOMAIN Program[p]
      BY <2>1, Commands
    <3>4. \A d \in DOMAIN Program[p] : Program[q][k] = Program[p][d] => q = p /\ k = d
      BY <3>2, CommandsAssumption
    <3>5. entered[n] = Program[p][c + 1] => q = p /\ k = c + 1
      BY <3>2, <3>3, <3>4
    <3> QED BY <2>0, <2>1, <3>2, <3>5
  <2>8. ASSUME NEW m \in 1 .. e + 1, NEW n \in 1 .. e + 1, entered'[m] = entered'[n]
        PROVE  m = n
    <3>1. (m \in 1 .. e \/ m = e + 1) /\ (n \in 1 .. e \/ n = e + 1)
      OBVIOUS
    <3>2. \A i, j \in 1 .. e : entered[i] = entered[j] => i = j
      BY <2>0 DEF InOrder
    <3> QED BY <1>1, <2>0, <2>1, <2>7, <2>8, <3>1, <3>2
  <2> QED BY <2>1, <2>5, <2>6, <2>8 DEF InOrder
<1>6. ASSUME ~ \E p \in Producers : PushOther(p) /\ PushClaim(p)
      PROVE  enqueue_pos' = enqueue_pos /\ \A q \in Producers : Claimed(q)' = Claimed(q)
  <2>1. enqueue_pos' = enqueue_pos
    BY <1>6 DEF CNext, cvars, vars, WorldStep, ProducerStep, PushCommand, PushBegin, PushAccepted,
           PushPublish, PushOther, PushSlotFree, PushFull, PushOvertaken, PushReload,
           PushClaimFails, PushWrite, DrainBegin, DrainContinue, PopBegin, DrainPop, PopSlotReady,
           PopOvertaken, PopReload, PopClaim, PopClaimFails, PopRead, DrainExecute, PopRelease,
           DrainEnd, PopNone, LenBegin, LenEnd
  <2> QED BY <1>6, <2>1, ClaimedKeeps
<1> QED BY <1>4, <1>5, <1>6

\* The drain executes what it pops before it pops the next.
LEMMA CopiedKeeps ==
  ASSUME RingInv, Roles, Copied, [CNext]_cvars
  PROVE  Copied'
<1>1. /\ TypeOK /\ World \in Threads /\ applied \in Seq(Values) /\ Len(applied) \in Nat
      /\ pos[World] \in Nat /\ dequeue_pos \in Nat
  BY WorldAssumption, LenProperties DEF RingInv, IInv, TypeOK, Roles
<1>2. /\ enqueue_pos \in Nat /\ dequeue_pos <= enqueue_pos
      /\ \A n \in 1 .. enqueue_pos : entered'[n] = entered[n]
  BY QueueUsesRing, EnteredStays
<1>3. \A n \in 1 .. Len(applied) : entered'[n] = applied[n]
  BY <1>1, <1>2 DEF Copied
<1>4. ASSUME applied' = applied, dequeue_pos' = dequeue_pos, Reading(World)' <=> Reading(World),
             Reading(World) => pos'[World] = pos[World]
      PROVE  Copied'
  BY <1>3, <1>4 DEF Copied
<1>5. CASE DrainExecute
  <2>1. /\ pc[World] = "pop_release" /\ pc'[World] = "idle" /\ dequeue_pos' = dequeue_pos
        /\ applied' = Append(applied, arg[World])
    BY <1>1, <1>5 DEF DrainExecute, PopRelease, Goto, TypeOK
  <2>2. /\ Reading(World) /\ ~Reading(World)'
    BY <2>1 DEF Reading
  <2>3. Len(applied) = pos[World] /\ pos[World] + 1 = dequeue_pos
    BY <2>2 DEF Copied
  <2>4. arg[World] = entered[dequeue_pos] /\ arg[World] \in Values
    BY <2>1, <2>3, ExecutesPushed
  <2>5. /\ Len(applied') = Len(applied) + 1 /\ applied'[Len(applied) + 1] = arg[World]
        /\ \A n \in 1 .. Len(applied) : applied'[n] = applied[n]
    BY <1>1, <2>1, <2>4, AppendProperties
  <2>6. entered'[dequeue_pos] = entered[dequeue_pos]
    BY <1>1, <1>2, <2>3
  <2>7. \A n \in 1 .. Len(applied') : n \in 1 .. Len(applied) \/ n = Len(applied) + 1
    BY <1>1, <2>5
  <2>8. \A n \in 1 .. Len(applied') : applied'[n] = entered'[n]
    BY <1>1, <1>3, <2>3, <2>4, <2>5, <2>6, <2>7
  <2> QED BY <1>1, <2>1, <2>2, <2>3, <2>5, <2>8 DEF Copied
<1>6. CASE DrainPop /\ PopClaim(World)
  <2>1. /\ pc[World] = "pop_cas" /\ pc'[World] = "pop_read" /\ pos'[World] = dequeue_pos
        /\ dequeue_pos' = dequeue_pos + 1 /\ applied' = applied
    BY <1>1, <1>6 DEF DrainPop, PopClaim, Goto, history, TypeOK
  <2>2. ~Reading(World) /\ Reading(World)'
    BY <2>1 DEF Reading
  <2> QED BY <1>1, <1>3, <2>1, <2>2 DEF Copied
<1>7. CASE DrainPop /\ ~PopClaim(World)
  <2>1. applied' = applied /\ dequeue_pos' = dequeue_pos /\ (Reading(World) => pos' = pos)
    BY <1>7 DEF DrainPop, history, PopSlotReady, PopOvertaken, PopReload, PopClaimFails, PopRead,
                Goto, Reading
  <2>2. Reading(World)' <=> Reading(World)
    BY <1>1, <1>7 DEF DrainPop, PopSlotReady, PopOvertaken, PopReload, PopClaimFails, PopRead,
                Goto, Reading, TypeOK
  <2> QED BY <1>4, <2>1, <2>2
<1>8. CASE DrainBegin \/ DrainContinue \/ DrainEnd
  <2>1. applied' = applied /\ dequeue_pos' = dequeue_pos
    BY <1>8 DEF DrainBegin, DrainContinue, DrainEnd, PopBegin, PopNone, history
  <2>2. ~Reading(World) /\ ~Reading(World)'
    BY <1>1, <1>8 DEF DrainBegin, DrainContinue, DrainEnd, PopBegin, PopNone, Goto, Reading, TypeOK
  <2> QED BY <1>4, <2>1, <2>2
<1>9. CASE LenBegin \/ (\E k \in Lengths : LenEnd(k)) \/ UNCHANGED cvars
  <2>1. UNCHANGED <<vars, applied>>
    BY <1>9 DEF LenBegin, LenEnd, cvars
  <2>2. UNCHANGED <<applied, dequeue_pos, pc, pos>>
    BY <2>1 DEF vars
  <2> QED BY <1>4, <2>2 DEF Reading
<1>10. ASSUME NEW p \in Producers, ProducerStep(p)
       PROVE  Copied'
  <2>1. applied' = applied /\ dequeue_pos' = dequeue_pos
    BY <1>10 DEF ProducerStep, PushCommand, PushBegin, PushAccepted,
             PushPublish, PushOther, PushSlotFree, PushFull, PushOvertaken, PushReload, PushClaim,
             PushClaimFails, PushWrite, history
  <2>2. pc'[World] = pc[World] /\ pos'[World] = pos[World]
    BY <1>1, <1>10 DEF Producers, ProducerStep, PushCommand, PushBegin, PushAccepted,
             PushPublish, PushOther, PushSlotFree, PushFull, PushOvertaken, PushReload, PushClaim,
             PushClaimFails, PushWrite, Goto, TypeOK
  <2> QED BY <1>4, <2>1, <2>2 DEF Reading
<1> QED BY <1>5, <1>6, <1>7, <1>8, <1>9, <1>10 DEF CNext, WorldStep

\* Every step of the composition keeps the invariant.
LEMMA StepQueue == CInv /\ [CNext]_cvars => CInv'
<1> SUFFICES ASSUME CInv, [CNext]_cvars PROVE CInv'
  OBVIOUS
<1>1. RingInv'
  BY QueueUsesRing, StepRing DEF CInv
<1>2. Pending' /\ InOrder' /\ Copied'
  BY PendingKeeps, InOrderKeeps, CopiedKeeps DEF CInv
<1> QED BY <1>1, <1>2, RolesKeep, SettledKeeps, ExecutedKeeps, RememberedKeeps DEF CInv

----------------------------------------------------------------------------
(* The results *)

\* The history of the ring and that of the queue agree: what the drain has
\* passed is executed, and what a push has reported stands in its place.
THEOREM QueueInvariant == CSpec => []CInv
BY InitQueue, StepQueue, PTL DEF CSpec

\* The queue uses its ring only as MpmcQueue allows, so that every theorem about
\* the ring is one about the queue's ring (queue.rs:262-285).
THEOREM UsesRing == CSpec => Spec
<1>1. CInit => Init
  BY DEF CInit
<1>2. CInv /\ [CNext]_cvars => [Next]_vars
  BY QueueUsesRing DEF CInv
<1> QED BY <1>1, <1>2, QueueInvariant, PTL DEF CSpec, Spec

\* A pop finds nothing only at the position that the pops have reached.
LEMMA NoneAtHead ==
  ASSUME RingInv, NEW t \in Threads, PopNone(t)
  PROVE  /\ pos[t] = dequeue_pos
         /\ dequeue_pos < enqueue_pos
              => \E u \in Threads : Writing(u) /\ pos[u] = dequeue_pos
<1>1. /\ TypeOK /\ LocalCopies /\ Passed /\ Filled
      /\ pc[t] = "pop_seq" /\ sequence[Slot(pos[t])] < pos[t] + 1
  BY DEF RingInv, IInv, PopNone, Goto
<1>2. pos[t] \in Nat /\ dequeue_pos \in Nat /\ enqueue_pos \in Nat /\ pos[t] <= dequeue_pos
  BY <1>1 DEF TypeOK, LocalCopies
<1>3. Slot(pos[t]) \in Slots
  BY <1>2, SlotFacts
<1>4. sequence[Slot(pos[t])] \in Nat
  BY <1>1, <1>3 DEF TypeOK
<1>5. pos[t] = dequeue_pos
  BY <1>1, <1>2, <1>4 DEF Passed
<1> QED BY <1>1, <1>2, <1>4, <1>5 DEF Filled

\* drain leaves a waiting command only behind a push that is half way, for any
\* number of producers (queue.rs:266-274).
THEOREM OnlyBehindHalfPush == CSpec => LeftBehindHalfPush
<1>1. ASSUME CInv, DrainEnd, NEW c \in backlog \ ToSet(applied)
      PROVE  \E p \in Producers : /\ Writing(p)
                                  /\ \E n \in DOMAIN entered : entered[n] = c /\ pos[p] < n - 1
  <2>1. /\ World \in Threads /\ Producers = Threads \ {World} /\ RingInv
        /\ PopNone(World) /\ pc[World] = "pop_seq"
    BY <1>1, WorldAssumption DEF Producers, CInv, DrainEnd, PopNone, Goto
  <2>2. ~ Writing(World) /\ ~ Reading(World)
    BY <2>1 DEF Writing, Reading
  <2>3. /\ enqueue_pos \in Nat /\ dequeue_pos \in Nat
        /\ DOMAIN entered = 1 .. enqueue_pos
    <3>1. TypeOK /\ Counters
      BY <2>1 DEF RingInv, IInv
    <3>2. entered \in Seq(Values) /\ Len(entered) = enqueue_pos
      BY <3>1 DEF TypeOK, Counters
    <3> QED BY <3>1, <3>2, LenProperties DEF TypeOK
  <2>4. PICK n \in 1 .. enqueue_pos :
               entered[n] = c /\ ~ \E t \in Threads : Writing(t) /\ pos[t] = n - 1
    BY <1>1 DEF CInv, Settled, Remembered
  <2>5. n \notin 1 .. dequeue_pos
    BY <1>1, <2>2, <2>4 DEF CInv, Executed
  <2>6. PICK u \in Threads : Writing(u) /\ pos[u] = dequeue_pos
    BY <2>1, <2>3, <2>4, <2>5, NoneAtHead
  <2>7. pos[u] < n - 1
    BY <2>3, <2>4, <2>5, <2>6
  <2> QED BY <2>1, <2>2, <2>3, <2>4, <2>6, <2>7
<1>2. CInv /\ [CNext]_cvars
        => [DrainEnd => \A c \in backlog \ ToSet(applied) :
              \E p \in Producers : /\ Writing(p)
                                   /\ \E n \in DOMAIN entered : entered[n] = c /\ pos[p] < n - 1]_cvars
  BY <1>1
<1> QED BY <1>2, QueueInvariant, PTL DEF CSpec, LeftBehindHalfPush

\* is_empty() hides no command from the thread that drains, although it reads
\* the two positions one after the other (queue.rs:198-207).
THEOREM NothingHidden == CSpec => EmptyHidesNothing
<1>1. ASSUME CInv, LenEnd(0)
      PROVE  backlog = {}
  <2>1. asked # NotAsked /\ asked = dequeue_pos /\ ~ Reading(World)
    <3>1. TypeOK /\ asked # NotAsked /\ asked - dequeue_pos = 0 /\ asked \in Nat /\ dequeue_pos \in Nat
      BY <1>1 DEF LenEnd, CInv, RingInv, IInv, TypeOK, Remembered
    <3>2. pc[World] = "idle"
      BY <1>1, <3>1 DEF CInv, Roles
    <3> QED BY <3>1, <3>2 DEF Reading
  <2> QED BY <1>1, <2>1 DEF CInv, Executed, Remembered
<1>2. CInv /\ [CNext]_cvars => [LenEnd(0) => backlog = {}]_cvars
  BY <1>1
<1> QED BY <1>2, QueueInvariant, PTL DEF CSpec, EmptyHidesNothing

\* No command is executed twice or without having been pushed, each after all that its
\* producer pushed before it, and none that was accepted is left once the places are
\* drained, for any number of producers (queue.rs:102, 266-274).
THEOREM EachExecutedOnce == CSpec => []ExecutedOnce
<1>1. CInv => ExecutedOnce
  <2> SUFFICES ASSUME CInv PROVE ExecutedOnce
    OBVIOUS
  <2>1. /\ RingInv /\ TypeOK /\ Roles /\ Copied /\ InOrder /\ World \in Threads
        /\ enqueue_pos \in Nat /\ dequeue_pos \in Nat /\ dequeue_pos <= enqueue_pos
        /\ Len(applied) \in Nat /\ DOMAIN applied = 1 .. Len(applied)
    <3>1. RingInv /\ TypeOK /\ Counters /\ Roles /\ Copied /\ InOrder
      BY DEF CInv, RingInv, IInv
    <3>2. applied \in Seq(Values)
      BY <3>1 DEF Roles
    <3> QED BY <3>1, <3>2, WorldAssumption, LenProperties DEF TypeOK, Counters
  <2>2. /\ Len(applied) <= enqueue_pos
        /\ \A n \in 1 .. Len(applied) : applied[n] = entered[n]
    <3>1. pos[World] \in Nat
      BY <2>1 DEF TypeOK
    <3> QED BY <2>1, <3>1 DEF Copied
  <2>3. ASSUME NEW i \in DOMAIN applied, NEW j \in DOMAIN applied, applied[i] = applied[j]
        PROVE  i = j
    <3>1. i \in 1 .. enqueue_pos /\ j \in 1 .. enqueue_pos /\ entered[i] = entered[j]
      BY <2>1, <2>2, <2>3
    <3> QED BY <2>1, <3>1 DEF InOrder
  <2>4. ASSUME NEW i \in DOMAIN applied
        PROVE  \E p \in Producers : \E k \in DOMAIN Program[p] :
                 /\ applied[i] = Program[p][k]
                 /\ \A l \in 1 .. k - 1 : \E j \in 1 .. i - 1 : applied[j] = Program[p][l]
    <3>1. i \in 1 .. enqueue_pos /\ applied[i] = entered[i]
          /\ \A j \in 1 .. i - 1 : applied[j] = entered[j]
      BY <2>1, <2>2
    <3>2. PICK p \in Producers : \E k \in DOMAIN Program[p] : k <= Claimed(p) /\ PlaceOf(i, p, k)
      BY <2>1, <3>1 DEF InOrder
    <3>3. PICK k \in DOMAIN Program[p] : PlaceOf(i, p, k)
      BY <3>2
    <3> QED BY <3>1, <3>3 DEF PlaceOf
  <2>5. ASSUME enqueue_pos = dequeue_pos, ~Reading(World)
        PROVE  Waiting = {} /\ \A p \in Producers : pc[p] # "push_write"
    <3>1. Waiting = {}
      <4> SUFFICES ASSUME NEW c \in ToSet(accepted) PROVE c \in ToSet(applied)
        BY DEF Waiting
      <4>1. PICK n \in 1 .. enqueue_pos : entered[n] = c
        BY DEF CInv, Settled
      <4> QED BY <2>5, <4>1 DEF CInv, Executed
    <3>2. ASSUME NEW p \in Producers, pc[p] = "push_write"
          PROVE  FALSE
      <4>1. p \in Threads /\ Writing(p)
        BY <3>2 DEF Producers, Writing
      <4>2. /\ pos[p] \in Nat /\ pos[p] < enqueue_pos /\ sequence[Slot(pos[p])] = pos[p]
        BY <2>1, <4>1 DEF RingInv, IInv, Owners, TypeOK
      <4>3. pos[p] < sequence[Slot(pos[p])]
        BY <2>1, <2>5, <4>2 DEF RingInv, Passed
      <4> QED BY <4>2, <4>3
    <3> QED BY <3>1, <3>2
  <2> QED BY <2>3, <2>4, <2>5 DEF ExecutedOnce
<1> QED BY <1>1, QueueInvariant, PTL
=============================================================================
