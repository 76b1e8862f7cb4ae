----------------------------- MODULE EntityStore ----------------------------
(***************************************************************************)
(* What the worlds of the ECS promise of their entities: each world maps   *)
(* the entities alive in it to the values of their components.  A spawned  *)
(* entity starts from the defaults, a value stays with its entity until it *)
(* is set, removed or moved away with it, and nothing else happens to it   *)
(* when other entities come and go.                                        *)
(***************************************************************************)
CONSTANTS
  Worlds,      \* the worlds
  Components,  \* component types
  Values,      \* their values
  Default      \* the default, or no value

VARIABLES
  store,       \* store[w]: live entity, a record with a slot -> component -> value
  answer       \* what a migration returned, if that was the last operation

svars == <<store, answer>>

Blank == [c \in Components |-> Default]

With(f, h, x) == [k \in DOMAIN f \cup {h} |-> IF k = h THEN x ELSE f[k]]
Without(f, h) == [k \in DOMAIN f \ {h} |-> f[k]]

Init ==
  /\ store = [w \in Worlds |-> <<>>]
  /\ answer = "none"

Spawn(w, h) ==
  /\ answer' = "none"
  /\ store' = [store EXCEPT ![w] = With(@, h, Blank)]

Set(w, h, c, v) ==
  /\ answer' = "none"
  /\ store'[w][h][c] = v
  /\ store' = [store EXCEPT ![w][h][c] = v]

Despawn(w, h) ==
  /\ answer' = "none"
  /\ store' = [store EXCEPT ![w] = Without(@, h)]

\* The entity goes over with all its values and keeps its handle unless the
\* slot is taken there; only a migration that fails may leave values behind.
Migrate(v, w, h, new, lost) ==
  /\ answer' = IF lost = {} THEN "ok" ELSE "failed"
  /\ new = h \/ \E x \in DOMAIN store[w] : x.slot = h.slot
  /\ store' = [store EXCEPT
       ![v] = Without(@, h),
       ![w] = With(@, new, [c \in Components |-> IF c \in lost THEN Default
                                                 ELSE store[v][h][c]])]

\* The entities that come to w in a step, and those that go.
New(w)  == DOMAIN store'[w] \ DOMAIN store[w]
Gone(w) == DOMAIN store[w] \ DOMAIN store'[w]

Next ==
  \/ \E w \in Worlds :
       \/ \E h \in New(w) : Spawn(w, h)
       \/ \E h \in Gone(w) : Despawn(w, h)
       \/ \E h \in DOMAIN store[w] \ Gone(w), c \in Components, x \in Values \cup {Default} :
            Set(w, h, c, x)
  \/ \E v \in Worlds : \E w \in Worlds \ {v} :
       \E h \in Gone(v), new \in New(w), lost \in SUBSET Components :
         Migrate(v, w, h, new, lost)

Spec == Init /\ [][Next]_svars
=============================================================================
