----------------------------- MODULE ChunkTable -----------------------------
(***************************************************************************)
(* What a store of chunks promises: a table from the coordinates of the    *)
(* loaded chunks to their blocks.  An operation changes the blocks of one  *)
(* chunk, or of all chunks of a bulk edit at once; then the table forgets  *)
(* chunks, but only while there are more than the limit allows, and no     *)
(* more than that.  A bulk edit is seen by nobody before it is committed.  *)
(***************************************************************************)
EXTENDS Integers, FiniteSets

CONSTANTS
  Coords,      \* coordinates of chunks
  Cells,       \* cells of a chunk
  Contents,    \* blocks that a chunk may come with, cell -> block
  Ids,         \* blocks
  Unlimited    \* the limit that is none

VARIABLES
  table,       \* loaded chunk -> cell -> block
  limit,       \* chunks that may stay loaded
  draft,       \* the chunks of the bulk edit and their blocks
  backup       \* what the loader has saved

tvars == <<table, limit, draft, backup>>

Over(f, g) == [c \in DOMAIN f \cup DOMAIN g |-> IF c \in DOMAIN f THEN f[c] ELSE g[c]]

\* The table becomes t, but for the chunks in excess of the limit.
Trimmed(t) ==
  LET after == table'
      all   == Cardinality(DOMAIN t)
  IN  /\ Cardinality(DOMAIN after) = IF limit = Unlimited \/ all <= limit THEN all ELSE limit
      /\ \A c \in DOMAIN after : c \in DOMAIN t /\ after[c] = t[c]

TInit ==
  /\ table = <<>> /\ limit = Unlimited /\ draft = <<>> /\ backup = <<>>

\* What is done to the table.
Put(c, blocks)  == Trimmed(Over([k \in {c} |-> blocks], table))
Write(c, i, id) == c \in DOMAIN table /\ Trimmed([table EXCEPT ![c][i] = id])
Drop(c)         == table' = [k \in DOMAIN table \ {c} |-> table[k]]
Restore         == table' = Over(backup, table)

\* What is done to a bulk edit.
Draft(c, blocks) == draft' = Over([k \in {c} |-> blocks], draft)
Abandon          == draft' = <<>>
Commit           == Trimmed(Over(draft, table)) /\ draft' = <<>>

Save     == backup' = Over(table, backup)
SetLimit == limit' \in Nat \cup {Unlimited}

TNext ==
  \/ UNCHANGED <<table, draft, backup>> /\ SetLimit
  \/ UNCHANGED <<table, limit, draft>> /\ Save
  \/ /\ UNCHANGED <<table, limit, backup>>
     /\ Abandon \/ \E c \in Coords, blocks \in Contents : Draft(c, blocks)
  \/ /\ UNCHANGED <<limit, draft, backup>>
     /\ \/ Restore
        \/ \E c \in Coords : Drop(c) \/ \E blocks \in Contents : Put(c, blocks)
        \/ \E c \in Coords, i \in Cells, id \in Ids : Write(c, i, id)
  \/ UNCHANGED <<limit, backup>> /\ Commit

TSpec == TInit /\ [][TNext]_tvars
=============================================================================
