----------------------------- MODULE MCNetwork ------------------------------
(* Two connections that share the inbound channel: one logs in or is        *)
(* refused, the other is refused.  A single one logs in or asks for the     *)
(* status.                                                                  *)
EXTENDS Network

CONSTANTS c1, c2

ConnSet == {c1, c2}
First == {c1}
Nobody == {}

Mixed == [c \in ConnSet |-> IF c = c1 THEN {"IntendLogin", "DirectLogin"}
                                      ELSE {"DirectLogin"}]
Visits == [c \in First |-> {"IntendLogin", "IntendStatus"}]
Direct == [c \in First |-> {"DirectLogin"}]
=============================================================================
