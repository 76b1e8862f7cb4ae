----------------------------- MODULE MCServerLoop -----------------------------
(* Three worlds on two workers, two threads that share the scheduler, two commands. *)
EXTENDS ServerLoop

CONSTANTS caller1, caller2, cmd1, cmd2
===============================================================================
