------------------------------- MODULE MCTime -------------------------------
(* Time for TLC: a repeated event and two calls' timers, one short, one long. *)
EXTENDS Time

CONSTANTS keepalive, short, long

MCInterval == [e \in Events |-> IF e = short THEN 1 ELSE IF e = long THEN 2 ELSE 2]
=============================================================================
