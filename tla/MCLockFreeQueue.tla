-------------------------- MODULE MCLockFreeQueue --------------------------
(* LockFreeQueue with two producers, two consumers and two nodes: each     *)
(* node is used for two laps, and every pair of roles races.               *)
EXTENDS LockFreeQueue
=============================================================================
