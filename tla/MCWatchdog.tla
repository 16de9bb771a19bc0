------------------------------ MODULE MCWatchdog ------------------------------
(* Instances for TLC: a group of one instance, which is replaced once. *)
EXTENDS Watchdog

MCInstances == 1 .. 2
==============================================================================
