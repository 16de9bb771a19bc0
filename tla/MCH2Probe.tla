------------------------------- MODULE MCH2Probe ------------------------------
(***************************************************************************)
(* An instance of H2Probe for TLC.  Goroutines share nothing but the       *)
(* table, in which each has its own item: one connection is enough.        *)
(***************************************************************************)
EXTENDS H2Probe
===============================================================================
