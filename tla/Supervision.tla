----------------------------- MODULE Supervision ------------------------------
(***************************************************************************)
(* What the watchdog of an auto-scaling group promises, without its script *)
(* and its file: lib/helpers/docker-service-init.ts:129-133 and            *)
(* lib/helpers/asg-ec2-go-launcher.ts:112-114.  An instance may be given   *)
(* up once Threshold probes in a row found its service down, it is         *)
(* replaced only after that, and neither is taken back.  A crash of the    *)
(* instance takes the row back to what was recorded of it: it forgets      *)
(* failed and successful probes alike, and makes up none.                  *)
(***************************************************************************)
EXTENDS Naturals

CONSTANTS Instances, Threshold

VARIABLES
  misses,    \* of each instance: failed probes since one succeeded, up to Threshold
  recorded,  \* what a crash takes that back to
  givenUp,   \* the instances held for Unhealthy
  replaced   \* the instances that were replaced

vars == <<misses, recorded, givenUp, replaced>>

Init ==
  /\ misses = [i \in Instances |-> 0]
  /\ recorded = misses
  /\ givenUp = {}
  /\ replaced = {}

Answers(i) ==
  /\ misses' = [misses EXCEPT ![i] = 0]
  /\ UNCHANGED <<recorded, givenUp, replaced>>

Misses(i) ==
  /\ misses' = [misses EXCEPT ![i] = IF @ < Threshold THEN @ + 1 ELSE @]
  /\ UNCHANGED <<recorded, givenUp, replaced>>

Record(i) ==
  /\ recorded' = [recorded EXCEPT ![i] = misses[i]]
  /\ UNCHANGED <<misses, givenUp, replaced>>

Crash(i) ==
  /\ misses' = [misses EXCEPT ![i] = recorded[i]]
  /\ UNCHANGED <<recorded, givenUp, replaced>>

GiveUp(i) ==
  /\ misses[i] = Threshold
  /\ givenUp' = givenUp \cup {i}
  /\ UNCHANGED <<misses, recorded, replaced>>

Replace(i) ==
  /\ i \in givenUp
  /\ replaced' = replaced \cup {i}
  /\ misses' = [misses EXCEPT ![i] = 0]
  /\ recorded' = [recorded EXCEPT ![i] = 0]
  /\ UNCHANGED givenUp

\* What was replaced is gone, with what it knew.
Next ==
  \E i \in Instances :
    \/ i \notin replaced /\ (Answers(i) \/ Misses(i) \/ Record(i) \/ Crash(i) \/ GiveUp(i))
    \/ Replace(i)

Spec == Init /\ [][Next]_vars
==============================================================================
