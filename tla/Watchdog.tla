------------------------------- MODULE Watchdog -------------------------------
(***************************************************************************)
(* The life of the instances of one auto-scaling group: the user data and  *)
(* the watchdog of lib/helpers/docker-service-init.ts, the group of        *)
(* lib/helpers/asg-ec2-go-launcher.ts, and the /health handlers of the     *)
(* probes.                                                                 *)
(*                                                                         *)
(* User data runs once, at the first boot, under `set -e`.  Afterwards     *)
(* systemd keeps the service running and runs the watchdog's script every  *)
(* minute, never twice at a time.  One action is one command of the script *)
(* with the shell code up to the next command; between two commands        *)
(* anything may happen to the service, to the machine and to the group.    *)
(***************************************************************************)
EXTENDS Naturals, Sequences, FiniteSets

CONSTANTS
  Instances,       \* the instances the group may launch
  MinCapacity,     \* how many it keeps
  RuntimeSecrets,  \* the secrets to fetch at boot
  MaxFaults        \* bound: failed commands, timed-out probes, reboots

ASSUME InstancesAssumption == IsFiniteSet(Instances)
ASSUME MinCapacityAssumption == MinCapacity \in Nat
ASSUME MaxFaultsAssumption == MaxFaults \in Nat

VARIABLES
  selfProbes,  \* does /health dial :443?  The TCP and HTTP/2 probes do, STUN does not
  phase,       \* of each instance, for the group: absent, in service, replaced
  userData,    \* the step user data is at
  completed,   \* the steps of user data that succeeded: what is on the machine
  service,     \* the process of the probe
  pc,          \* the command the watchdog's script is at
  fails,       \* the script's variable
  count,       \* the number in FAIL_FILE, as it is read
  saved,       \* what of it has reached the disk
  graced,      \* is the group's grace period running?
  unhealthy,   \* does the group hold the instance for Unhealthy?
  streak,      \* history: failed probes since the last successful one, up to Threshold,
               \* of those that no crash made the machine forget
  faults       \* faults so far

machine == <<phase, userData, completed>>
script == <<pc, fails, count, saved, streak>>
group == <<graced, unhealthy>>
vars == <<selfProbes, machine, service, script, group, faults>>

Threshold == 3

Steps == <<"docker", "login", "pull", "secrets", "service", "watchdog">>
Preparation == {"docker", "login", "pull", "secrets"}
StepSet == {Steps[n] : n \in DOMAIN Steps}
Over == Len(Steps) + 1

MetadataCalls == {"token", "instanceId", "region"}
Commands == {"idle", "probe", "mark", "reset"} \cup MetadataCalls

TypeOK ==
  /\ selfProbes \in BOOLEAN
  /\ phase \in [Instances -> {"absent", "inService", "replaced"}]
  /\ userData \in [Instances -> 1 .. Over]
  /\ completed \in [Instances -> SUBSET StepSet]
  /\ service \in [Instances -> {"none", "up", "hung", "dead"}]
  /\ pc \in [Instances -> Commands]
  /\ fails \in [Instances -> Nat]
  /\ count \in [Instances -> Nat]
  /\ saved \in [Instances -> [count : Nat, streak : 0 .. Threshold]]
  /\ graced \in [Instances -> BOOLEAN]
  /\ unhealthy \in [Instances -> BOOLEAN]
  /\ streak \in [Instances -> 0 .. Threshold]
  /\ faults \in Nat

\* Without the file, or with an empty one, the count is zero.
NothingSaved == [count |-> 0, streak |-> 0]

Init ==
  /\ selfProbes \in BOOLEAN
  /\ phase = [i \in Instances |-> "absent"]
  /\ userData = [i \in Instances |-> 1]
  /\ completed = [i \in Instances |-> {}]
  /\ service = [i \in Instances |-> "none"]
  /\ pc = [i \in Instances |-> "idle"]
  /\ fails = [i \in Instances |-> 0]
  /\ count = [i \in Instances |-> 0]
  /\ saved = [i \in Instances |-> NothingSaved]
  /\ graced = [i \in Instances |-> TRUE]
  /\ unhealthy = [i \in Instances |-> FALSE]
  /\ streak = [i \in Instances |-> 0]
  /\ faults = 0

InService(i) == phase[i] = "inService"
Fault == faults < MaxFaults /\ faults' = faults + 1
NoFault == UNCHANGED faults

\* The machine goes down.
ServiceStops(i) ==
  service' = [service EXCEPT ![i] = IF @ = "none" THEN @ ELSE "dead"]

------------------------------------------------------------------------------
(* The auto-scaling group (external, as the launcher configures it). *)

Launch(i) ==
  /\ phase[i] = "absent"
  /\ Cardinality({j \in Instances : InService(j)}) < MinCapacity
  /\ phase' = [phase EXCEPT ![i] = "inService"]
  /\ UNCHANGED <<selfProbes, userData, completed, service, script, group, faults>>

GraceEnds(i) ==
  /\ InService(i) /\ graced[i]
  /\ graced' = [graced EXCEPT ![i] = FALSE]
  /\ UNCHANGED <<selfProbes, machine, service, script, unhealthy, faults>>

\* The group looks at EC2's status checks only, so that an instance becomes
\* Unhealthy by the watchdog's call alone.  It is terminated, with all that runs
\* on it and is on its disk.
Replace(i) ==
  /\ InService(i) /\ unhealthy[i]
  /\ phase' = [phase EXCEPT ![i] = "replaced"]
  /\ ServiceStops(i)
  /\ pc' = [pc EXCEPT ![i] = "idle"]
  /\ fails' = [fails EXCEPT ![i] = 0]
  /\ count' = [count EXCEPT ![i] = 0]
  /\ saved' = [saved EXCEPT ![i] = NothingSaved]
  /\ streak' = [streak EXCEPT ![i] = 0]
  /\ UNCHANGED <<selfProbes, userData, completed, group, faults>>

\* Faulty variant: the policy of the watchdog is forgotten.
SecretsOnly == IF RuntimeSecrets # {} THEN {"GetSecretValue"} ELSE {}

\* The actions the instance's role is allowed, of those modelled here.
Grants == {"SetInstanceHealth"} \cup
          (IF RuntimeSecrets # {} THEN {"GetSecretValue"} ELSE {})

------------------------------------------------------------------------------
(* User data. *)

Running(i) == InService(i) /\ userData[i] < Over

StepSucceeds(i) ==
  LET step == Steps[userData[i]]
  IN /\ Running(i)
     /\ (step = "secrets" /\ RuntimeSecrets # {}) => "GetSecretValue" \in Grants
     /\ completed' = [completed EXCEPT ![i] = @ \cup {step}]
     /\ userData' = [userData EXCEPT ![i] = @ + 1]
     /\ service' = IF step = "service" THEN [service EXCEPT ![i] = "up"] ELSE service
     /\ UNCHANGED <<selfProbes, phase, script, group, faults>>

\* Faulty variant: without `set -e`, user data goes on after a failed command.
StepSkipped(i) ==
  /\ Running(i)
  /\ userData' = [userData EXCEPT ![i] = @ + 1]
  /\ Fault
  /\ UNCHANGED <<selfProbes, phase, completed, service, script, group>>

\* Faulty variant: what fails takes the command after it along, as in a && b.
StepFailsWithNext(i) ==
  /\ Running(i)
  /\ userData' = [userData EXCEPT ![i] = @ + 2]
  /\ Fault
  /\ UNCHANGED <<selfProbes, phase, completed, service, script, group>>

\* set -euo pipefail: a command that fails ends user data.
StepFails(i) ==
  /\ Running(i)
  /\ userData' = [userData EXCEPT ![i] = Over]
  /\ Fault
  /\ UNCHANGED <<selfProbes, phase, completed, service, script, group>>

------------------------------------------------------------------------------
(* The service and the machine. *)

ServiceTurns(i, from, to) ==
  /\ InService(i) /\ service[i] \in from
  /\ service' = [service EXCEPT ![i] = to]
  /\ UNCHANGED <<selfProbes, machine, script, group, faults>>

\* A failed Accept ends the process, a silent client blocks the listener.
Dies(i) == ServiceTurns(i, {"up", "hung"}, "dead")
Hangs(i) == ServiceTurns(i, {"up"}, "hung")
Recovers(i) == ServiceTurns(i, {"hung"}, "up")

\* Restart=always, RestartSec=5.
Restart(i) == ServiceTurns(i, {"dead"}, "up")

\* FAIL_FILE, and what its number stands for.
File(i) == [count |-> count[i], streak |-> streak[i]]

\* The kernel writes back, in its own time: nothing in the script syncs.
WriteBack(i) ==
  /\ InService(i) /\ saved[i] # File(i)
  /\ saved' = [saved EXCEPT ![i] = File(i)]
  /\ UNCHANGED <<selfProbes, machine, service, pc, fails, count, streak, group, faults>>

\* FAIL_FILE after a reboot: an orderly one keeps it; a crash brings back what was
\* on the disk, be it larger or smaller, or the file truncated by the next write,
\* which counts as zero.
Surviving(i) ==
  {File(i), saved[i]}
    \cup (IF saved[i] = File(i) THEN {} ELSE {[count |-> 0, streak |-> streak[i]]})

\* User data is not run again, the enabled units are.
Reboot(i) ==
  /\ InService(i)
  /\ Fault
  /\ userData' = [userData EXCEPT ![i] = Over]
  /\ ServiceStops(i)
  /\ pc' = [pc EXCEPT ![i] = "idle"]
  /\ \E f \in Surviving(i) :
       /\ count' = [count EXCEPT ![i] = f.count]
       /\ streak' = [streak EXCEPT ![i] = f.streak]
       /\ saved' = [saved EXCEPT ![i] = f]
  /\ UNCHANGED <<selfProbes, phase, completed, fails, group>>

------------------------------------------------------------------------------
(* probe-watchdog.sh. *)

\* /health answers 200: the dial of :443 completes its handshake, or there is
\* no dial.
Healthy(i) ==
  \/ service[i] = "up"
  \/ service[i] = "hung" /\ ~selfProbes

Goto(i, command) == pc' = [pc EXCEPT ![i] = command]
AtCommand(i, command) == InService(i) /\ pc[i] = command

\* The timer fires, and the script reads FAIL_FILE.
ReadCount(i) ==
  /\ AtCommand(i, "idle") /\ "watchdog" \in completed[i]
  /\ fails' = [fails EXCEPT ![i] = count[i]]
  /\ Goto(i, "probe")
  /\ UNCHANGED <<selfProbes, machine, service, count, saved, streak, group, faults>>

\* Faulty variant: a success leaves the count.
ProbeKeepsCount(i) ==
  /\ AtCommand(i, "probe") /\ Healthy(i)
  /\ Goto(i, "idle")
  /\ streak' = [streak EXCEPT ![i] = 0]
  /\ UNCHANGED <<selfProbes, machine, service, fails, count, saved, group, faults>>

ProbeSucceeds(i) ==
  /\ AtCommand(i, "probe") /\ Healthy(i)
  /\ count' = [count EXCEPT ![i] = 0]
  /\ streak' = [streak EXCEPT ![i] = 0]
  /\ Goto(i, "idle")
  /\ UNCHANGED <<selfProbes, machine, service, fails, saved, group, faults>>

\* Faulty variant: gives the group a service that missed two probes.
ProbeFailsTwice(i) ==
  /\ AtCommand(i, "probe")
  /\ IF Healthy(i) THEN Fault ELSE NoFault
  /\ fails' = [fails EXCEPT ![i] = @ + 1]
  /\ count' = [count EXCEPT ![i] = fails[i] + 1]
  /\ streak' = [streak EXCEPT ![i] = IF @ < Threshold THEN @ + 1 ELSE @]
  /\ Goto(i, IF fails[i] + 2 >= Threshold THEN "token" ELSE "idle")
  /\ UNCHANGED <<selfProbes, machine, service, saved, group>>

\* Nobody listens, the answer is 503, or it takes longer than curl waits.
ProbeFails(i) ==
  /\ AtCommand(i, "probe")
  /\ IF Healthy(i) THEN Fault ELSE NoFault
  /\ fails' = [fails EXCEPT ![i] = @ + 1]
  /\ count' = [count EXCEPT ![i] = fails[i] + 1]
  /\ streak' = [streak EXCEPT ![i] = IF @ < Threshold THEN @ + 1 ELSE @]
  /\ Goto(i, IF fails[i] + 1 >= Threshold THEN "token" ELSE "idle")
  /\ UNCHANGED <<selfProbes, machine, service, saved, group>>

After == [token |-> "instanceId", instanceId |-> "region", region |-> "mark"]

\* A call of the metadata service; if it fails, so does the script, and the
\* count stays.
Metadata(i) ==
  /\ InService(i) /\ pc[i] \in MetadataCalls
  /\ \/ NoFault /\ Goto(i, After[pc[i]])
     \/ Fault /\ Goto(i, "idle")
  /\ UNCHANGED <<selfProbes, machine, service, fails, count, saved, streak, group>>

\* set-instance-health || true.  During the grace period the group accepts the
\* call and ignores it.
SetInstanceHealth(i) ==
  /\ AtCommand(i, "mark")
  /\ \/ /\ "SetInstanceHealth" \in Grants
        /\ NoFault
        /\ unhealthy' = IF graced[i] THEN unhealthy ELSE [unhealthy EXCEPT ![i] = TRUE]
     \/ /\ "SetInstanceHealth" \notin Grants
        /\ NoFault /\ UNCHANGED unhealthy
     \/ Fault /\ UNCHANGED unhealthy
  /\ Goto(i, "reset")
  /\ UNCHANGED <<selfProbes, machine, service, fails, count, saved, streak, graced>>

ResetCount(i) ==
  /\ AtCommand(i, "reset")
  /\ count' = [count EXCEPT ![i] = 0]
  /\ Goto(i, "idle")
  /\ UNCHANGED <<selfProbes, machine, service, fails, saved, streak, group, faults>>

ScriptStep(i) ==
  \/ ReadCount(i) \/ ProbeSucceeds(i) \/ ProbeFails(i) \/ Metadata(i)
  \/ SetInstanceHealth(i) \/ ResetCount(i)

------------------------------------------------------------------------------
InstanceStep(i) ==
  \/ Launch(i) \/ GraceEnds(i) \/ Replace(i)
  \/ StepSucceeds(i) \/ StepFails(i)
  \/ Dies(i) \/ Hangs(i) \/ Recovers(i) \/ Restart(i)
  \/ WriteBack(i) \/ Reboot(i)
  \/ ScriptStep(i)

\* Instances without service and watchdog stay as they are, for ever.
NothingLeft ==
  /\ \A i \in Instances :
       \/ phase[i] # "inService"
       \/ userData[i] = Over /\ service[i] = "none"
  /\ UNCHANGED vars

Next == (\E i \in Instances : InstanceStep(i)) \/ NothingLeft

Spec == Init /\ [][Next]_vars

\* systemd restarts the service and runs the script, whose commands have
\* time-outs; the grace period ends, and the group replaces what is Unhealthy.
Fairness ==
  \A i \in Instances :
    /\ WF_vars(Restart(i)) /\ WF_vars(ScriptStep(i))
    /\ WF_vars(GraceEnds(i)) /\ WF_vars(Replace(i))

FairSpec == Spec /\ Fairness

------------------------------------------------------------------------------
(* Properties. *)

\* "After 3 consecutive failures": whatever commands failed, whoever is about to
\* call the group, or will after the next failed probe, has seen that many probes
\* fail in a row.  A crash may undo what was not on the disk: a successful probe
\* that it undid does not interrupt the row, but no crash and no loss adds a
\* failed probe that was never made.
CountIsHonest ==
  \A i \in Instances :
    /\ count[i] <= streak[i] \/ streak[i] = Threshold
    /\ pc[i] \in MetadataCalls \cup {"mark"} => streak[i] = Threshold

\* "mark this instance Unhealthy in its ASG so it gets replaced": the script,
\* its file, the disk, reboots and the group together implement Supervision.  No
\* instance is given up unless it missed three probes in a row, as far as crashes
\* let it know, none is replaced that was not given up, and none comes back.
Supervised == INSTANCE Supervision WITH
  misses <- streak,
  recorded <- [i \in Instances |-> saved[i].streak],
  givenUp <- {i \in Instances : unhealthy[i]},
  replaced <- {i \in Instances : phase[i] = "replaced"}

ReplacedAfterThree == Supervised!Spec

\* set -e: no service runs on a machine where a step before it failed, so that
\* it has its image and its key, and the watchdog guards a service.
StartedPrepared ==
  \A i \in Instances :
    /\ service[i] # "none" => Preparation \subseteq completed[i]
    /\ "watchdog" \in completed[i] => service[i] # "none"

\* docker-service-init.ts:129-133, for the probes whose /health dials :443: a
\* service that does not serve, on an instance with the watchdog, serves again
\* or the instance is replaced, although calls to the metadata service and to
\* the group fail, the group ignores calls in its grace period, the script
\* resets its count all the same, and crashes lose it.
DownIsReplaced ==
  \A i \in Instances :
    (selfProbes /\ InService(i) /\ "watchdog" \in completed[i] /\ service[i] # "up")
      ~> (service[i] = "up" \/ phase[i] = "replaced")
==============================================================================
