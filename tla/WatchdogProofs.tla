---------------------------- MODULE WatchdogProofs ----------------------------
(* Proofs about Watchdog, for groups of any size, secrets and faults. *)
EXTENDS Watchdog, TLAPS

\* What the literals of the script come to.
LEMMA StepNames ==
  /\ Over = 7 /\ DOMAIN Steps = 1 .. 6
  /\ Steps[1] = "docker" /\ Steps[2] = "login" /\ Steps[3] = "pull"
  /\ Steps[4] = "secrets" /\ Steps[5] = "service" /\ Steps[6] = "watchdog"
BY DEF Over, Steps

LEMMA StepTypes == \A n \in 1 .. 6 : Steps[n] \in StepSet
BY StepNames DEF StepSet

LEMMA AfterTypes == \A c \in MetadataCalls : After[c] \in MetadataCalls \cup {"mark"}
BY DEF After, MetadataCalls

\* What a reboot can leave of FAIL_FILE.
LEMMA SurvivingTypes ==
  ASSUME TypeOK, NEW i \in Instances
  PROVE  Surviving(i) \subseteq [count : Nat, streak : 0 .. Threshold]
<1>1. count[i] \in Nat /\ streak[i] \in 0 .. Threshold
  BY DEF TypeOK
<1>2. saved[i] \in [count : Nat, streak : 0 .. Threshold]
  BY DEF TypeOK
<1> QED
  BY <1>1, <1>2 DEF Surviving, File

------------------------------------------------------------------------------
\* The type invariant.
THEOREM WatchdogTypeCorrect == Spec => []TypeOK
<1>1. Init => TypeOK
  <2> SUFFICES ASSUME Init PROVE TypeOK
    OBVIOUS
  <2>1. selfProbes \in BOOLEAN
    BY DEF Init
  <2>2. /\ graced \in [Instances -> BOOLEAN]
        /\ unhealthy \in [Instances -> BOOLEAN]
    BY Zenon DEF Init
  <2> QED
    BY <2>1, <2>2, StepNames DEF Init, TypeOK, Commands, Threshold, NothingSaved
<1>2. TypeOK /\ [Next]_vars => TypeOK'
  <2> SUFFICES ASSUME TypeOK, [Next]_vars PROVE TypeOK'
    OBVIOUS
  <2> USE DEF TypeOK, machine, script, group, Fault, NoFault, Goto, AtCommand, InService
  <2>1. ASSUME NEW i \in Instances, Launch(i) PROVE TypeOK'
    BY <2>1 DEF Launch
  <2>2. ASSUME NEW i \in Instances, GraceEnds(i) PROVE TypeOK'
    <3>1. graced' \in [Instances -> BOOLEAN]
      BY <2>2, Zenon DEF GraceEnds
    <3> QED
      BY <2>2, <3>1 DEF GraceEnds
  <2>3. ASSUME NEW i \in Instances, Replace(i) PROVE TypeOK'
    <3>1. pc' \in [Instances -> Commands]
      BY <2>3 DEF Replace, Commands
    <3>2. saved' \in [Instances -> [count : Nat, streak : 0 .. Threshold]]
      BY <2>3 DEF Replace, NothingSaved, Threshold
    <3>3. streak' \in [Instances -> 0 .. Threshold]
      BY <2>3 DEF Replace, Threshold
    <3> QED
      BY <2>3, <3>1, <3>2, <3>3 DEF Replace, ServiceStops
  <2>4. ASSUME NEW i \in Instances, StepSucceeds(i) PROVE TypeOK'
    <3>1. userData[i] \in 1 .. 6
      BY <2>4, StepNames DEF StepSucceeds, Running
    <3>2. completed' \in [Instances -> SUBSET StepSet]
      <4>1. Steps[userData[i]] \in StepSet
        BY <3>1, StepTypes
      <4>2. completed' = [completed EXCEPT ![i] = @ \cup {Steps[userData[i]]}]
        BY <2>4 DEF StepSucceeds
      <4> QED
        BY <4>1, <4>2
    <3>3. userData' \in [Instances -> 1 .. Over]
      <4>1. userData' = [userData EXCEPT ![i] = @ + 1]
        BY <2>4 DEF StepSucceeds
      <4>2. userData[i] + 1 \in 1 .. Over
        BY <3>1, StepNames
      <4> QED
        BY <4>1, <4>2
    <3>4. service' \in [Instances -> {"none", "up", "hung", "dead"}]
      BY <2>4 DEF StepSucceeds
    <3> QED
      BY <2>4, <3>2, <3>3, <3>4 DEF StepSucceeds
  <2>5. ASSUME NEW i \in Instances, StepFails(i) PROVE TypeOK'
    <3>1. Over \in 1 .. Over
      BY StepNames
    <3> QED
      BY <2>5, <3>1 DEF StepFails
  <2>6. ASSUME NEW i \in Instances,
               Dies(i) \/ Hangs(i) \/ Recovers(i) \/ Restart(i) PROVE TypeOK'
    BY <2>6 DEF Dies, Hangs, Recovers, Restart, ServiceTurns
  <2>7. ASSUME NEW i \in Instances, Reboot(i) PROVE TypeOK'
    <3>1. PICK f \in Surviving(i) : /\ count' = [count EXCEPT ![i] = f.count]
                                    /\ streak' = [streak EXCEPT ![i] = f.streak]
                                    /\ saved' = [saved EXCEPT ![i] = f]
      BY <2>7 DEF Reboot
    <3>2. f \in [count : Nat, streak : 0 .. Threshold]
      BY SurvivingTypes
    <3>3. Over \in 1 .. Over
      BY StepNames
    <3>4. pc' \in [Instances -> Commands]
      BY <2>7 DEF Reboot, Commands
    <3> QED
      BY <2>7, <3>1, <3>2, <3>3, <3>4 DEF Reboot, ServiceStops
  <2>8. ASSUME NEW i \in Instances, ReadCount(i) PROVE TypeOK'
    BY <2>8 DEF ReadCount, Commands
  <2>9. ASSUME NEW i \in Instances, ProbeSucceeds(i) PROVE TypeOK'
    BY <2>9 DEF ProbeSucceeds, Commands, Threshold
  <2>10. ASSUME NEW i \in Instances, ProbeFails(i) PROVE TypeOK'
    <3>1. faults' \in Nat
      BY <2>10 DEF ProbeFails
    <3>2. streak' \in [Instances -> 0 .. Threshold]
      BY <2>10 DEF ProbeFails, Threshold
    <3>3. pc' \in [Instances -> Commands]
      BY <2>10 DEF ProbeFails, Commands, MetadataCalls
    <3> QED
      BY <2>10, <3>1, <3>2, <3>3 DEF ProbeFails
  <2>11. ASSUME NEW i \in Instances, Metadata(i) PROVE TypeOK'
    <3>1. faults' \in Nat
      BY <2>11 DEF Metadata
    <3>2. pc' \in [Instances -> Commands]
      <4>1. After[pc[i]] \in Commands
        BY <2>11, AfterTypes DEF Metadata, Commands
      <4>2. "idle" \in Commands
        BY DEF Commands
      <4>3. PICK c \in Commands : pc' = [pc EXCEPT ![i] = c]
        BY <2>11, <4>1, <4>2 DEF Metadata
      <4> QED
        BY <4>3
    <3> QED
      BY <2>11, <3>1, <3>2 DEF Metadata
  <2>12. ASSUME NEW i \in Instances, SetInstanceHealth(i) PROVE TypeOK'
    <3>1. faults' \in Nat
      BY <2>12 DEF SetInstanceHealth
    <3>2. unhealthy' = unhealthy \/ unhealthy' = [unhealthy EXCEPT ![i] = TRUE]
      BY <2>12, Zenon DEF SetInstanceHealth
    <3>3. unhealthy' \in [Instances -> BOOLEAN]
      BY <3>2, Zenon
    <3>4. pc' \in [Instances -> Commands]
      BY <2>12 DEF SetInstanceHealth, Commands
    <3> QED
      BY <2>12, <3>1, <3>3, <3>4 DEF SetInstanceHealth
  <2>13. ASSUME NEW i \in Instances, ResetCount(i) PROVE TypeOK'
    BY <2>13 DEF ResetCount, Commands
  <2>14. ASSUME NEW i \in Instances, WriteBack(i) PROVE TypeOK'
    <3>1. File(i) \in [count : Nat, streak : 0 .. Threshold]
      BY SurvivingTypes DEF Surviving
    <3> QED
      BY <2>14, <3>1 DEF WriteBack
  <2>15. CASE UNCHANGED vars
    BY <2>15 DEF vars
  <2>16. CASE NothingLeft
    BY <2>15, <2>16 DEF NothingLeft
  <2> QED
    BY <2>1, <2>2, <2>3, <2>4, <2>5, <2>6, <2>7, <2>8, <2>9, <2>10, <2>11, <2>12,
       <2>13, <2>14, <2>15, <2>16 DEF Next, InstanceStep, ScriptStep
<1> QED
  BY <1>1, <1>2, PTL DEF Spec

------------------------------------------------------------------------------
(* The count, in the file and in the script. *)

\* What the script has read is as honest as the file.
FailsAreHonest ==
  \A i \in Instances : pc[i] = "probe" => (fails[i] <= streak[i] \/ streak[i] = Threshold)

\* So is the disk.
DiskIsHonest ==
  \A i \in Instances : saved[i].count <= saved[i].streak \/ saved[i].streak = Threshold

CountInv == CountIsHonest /\ FailsAreHonest /\ DiskIsHonest

\* And so is what a reboot leaves.
LEMMA SurvivingIsHonest ==
  ASSUME TypeOK, CountInv, NEW i \in Instances, NEW f \in Surviving(i)
  PROVE  f.count <= f.streak \/ f.streak = Threshold
<1>1. count[i] <= streak[i] \/ streak[i] = Threshold
  BY DEF CountInv, CountIsHonest
<1>2. saved[i].count <= saved[i].streak \/ saved[i].streak = Threshold
  BY DEF CountInv, DiskIsHonest
<1>3. streak[i] \in 0 .. Threshold
  BY DEF TypeOK
<1> QED
  BY <1>1, <1>2, <1>3 DEF Surviving, File, Threshold

LEMMA CountInvariant == Spec => []CountInv
<1>1. Init => CountInv
  BY DEF Init, CountInv, CountIsHonest, FailsAreHonest, DiskIsHonest, NothingSaved,
         MetadataCalls, Threshold
<1>2. TypeOK /\ CountInv /\ [Next]_vars => CountInv'
  <2> SUFFICES ASSUME TypeOK, CountInv, [Next]_vars PROVE CountInv'
    OBVIOUS
  <2>1. /\ pc \in [Instances -> Commands] /\ fails \in [Instances -> Nat]
        /\ count \in [Instances -> Nat] /\ streak \in [Instances -> 0 .. 3]
        /\ saved \in [Instances -> [count : Nat, streak : 0 .. 3]]
    BY DEF TypeOK, Threshold
  <2> USE <2>1 DEF CountInv, CountIsHonest, FailsAreHonest, DiskIsHonest, Threshold,
                   MetadataCalls, machine, script, group, Goto, AtCommand
  <2>2. ASSUME UNCHANGED script PROVE CountInv'
    BY <2>2
  <2>3. ASSUME NEW i \in Instances,
               \/ Launch(i) \/ GraceEnds(i) \/ StepSucceeds(i) \/ StepFails(i)
               \/ Dies(i) \/ Hangs(i) \/ Recovers(i) \/ Restart(i)
        PROVE  UNCHANGED script
    BY <2>3 DEF Launch, GraceEnds, StepSucceeds, StepFails,
                Dies, Hangs, Recovers, Restart, ServiceTurns
  <2>4. ASSUME NEW i \in Instances, Reboot(i) PROVE CountInv'
    <3>1. PICK f \in Surviving(i) : /\ count' = [count EXCEPT ![i] = f.count]
                                    /\ streak' = [streak EXCEPT ![i] = f.streak]
                                    /\ saved' = [saved EXCEPT ![i] = f]
      BY <2>4 DEF Reboot
    <3>2. pc' = [pc EXCEPT ![i] = "idle"] /\ UNCHANGED fails
      BY <2>4 DEF Reboot
    <3>3. f.count <= f.streak \/ f.streak = 3
      BY SurvivingIsHonest
    <3>4. /\ pc'[i] = "idle" /\ count'[i] = f.count
          /\ streak'[i] = f.streak /\ saved'[i] = f
      BY <3>1, <3>2
    <3>5. \A j \in Instances \ {i} : /\ pc'[j] = pc[j] /\ fails'[j] = fails[j]
                                     /\ count'[j] = count[j] /\ streak'[j] = streak[j]
                                     /\ saved'[j] = saved[j]
      BY <3>1, <3>2
    <3> QED
      BY <3>3, <3>4, <3>5
  <2>5. ASSUME NEW i \in Instances, ReadCount(i) PROVE CountInv'
    BY <2>5 DEF ReadCount
  <2>6. ASSUME NEW i \in Instances, ProbeSucceeds(i) PROVE CountInv'
    BY <2>6 DEF ProbeSucceeds
  <2>7. ASSUME NEW i \in Instances, ProbeFails(i) PROVE CountInv'
    <3>1. fails[i] <= streak[i] \/ streak[i] = 3
      BY <2>7 DEF ProbeFails
    <3>2. /\ fails' = [fails EXCEPT ![i] = @ + 1]
          /\ count' = [count EXCEPT ![i] = fails[i] + 1]
          /\ streak' = [streak EXCEPT ![i] = IF @ < 3 THEN @ + 1 ELSE @]
          /\ pc' = [pc EXCEPT ![i] = IF fails[i] + 1 >= 3 THEN "token" ELSE "idle"]
          /\ UNCHANGED saved
      BY <2>7 DEF ProbeFails
    <3>3. /\ count'[i] <= streak'[i] \/ streak'[i] = 3
          /\ fails[i] + 1 >= 3 => streak'[i] = 3
      BY <3>1, <3>2
    <3>4. \A j \in Instances \ {i} : /\ pc'[j] = pc[j] /\ fails'[j] = fails[j]
                                     /\ count'[j] = count[j] /\ streak'[j] = streak[j]
      BY <3>2
    <3>5. pc'[i] = IF fails[i] + 1 >= 3 THEN "token" ELSE "idle"
      BY <3>2
    <3> QED
      BY <3>2, <3>3, <3>4, <3>5
  <2>8. ASSUME NEW i \in Instances, Metadata(i) PROVE CountInv'
    <3>1. streak[i] = 3
      BY <2>8 DEF Metadata
    <3>2. After[pc[i]] # "probe"
      BY <2>8, AfterTypes DEF Metadata
    <3>3. PICK c : pc' = [pc EXCEPT ![i] = c] /\ c # "probe"
      BY <2>8, <3>2 DEF Metadata
    <3>4. UNCHANGED <<fails, count, saved, streak>>
      BY <2>8 DEF Metadata
    <3> QED
      BY <3>1, <3>3, <3>4
  <2>9. ASSUME NEW i \in Instances, SetInstanceHealth(i) PROVE CountInv'
    BY <2>9 DEF SetInstanceHealth
  <2>10. ASSUME NEW i \in Instances, ResetCount(i) PROVE CountInv'
    BY <2>10 DEF ResetCount
  <2>11. ASSUME NEW i \in Instances, WriteBack(i) PROVE CountInv'
    <3>1. saved' = [saved EXCEPT ![i] = [count |-> count[i], streak |-> streak[i]]]
      BY <2>11 DEF WriteBack, File
    <3>2. UNCHANGED <<pc, fails, count, streak>>
      BY <2>11 DEF WriteBack
    <3>3. saved'[i].count = count[i] /\ saved'[i].streak = streak[i]
      BY <3>1
    <3>4. \A j \in Instances \ {i} : saved'[j] = saved[j]
      BY <3>1
    <3> QED
      BY <3>2, <3>3, <3>4
  <2>12. ASSUME NEW i \in Instances, Replace(i) PROVE CountInv'
    BY <2>12 DEF Replace, NothingSaved
  <2>13. CASE UNCHANGED vars
    BY <2>2, <2>13 DEF vars
  <2>14. CASE NothingLeft
    BY <2>13, <2>14 DEF NothingLeft
  <2> QED
    BY <2>2, <2>3, <2>4, <2>5, <2>6, <2>7, <2>8, <2>9, <2>10, <2>11, <2>12, <2>13, <2>14
    DEF Next, InstanceStep, ScriptStep
<1> QED
  BY <1>1, <1>2, WatchdogTypeCorrect, PTL DEF Spec

\* docker-service-init.ts:129: neither failing commands nor crashes, which bring back
\* an older file, smaller or larger, make the count larger than the number of probes
\* that failed since the last one that succeeded and was not undone.
THEOREM CountIsHonestHolds == Spec => []CountIsHonest
<1>1. CountInv => CountIsHonest
  BY DEF CountInv
<1> QED
  BY <1>1, CountInvariant, PTL

------------------------------------------------------------------------------
(* The refinement of Supervision. *)

\* docker-service-init.ts:129-130: the script, its file, the disk, reboots and the
\* group implement Supervision: an instance is given up only after three missed
\* probes in a row, which a crash takes back to what was recorded of them, and
\* replaced only if it was given up.
THEOREM SupervisionHolds == Spec => ReplacedAfterThree
<1> USE DEF Supervised!vars
<1>1. Init => Supervised!Init
  BY DEF Init, NothingSaved, Supervised!Init
<1>2. TypeOK /\ CountInv /\ [Next]_vars => [Supervised!Next]_(Supervised!vars)
  <2> SUFFICES ASSUME TypeOK, CountInv, [Next]_vars
               PROVE  [Supervised!Next]_(Supervised!vars)
    OBVIOUS
  <2> DEFINE recorded == [i \in Instances |-> saved[i].streak]
             givenUp == {i \in Instances : unhealthy[i]}
             replaced == {i \in Instances : phase[i] = "replaced"}
  <2>1. /\ phase \in [Instances -> {"absent", "inService", "replaced"}]
        /\ unhealthy \in [Instances -> BOOLEAN]
        /\ streak \in [Instances -> 0 .. Threshold]
        /\ saved \in [Instances -> [count : Nat, streak : 0 .. Threshold]]
    BY DEF TypeOK
  <2> USE <2>1 DEF machine, script, group, AtCommand, InService
  <2>2. ASSUME UNCHANGED <<phase, unhealthy, saved, streak>>
        PROVE  UNCHANGED <<streak, recorded, givenUp, replaced>>
    BY <2>2
  <2>3. ASSUME UNCHANGED <<streak, recorded, givenUp, replaced>>
        PROVE  [Supervised!Next]_(Supervised!vars)
    BY <2>3
  <2>4. ASSUME NEW i \in Instances,
               \/ GraceEnds(i) \/ StepSucceeds(i) \/ StepFails(i)
               \/ Dies(i) \/ Hangs(i) \/ Recovers(i) \/ Restart(i)
               \/ ReadCount(i) \/ Metadata(i) \/ ResetCount(i)
        PROVE  UNCHANGED <<phase, unhealthy, saved, streak>>
    BY <2>4 DEF GraceEnds, StepSucceeds, StepFails, Dies, Hangs, Recovers, Restart,
                ServiceTurns, ReadCount, Metadata, ResetCount
  <2>5. ASSUME NEW i \in Instances, Launch(i)
        PROVE  UNCHANGED <<streak, recorded, givenUp, replaced>>
    BY <2>5 DEF Launch
  <2>6. ASSUME NEW i \in Instances, Replace(i) PROVE Supervised!Next
    <3>1. i \in givenUp
      BY <2>6 DEF Replace
    <3>2. replaced' = replaced \cup {i}
      BY <2>6 DEF Replace
    <3>3. streak' = [streak EXCEPT ![i] = 0] /\ UNCHANGED givenUp
      BY <2>6 DEF Replace
    <3>4. recorded' = [recorded EXCEPT ![i] = 0]
      BY <2>6 DEF Replace, NothingSaved
    <3> QED
      BY <3>1, <3>2, <3>3, <3>4 DEF Supervised!Next, Supervised!Replace
  <2>7. ASSUME NEW i \in Instances, ProbeSucceeds(i) PROVE Supervised!Next
    <3>1. /\ streak' = [streak EXCEPT ![i] = 0]
          /\ UNCHANGED <<phase, unhealthy, saved>>
      BY <2>7 DEF ProbeSucceeds
    <3>2. i \notin replaced
      BY <2>7 DEF ProbeSucceeds
    <3> QED
      BY <3>1, <3>2 DEF Supervised!Next, Supervised!Answers
  <2>8. ASSUME NEW i \in Instances, ProbeFails(i) PROVE Supervised!Next
    <3>1. /\ streak' = [streak EXCEPT ![i] = IF @ < Threshold THEN @ + 1 ELSE @]
          /\ UNCHANGED <<phase, unhealthy, saved>>
      BY <2>8 DEF ProbeFails
    <3>2. i \notin replaced
      BY <2>8 DEF ProbeFails
    <3> QED
      BY <3>1, <3>2 DEF Supervised!Next, Supervised!Misses
  <2>9. ASSUME NEW i \in Instances, SetInstanceHealth(i)
        PROVE  [Supervised!Next]_(Supervised!vars)
    <3>1. /\ unhealthy' = unhealthy \/ unhealthy' = [unhealthy EXCEPT ![i] = TRUE]
          /\ UNCHANGED <<phase, saved, streak>>
      BY <2>9, Zenon DEF SetInstanceHealth
    <3>2. i \notin replaced
      BY <2>9 DEF SetInstanceHealth
    <3>3. streak[i] = Threshold
      BY <2>9 DEF SetInstanceHealth, CountInv, CountIsHonest
    <3>4. CASE unhealthy' = unhealthy
      BY <2>2, <2>3, <3>1, <3>4
    <3>5. CASE unhealthy' = [unhealthy EXCEPT ![i] = TRUE]
      <4>1. givenUp' = givenUp \cup {i}
        BY <3>5
      <4> QED
        BY <3>1, <3>2, <3>3, <4>1 DEF Supervised!Next, Supervised!GiveUp
    <3> QED
      BY <3>1, <3>4, <3>5
  <2>10. ASSUME NEW i \in Instances, WriteBack(i) PROVE Supervised!Next
    <3>1. saved' = [saved EXCEPT ![i] = [count |-> count[i], streak |-> streak[i]]]
      BY <2>10 DEF WriteBack, File
    <3>2. UNCHANGED <<phase, unhealthy, streak>>
      BY <2>10 DEF WriteBack
    <3>3. i \notin replaced
      BY <2>10 DEF WriteBack
    <3>4. recorded' = [recorded EXCEPT ![i] = streak[i]]
      BY <3>1
    <3> QED
      BY <3>2, <3>3, <3>4 DEF Supervised!Next, Supervised!Record
  <2>11. ASSUME NEW i \in Instances, Reboot(i) PROVE Supervised!Next
    <3>1. PICK f \in Surviving(i) : /\ streak' = [streak EXCEPT ![i] = f.streak]
                                    /\ saved' = [saved EXCEPT ![i] = f]
      BY <2>11 DEF Reboot
    <3>2. i \notin replaced /\ UNCHANGED <<phase, unhealthy>>
      BY <2>11 DEF Reboot
    <3>3. recorded' = [recorded EXCEPT ![i] = f.streak]
      BY <3>1
    <3>4. UNCHANGED <<givenUp, replaced>>
      BY <3>2
    \* A crash, unless what was written is there.
    <3>5. CASE f = saved[i]
      <4>1. recorded' = recorded
        BY <3>3, <3>5
      <4>2. streak' = [streak EXCEPT ![i] = recorded[i]]
        BY <3>1, <3>5
      <4> QED
        BY <3>2, <3>4, <4>1, <4>2 DEF Supervised!Next, Supervised!Crash
    <3>6. CASE f # saved[i]
      <4>1. f.streak = streak[i]
        BY <3>6 DEF Surviving, File
      <4>2. streak' = streak
        BY <3>1, <4>1
      <4>3. recorded' = [recorded EXCEPT ![i] = streak[i]]
        BY <3>3, <4>1
      <4> QED
        BY <3>2, <3>4, <4>2, <4>3 DEF Supervised!Next, Supervised!Record
    <3> QED
      BY <3>5, <3>6
  <2>12. CASE UNCHANGED vars
    BY <2>2, <2>3, <2>12 DEF vars
  <2>13. CASE NothingLeft
    BY <2>12, <2>13 DEF NothingLeft
  <2> QED
    BY <2>2, <2>3, <2>4, <2>5, <2>6, <2>7, <2>8, <2>9, <2>10, <2>11, <2>12, <2>13
    DEF Next, InstanceStep, ScriptStep
<1> QED
  BY <1>1, <1>2, WatchdogTypeCorrect, CountInvariant, PTL
  DEF Spec, ReplacedAfterThree, Supervised!Spec

------------------------------------------------------------------------------
(* User data. *)

\* While user data runs, every step before the present one is done; whatever
\* was done first is still there.
PreparedInv ==
  /\ \A i \in Instances : userData[i] < Over =>
       \A n \in 1 .. userData[i] - 1 : Steps[n] \in completed[i]
  /\ \A i \in Instances : "service" \in completed[i] => service[i] # "none"
  /\ StartedPrepared

\* No service runs on a machine that lacks its image or its key, and no watchdog
\* without a service, wherever a command of user data fails.
THEOREM StartedPreparedHolds == Spec => []StartedPrepared
<1>1. Init => PreparedInv
  BY StepNames DEF Init, PreparedInv, StartedPrepared
<1>2. TypeOK /\ PreparedInv /\ [Next]_vars => PreparedInv'
  <2> SUFFICES ASSUME TypeOK, PreparedInv, [Next]_vars PROVE PreparedInv'
    OBVIOUS
  <2>1. /\ userData \in [Instances -> 1 .. 7]
        /\ completed \in [Instances -> SUBSET StepSet]
        /\ service \in [Instances -> {"none", "up", "hung", "dead"}]
    BY StepNames DEF TypeOK
  <2> USE <2>1 DEF PreparedInv, StartedPrepared, machine, script, group
  <2>2. ASSUME UNCHANGED <<userData, completed, service>> PROVE PreparedInv'
    BY <2>2
  <2>3. ASSUME NEW i \in Instances,
               Launch(i) \/ GraceEnds(i) \/ WriteBack(i) \/ ScriptStep(i)
        PROVE  UNCHANGED <<userData, completed, service>>
    BY <2>3 DEF Launch, GraceEnds, WriteBack, ScriptStep, ReadCount, ProbeSucceeds,
                ProbeFails, Metadata, SetInstanceHealth, ResetCount
  <2>4. ASSUME NEW i \in Instances, StepSucceeds(i) PROVE PreparedInv'
    <3>1. userData[i] \in 1 .. 6
      BY <2>4, StepNames DEF StepSucceeds, Running
    <3>2. /\ completed' = [completed EXCEPT ![i] = @ \cup {Steps[userData[i]]}]
          /\ userData' = [userData EXCEPT ![i] = @ + 1]
          /\ service' = IF Steps[userData[i]] = "service"
                          THEN [service EXCEPT ![i] = "up"] ELSE service
      BY <2>4 DEF StepSucceeds
    <3>3. \A n \in 1 .. userData[i] - 1 : Steps[n] \in completed[i]
      BY <3>1, StepNames
    <3>4. \A n \in 1 .. userData'[i] - 1 : Steps[n] \in completed'[i]
      BY <3>1, <3>2, <3>3
    <3>5. \A j \in Instances \ {i} :
            completed'[j] = completed[j] /\ userData'[j] = userData[j] /\ service'[j] = service[j]
      BY <3>2
    <3>6. service[i] # "none" => service'[i] # "none"
      BY <3>2
    <3>7. CASE userData[i] < 5
      <4>1. /\ Steps[userData[i]] \in Preparation
            /\ Steps[userData[i]] # "service" /\ Steps[userData[i]] # "watchdog"
        BY <3>1, <3>7, StepNames DEF Preparation
      <4> QED
        BY <3>2, <3>4, <3>5, <4>1
    <3>8. CASE userData[i] = 5
      <4>1. service'[i] = "up" /\ Steps[userData[i]] = "service"
        BY <3>2, <3>8, StepNames
      <4>2. Preparation \subseteq completed'[i]
        BY <3>2, <3>3, <3>8, StepNames DEF Preparation
      <4> QED
        BY <3>4, <3>5, <4>1, <4>2
    <3>9. CASE userData[i] = 6
      <4>1. "service" \in completed[i] /\ Steps[userData[i]] = "watchdog"
        BY <3>3, <3>9, StepNames
      <4>2. service[i] # "none" /\ service'[i] = service[i]
        BY <3>2, <4>1
      <4>3. completed[i] \subseteq completed'[i]
        BY <3>2
      <4> QED
        BY <3>4, <3>5, <4>2, <4>3
    <3> QED
      BY <3>1, <3>7, <3>8, <3>9
  <2>5. ASSUME NEW i \in Instances, StepFails(i) PROVE PreparedInv'
    BY <2>5, StepNames DEF StepFails
  <2>6. ASSUME NEW i \in Instances,
               Dies(i) \/ Hangs(i) \/ Recovers(i) \/ Restart(i) PROVE PreparedInv'
    <3>1. PICK to \in {"up", "hung", "dead"} : service' = [service EXCEPT ![i] = to]
      BY <2>6 DEF Dies, Hangs, Recovers, Restart, ServiceTurns
    <3>2. service[i] # "none" /\ UNCHANGED <<userData, completed>>
      BY <2>6 DEF Dies, Hangs, Recovers, Restart, ServiceTurns
    <3> QED
      BY <3>1, <3>2
  <2>7. ASSUME NEW i \in Instances, Reboot(i) PROVE PreparedInv'
    BY <2>7, StepNames DEF Reboot, ServiceStops
  <2>8. ASSUME NEW i \in Instances, Replace(i) PROVE PreparedInv'
    BY <2>8, StepNames DEF Replace, ServiceStops
  <2>9. CASE UNCHANGED vars
    BY <2>2, <2>9 DEF vars
  <2>10. CASE NothingLeft
    BY <2>9, <2>10 DEF NothingLeft
  <2> QED
    BY <2>2, <2>3, <2>4, <2>5, <2>6, <2>7, <2>8, <2>9, <2>10 DEF Next, InstanceStep
<1>3. PreparedInv => StartedPrepared
  BY DEF PreparedInv
<1> QED
  BY <1>1, <1>2, <1>3, WatchdogTypeCorrect, PTL DEF Spec
==============================================================================
