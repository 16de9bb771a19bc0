-------------------------- MODULE DnsTeardownProofs ---------------------------
(***************************************************************************)
(* Proofs about DnsTeardown: what DnsLifecycle keeps is kept while stacks  *)
(* are deleted; a cleanup none of whose calls fails drops a row last, and  *)
(* leaves nothing of an instance whose registrations were over.            *)
(***************************************************************************)
EXTENDS DnsTeardown, DnsLifecycleProofs, WellFoundedInduction

\* The steps of CloudFormation and of the cleanups.
CleanupNext ==
  \E s \in Stacks : DeleteStack(s) \/ RemoveLambdas(s) \/ CleanupStep(s) \/ CleanupTimeOut(s)

LEMMA LifecycleIsNext == LifecycleStep => Next /\ UNCHANGED cleanupVars
  BY DEF LifecycleStep, Next

LEMMA TeardownCases ==
  [TeardownNext]_allVars => \/ Next /\ UNCHANGED cleanupVars /\ LifecycleStep
                            \/ CleanupNext
                            \/ UNCHANGED allVars
  BY LifecycleIsNext DEF TeardownNext, CleanupNext

LEMMA FirstIsThere ==
  ASSUME NEW n \in Nat, NEW items
  PROVE  FirstOf(n, items) \subseteq items
  BY DEF FirstOf

\* The types of the variables of a cleanup.
CleanupTypeOK ==
  /\ cpc \in [Stacks -> {"idle", "done", "failed"} \cup CleanupCalls]
  /\ work \in [Stacks -> SUBSET Item]
  /\ item \in [Stacks -> Item \cup {None}]
  /\ cursor \in [Stacks -> Nat]
  /\ truncated \in [Stacks -> BOOLEAN]
  /\ removed \in SUBSET Stacks
  /\ promised \in [Stacks -> SUBSET Instances]

LoopTypeOK ==
  /\ cpc \in [Stacks -> {"idle", "done", "failed"} \cup CleanupCalls]
  /\ work \in [Stacks -> SUBSET Item]
  /\ item \in [Stacks -> Item \cup {None}]

LEMMA NextOfType ==
  ASSUME TeardownTypeOK, NEW s \in Stacks, NEW items \in SUBSET Item, NEW nexts \in SUBSET items,
         NEW body \in CleanupCalls, NEW after \in CleanupCalls \cup {"done"},
         NextOf(s, items, nexts, body, after)
  PROVE  LoopTypeOK'
<1>1. CASE items = {} /\ cpc' = [cpc EXCEPT ![s] = after]
             /\ work' = [work EXCEPT ![s] = {}] /\ item' = [item EXCEPT ![s] = None]
  BY <1>1 DEF TeardownTypeOK, LoopTypeOK
<1>2. ASSUME NEW x \in nexts, cpc' = [cpc EXCEPT ![s] = body],
             work' = [work EXCEPT ![s] = items \ {x}], item' = [item EXCEPT ![s] = x]
      PROVE  LoopTypeOK'
  BY <1>2 DEF TeardownTypeOK, LoopTypeOK
<1> QED
  BY <1>1, <1>2 DEF NextOf

\* What a cleanup can do to the instances and to what is registered of them.
OnlyRemoves ==
  /\ UNCHANGED <<ec2, pc, attempt, check, polls>>
  /\ records' \in [Instances -> CheckIds \cup {None}]
  /\ registry' \in [Stacks -> [Instances -> CheckIds \cup {None}]]
  /\ \A i \in Instances : records'[i] \in {records[i], None}
  /\ \A s \in Stacks, i \in Instances : registry'[s][i] \in {registry[s][i], None}
  /\ live' \subseteq live /\ deleted \subseteq deleted' /\ live' \cup deleted' = live \cup deleted
  /\ faults' \in Nat /\ faults' >= faults

LEMMA RecordGoes ==
  ASSUME TeardownTypeOK, NEW x, Route53DeleteRecord(x) \/ UNCHANGED records
  PROVE  /\ records' \in [Instances -> CheckIds \cup {None}]
         /\ \A i \in Instances : records'[i] \in {records[i], None}
<1>1. records' \in {records, [records EXCEPT ![x.inst] = None]}
  BY DEF Route53DeleteRecord
<1> QED
  BY <1>1 DEF TeardownTypeOK, TypeOK

LEMMA RowGoes ==
  ASSUME TeardownTypeOK, NEW s \in Stacks, NEW i,
         registry' \in {registry, [registry EXCEPT ![s][i] = None]}
  PROVE  /\ registry' \in [Stacks -> [Instances -> CheckIds \cup {None}]]
         /\ \A t \in Stacks, j \in Instances : registry'[t][j] \in {registry[t][j], None}
<1> DEFINE rows == [registry[s] EXCEPT ![i] = None]
<1>1. registry[s] \in [Instances -> CheckIds \cup {None}]
  BY DEF TeardownTypeOK, TypeOK
<1>2. rows \in [Instances -> CheckIds \cup {None}] /\ \A j \in Instances : rows[j] \in {registry[s][j], None}
  BY <1>1
<1>3. registry' \in {registry, [registry EXCEPT ![s] = rows]}
  OBVIOUS
<1> HIDE DEF rows
<1> QED
  BY <1>2, <1>3 DEF TeardownTypeOK, TypeOK

LEMMA CallOutcome ==
  ASSUME TeardownTypeOK, NEW s \in Stacks, CallDone \/ CallFailed(s)
  PROVE  faults' \in Nat /\ faults' >= faults /\ promised' \in [Stacks -> SUBSET Instances]
  BY SMTT(40) DEF CallDone, CallFailed, Fault, NoFault, TeardownTypeOK, TypeOK

LEMMA CheckGoes ==
  ASSUME NEW id, Route53DeleteCheck(id) \/ UNCHANGED <<live, deleted>>
  PROVE  live' \subseteq live /\ deleted \subseteq deleted' /\ live' \cup deleted' = live \cup deleted
  BY DEF Route53DeleteCheck

LEMMA CleanupEffect ==
  ASSUME TeardownTypeOK, CleanupNext
  PROVE  OnlyRemoves /\ CleanupTypeOK'
<1> USE DEF TeardownTypeOK, TypeOK
<1>0. PICK s \in Stacks : DeleteStack(s) \/ RemoveLambdas(s) \/ CleanupStep(s) \/ CleanupTimeOut(s)
  BY DEF CleanupNext
<1>1. CASE DeleteStack(s)
  <2>1. Promise(s) \in SUBSET Instances
    BY DEF Promise
  <2> QED
    BY <1>1, <2>1 DEF DeleteStack, OnlyRemoves, CleanupTypeOK, CleanupCalls, vars
<1>2. CASE RemoveLambdas(s)
  BY <1>2 DEF RemoveLambdas, OnlyRemoves, CleanupTypeOK, vars
<1>3. CASE GetRegistryItems(s)
  <2>1. (CallDone \/ CallFailed(s)) /\ UNCHANGED <<ec2, pc, attempt, check, polls, registry, records, live, deleted, truncated, removed>>
    BY <1>3 DEF GetRegistryItems, invocations, invocation, route53
  <2>2. faults' \in Nat /\ faults' >= faults /\ promised' \in [Stacks -> SUBSET Instances]
    BY <2>1, CallOutcome
  <2> DEFINE rows == {[inst |-> i, check |-> registry[s][i]] :
                        i \in {j \in Instances : registry[s][j] # None}}
  <2>3. rows \in SUBSET Item
    BY DEF Item
  <2>4. LoopTypeOK'
    <3>1. CASE NextRow(s, rows)
      BY <2>3, <3>1, NextOfType DEF NextRow, CleanupCalls
    <3>2. CASE cpc' = [cpc EXCEPT ![s] = "done"] /\ UNCHANGED <<work, item>>
      BY <3>2 DEF LoopTypeOK
    <3> QED
      BY <1>3, <3>1, <3>2 DEF GetRegistryItems
  <2>5. cursor' \in [Stacks -> Nat]
    BY <1>3 DEF GetRegistryItems
  <2> QED
    BY <2>1, <2>2, <2>4, <2>5 DEF OnlyRemoves, CleanupTypeOK, LoopTypeOK
<1>4. CASE CleanupItemRecord(s)
  <2>1. (CallDone \/ CallFailed(s)) /\ UNCHANGED <<ec2, pc, attempt, check, polls, registry, live, deleted, cursor, truncated, removed>>
    BY <1>4 DEF CleanupItemRecord, invocations, invocation, route53, Continue
  <2>2. faults' \in Nat /\ faults' >= faults /\ promised' \in [Stacks -> SUBSET Instances]
    BY <2>1, CallOutcome
  <2>3. LoopTypeOK'
    <3>1. cpc' = [cpc EXCEPT ![s] = "itemCheck"] /\ UNCHANGED <<work, item>>
      BY <1>4 DEF CleanupItemRecord, Continue
    <3> QED
      BY <3>1 DEF LoopTypeOK, CleanupCalls
  <2>4. Route53DeleteRecord(item[s]) \/ UNCHANGED records
    BY <1>4 DEF CleanupItemRecord
  <2>5. /\ records' \in [Instances -> CheckIds \cup {None}]
        /\ \A i \in Instances : records'[i] \in {records[i], None}
    BY <2>4, RecordGoes
  <2> QED
    BY <2>1, <2>2, <2>3, <2>5 DEF OnlyRemoves, CleanupTypeOK, LoopTypeOK
<1>5. CASE CleanupItemCheck(s)
  <2>1. (CallDone \/ CallFailed(s)) /\ UNCHANGED <<ec2, pc, attempt, check, polls, registry, records, cursor, truncated, removed>>
    BY <1>5 DEF CleanupItemCheck, invocations, invocation, route53, Continue
  <2>2. faults' \in Nat /\ faults' >= faults /\ promised' \in [Stacks -> SUBSET Instances]
    BY <2>1, CallOutcome
  <2>3. LoopTypeOK'
    <3>1. cpc' = [cpc EXCEPT ![s] = "itemRow"] /\ UNCHANGED <<work, item>>
      BY <1>5 DEF CleanupItemCheck, Continue
    <3> QED
      BY <3>1 DEF LoopTypeOK, CleanupCalls
  <2>4. Route53DeleteCheck(item[s].check) \/ UNCHANGED <<live, deleted>>
    BY <1>5 DEF CleanupItemCheck
  <2>5. live' \subseteq live /\ deleted \subseteq deleted' /\ live' \cup deleted' = live \cup deleted
    BY <2>4, CheckGoes
  <2> QED
    BY <2>1, <2>2, <2>3, <2>5 DEF OnlyRemoves, CleanupTypeOK, LoopTypeOK
<1>6. CASE CleanupItemRow(s)
  <2>1. (CallDone \/ CallFailed(s)) /\ UNCHANGED <<ec2, pc, attempt, check, polls, records, live, deleted, cursor, truncated, removed>>
    BY <1>6 DEF CleanupItemRow, invocations, invocation, route53
  <2>2. faults' \in Nat /\ faults' >= faults /\ promised' \in [Stacks -> SUBSET Instances]
    BY <2>1, CallOutcome
  <2>3. LoopTypeOK'
    <3>1. NextOf(s, work[s], work[s], "itemRecord", "list")
      BY <1>6 DEF CleanupItemRow, NextRow
    <3> QED
      BY <3>1, NextOfType DEF CleanupCalls
  <2>4. registry' \in {registry, [registry EXCEPT ![s][item[s].inst] = None]}
    BY <1>6 DEF CleanupItemRow
  <2>5. /\ registry' \in [Stacks -> [Instances -> CheckIds \cup {None}]]
        /\ \A t \in Stacks, j \in Instances : registry'[t][j] \in {registry[t][j], None}
    BY <2>4, RowGoes, SMTT(40)
  <2> QED
    BY <2>1, <2>2, <2>3, <2>5 DEF OnlyRemoves, CleanupTypeOK, LoopTypeOK
<1>7. CASE ListOrphans(s)
  <2>1. (CallDone \/ CallFailed(s)) /\ UNCHANGED <<ec2, pc, attempt, check, polls, registry, records, live, deleted, removed>>
    BY <1>7 DEF ListOrphans, invocations, invocation, route53
  <2>2. faults' \in Nat /\ faults' >= faults /\ promised' \in [Stacks -> SUBSET Instances]
    BY <2>1, CallOutcome
  <2>3. CASE ListPage(s)
    <3> DEFINE left == {x \in ZoneRecords(s) : Tags[x.inst].domain >= cursor[s]}
               page == FirstOf(PageSize, left)
               over == FirstOf(1, left \ page)
               domains == {Tags[x.inst].domain : x \in over}
    <3>1. left \in SUBSET Item
      BY DEF ZoneRecords, Item
    <3>2. page \in SUBSET Item /\ over \in SUBSET Item
      BY <3>1, FirstIsThere, PageSizeAssumption
    <3>3. FirstOf(1, page) \in SUBSET page
      BY FirstIsThere
    <3>4. LoopTypeOK'
      <4>1. NextOf(s, page, FirstOf(1, page), "orphanCheck", IF over = {} THEN "done" ELSE "list")
        BY <2>3 DEF ListPage, NextOrphan
      <4>2. (IF over = {} THEN "done" ELSE "list") \in CleanupCalls \cup {"done"}
        BY DEF CleanupCalls
      <4>3. "orphanCheck" \in CleanupCalls
        BY DEF CleanupCalls
      <4> HIDE DEF page, over
      <4> QED
        BY <3>2, <3>3, <4>1, <4>2, <4>3, NextOfType, SMTT(40)
    <3>5. /\ cursor' = [cursor EXCEPT ![s] = IF over = {} THEN 0 ELSE CHOOSE n \in domains : TRUE]
          /\ truncated' = [truncated EXCEPT ![s] = over # {}]
      BY <2>3 DEF ListPage
    <3>6. domains \subseteq Nat
      BY <3>2, DomainAssumption DEF Item
    <3> HIDE DEF over
    <3>7. ASSUME NEW x \in over PROVE Tags[x.inst].domain \in domains
      BY Zenon
    <3> HIDE DEF page, domains
    <3>8. over # {} => (CHOOSE n \in domains : TRUE) \in Nat
      BY <3>6, <3>7
    <3>9. cursor' \in [Stacks -> Nat] /\ truncated' \in [Stacks -> BOOLEAN]
      BY <3>5, <3>8
    <3> QED
      BY <2>1, <2>2, <3>4, <3>9 DEF OnlyRemoves, CleanupTypeOK, LoopTypeOK
  <2>4. CASE Continue(s, "done")
    BY <2>1, <2>2, <2>4 DEF Continue, OnlyRemoves, CleanupTypeOK
  <2> QED
    BY <1>7, <2>3, <2>4 DEF ListOrphans
<1>8. CASE OrphanCheck(s)
  <2>1. (CallDone \/ CallFailed(s)) /\ UNCHANGED <<ec2, pc, attempt, check, polls, registry, records, cursor, truncated, removed>>
    BY <1>8 DEF OrphanCheck, invocations, invocation, route53, Continue
  <2>2. faults' \in Nat /\ faults' >= faults /\ promised' \in [Stacks -> SUBSET Instances]
    BY <2>1, CallOutcome
  <2>3. LoopTypeOK'
    <3>1. cpc' = [cpc EXCEPT ![s] = "orphanRecord"] /\ UNCHANGED <<work, item>>
      BY <1>8 DEF OrphanCheck, Continue
    <3> QED
      BY <3>1 DEF LoopTypeOK, CleanupCalls
  <2>4. Route53DeleteCheck(item[s].check) \/ UNCHANGED <<live, deleted>>
    BY <1>8 DEF OrphanCheck
  <2>5. live' \subseteq live /\ deleted \subseteq deleted' /\ live' \cup deleted' = live \cup deleted
    BY <2>4, CheckGoes
  <2> QED
    BY <2>1, <2>2, <2>3, <2>5 DEF OnlyRemoves, CleanupTypeOK, LoopTypeOK
<1>9. CASE OrphanRecord(s)
  <2>1. (CallDone \/ CallFailed(s)) /\ UNCHANGED <<ec2, pc, attempt, check, polls, registry, live, deleted, cursor, truncated, removed>>
    BY <1>9 DEF OrphanRecord, invocations, invocation, route53
  <2>2. faults' \in Nat /\ faults' >= faults /\ promised' \in [Stacks -> SUBSET Instances]
    BY <2>1, CallOutcome
  <2>3. LoopTypeOK'
    <3>1. NextOf(s, work[s], FirstOf(1, work[s]), "orphanCheck",
                 IF truncated[s] THEN "list" ELSE "done")
      BY <1>9 DEF OrphanRecord, NextOrphan
    <3>2. FirstOf(1, work[s]) \in SUBSET work[s]
      BY FirstIsThere
    <3> QED
      BY <3>1, <3>2, NextOfType DEF CleanupCalls
  <2>4. Route53DeleteRecord(item[s]) \/ UNCHANGED records
    BY <1>9 DEF OrphanRecord
  <2>5. /\ records' \in [Instances -> CheckIds \cup {None}]
        /\ \A i \in Instances : records'[i] \in {records[i], None}
    BY <2>4, RecordGoes
  <2> QED
    BY <2>1, <2>2, <2>3, <2>5 DEF OnlyRemoves, CleanupTypeOK, LoopTypeOK
<1>10. CASE CleanupTimeOut(s)
  <2>1. (CallDone \/ CallFailed(s)) /\ UNCHANGED <<ec2, pc, attempt, check, polls, registry, records, live, deleted, cursor, truncated, removed>>
    BY <1>10 DEF CleanupTimeOut, invocations, invocation, route53
  <2>2. faults' \in Nat /\ faults' >= faults /\ promised' \in [Stacks -> SUBSET Instances]
    BY <2>1, CallOutcome
  <2>3. LoopTypeOK'
    BY <1>10 DEF CleanupTimeOut, LoopTypeOK
  <2> QED
    BY <2>1, <2>2, <2>3 DEF OnlyRemoves, CleanupTypeOK, LoopTypeOK
<1> QED
  BY <1>0, <1>1, <1>2, <1>3, <1>4, <1>5, <1>6, <1>7, <1>8, <1>9, <1>10 DEF CleanupStep

------------------------------------------------------------------------------
(* What DnsLifecycle keeps. *)

Kept == TeardownTypeOK /\ OwnChecks /\ OwnedOnly /\ KindInv

LEMMA KeptStep == Kept /\ [TeardownNext]_allVars => Kept'
<1> SUFFICES ASSUME Kept, [TeardownNext]_allVars PROVE Kept'
  OBVIOUS
<1>1. CASE Next /\ UNCHANGED cleanupVars
  <2>1. TypeOK' /\ OwnChecks' /\ OwnedOnly' /\ KindInv'
    BY <1>1, TypeStep, OwnChecksStep, OwnedOnlyStep, KindStep DEF Kept, TeardownTypeOK
  <2> QED
    BY <1>1, <2>1 DEF Kept, TeardownTypeOK, cleanupVars
<1>2. CASE CleanupNext
  <2>1. OnlyRemoves /\ CleanupTypeOK'
    BY <1>2, CleanupEffect DEF Kept
  <2>2. TypeOK' /\ TeardownTypeOK'
    BY <2>1 DEF Kept, TeardownTypeOK, TypeOK, CleanupTypeOK, OnlyRemoves
  <2>3. OwnChecks'
    BY <2>1 DEF Kept, OwnChecks, OnlyRemoves
  <2>4. OwnedOnly' /\ KindInv'
    BY <2>1 DEF Kept, OwnedOnly, Registering, KindInv, PcFitsKind, StateFirst, OnlyRemoves
  <2> QED
    BY <2>2, <2>3, <2>4 DEF Kept
<1>3. CASE UNCHANGED allVars
  BY <1>3 DEF allVars, vars, cleanupVars, Kept, TeardownTypeOK, TypeOK, OwnChecks, OwnedOnly,
     Registering, KindInv, PcFitsKind, StateFirst
<1> QED
  BY <1>1, <1>2, <1>3, TeardownCases

LEMMA KeptInvariant == TeardownSpec => []Kept
<1>1. TeardownInit => Kept
  <2>1. Init => OwnChecks /\ OwnedOnly /\ KindInv
    BY DEF Init, OwnChecks, OwnedOnly, Registering, KindInv, PcFitsKind, StateFirst,
           RegisterCalls, DeregisterCalls
  <2> QED
    BY <2>1, TypeInit DEF TeardownInit, Kept, TeardownTypeOK, CleanupCalls
<1> QED
  BY <1>1, KeptStep, PTL DEF TeardownSpec

\* The type invariant of the composition.
THEOREM TeardownTypeCorrect == TeardownSpec => []TeardownTypeOK
<1>1. Kept => TeardownTypeOK
  BY DEF Kept
<1> QED
  BY <1>1, KeptInvariant, PTL

\* A cleanup may delete a check while attempts to register its instance go on;
\* none of them ever names another one.
THEOREM TeardownOneCheck == TeardownSpec => []OneCheckPerInstance
<1>1. Kept => OneCheckPerInstance
  BY ChecksAreOne DEF Kept
<1> QED
  BY <1>1, KeptInvariant, PTL
------------------------------------------------------------------------------
(* A cleanup drops a row last. *)

\* The registration of an instance has returned, for good.
Over(i) == \A e \in Deliveries :
  e.inst = i /\ e.kind = "running" /\ e.stack = OwnerOf(i) => pc[e] = "done"

LEMMA NotOver ==
  ASSUME Kept, NEW d \in Deliveries, Registering(d)
  PROVE  d.stack = OwnerOf(d.inst) /\ d.kind = "running" /\ ~Over(d.inst)
<1>1. d.stack \in Stacks /\ d.inst \in Instances
  BY DEF Deliveries
<1>2. d.stack = OwnerOf(d.inst)
  BY <1>1 DEF Kept, OwnedOnly
<1>3. d.kind = "running" /\ pc[d] # "done"
  BY DEF Kept, KindInv, PcFitsKind, Registering, RegisterCalls
<1> QED
  BY <1>2, <1>3 DEF Over

\* A step of one delivery leaves the others alone.
LEMMA StepOfOne ==
  ASSUME TypeOK, NEW d \in Deliveries, DeliveryStep(d)
  PROVE  /\ pc[d] \notin Finished /\ UNCHANGED ec2 /\ faults' >= faults
         /\ \A e \in Deliveries \ {d} : pc'[e] = pc[e] /\ check'[e] = check[e]
<1> USE DEF TypeOK, Goto, Leave, Return, Throw, OnError, NullOnError, InTryBlock,
            Elsewhere, Replied, Fault, NoFault, LostReply, Finished
<1>1. CASE Redeliver(d) \/ Start(d)
  BY <1>1 DEF Redeliver, Start
<1>2. CASE RegisterGetItem(d) \/ DescribeInstance(d) \/ GetDnsConfigFromTags(d)
  BY <1>2 DEF RegisterGetItem, DescribeInstance, GetDnsConfigFromTags
<1>3. CASE CreateHealthCheck(d) \/ GetHealthCheck(d) \/ UpsertRecord(d)
  BY <1>3 DEF CreateHealthCheck, GetHealthCheck, UpsertRecord
<1>4. CASE WaitForChange(d) \/ VerifyDnsRecord(d)
  BY <1>4 DEF WaitForChange, VerifyDnsRecord
<1>5. CASE RegisterPutItem(d) \/ UndoHealthCheck(d)
  BY <1>5 DEF RegisterPutItem, UndoHealthCheck
<1>6. CASE DeregisterGetItem(d) \/ DeleteDnsRecord(d)
  BY <1>6 DEF DeregisterGetItem, DeleteDnsRecord
<1>7. CASE DeleteHealthCheck(d) \/ DeregisterDeleteItem(d)
  BY <1>7 DEF DeleteHealthCheck, DeregisterDeleteItem
<1>8. CASE CallFails(d) \/ TimeOut(d)
  BY <1>8 DEF CallFails, TimeOut, InFlight, Calls, RegisterCalls, DeregisterCalls
<1> QED
  BY <1>1, <1>2, <1>3, <1>4, <1>5, <1>6, <1>7, <1>8 DEF DeliveryStep, RegisterStep, DeregisterStep

LEMMA OverStays ==
  ASSUME Kept, [TeardownNext]_allVars, NEW i \in Instances, Over(i)
  PROVE  Over(i)'
<1> USE DEF Kept, TeardownTypeOK
<1>1. ASSUME NEW j \in Instances, Ec2Step(j) PROVE Over(i)'
  <2>1. \A e \in Deliveries : e.inst = i /\ e.kind = "running" /\ e.stack = OwnerOf(i)
          => pc[e] = "done" /\ ec2[i] # "pending"
    BY DEF Over, KindInv, StateFirst
  <2>2. \A e \in Deliveries : e.kind = "running" /\ pc'[e] # pc[e] => ec2[e.inst] = "pending"
    BY <1>1 DEF Ec2Step, Launch, ShutDown, Terminate, ChangeState, Emit, TypeOK
  <2> QED
    BY <2>1, <2>2 DEF Over, OwnerOf
<1>2. ASSUME NEW d \in Deliveries, DeliveryStep(d) PROVE Over(i)'
  BY <1>2, StepOfOne DEF Over, OwnerOf, Finished
<1>3. CASE CleanupNext
  BY <1>3, CleanupEffect DEF OnlyRemoves, Over, OwnerOf
<1>4. CASE UNCHANGED allVars
  BY <1>4, SMTT(40) DEF allVars, vars, Over, OwnerOf
<1> QED
  BY <1>1, <1>2, <1>3, <1>4 DEF TeardownNext, LifecycleStep, CleanupNext

ItemCalls == {"itemRecord", "itemCheck", "itemRow"}

\* Whatever names a check, names one that Route 53 has or had.
ChecksExist ==
  /\ \A s \in Stacks, i \in Instances :
       registry[s][i] # None => HealthCheckCallerReference(i) \in live \cup deleted
  /\ \A d \in Deliveries : check[d] # None => Ref(d) \in live \cup deleted
  /\ \A d \in Deliveries : pc[d] \in Deregistering => check[d] # None

\* The rows that a cleanup has scanned and not yet dropped.
Scanned(s) == work[s] \cup {item[s]}

ItemsExist ==
  \A s \in Stacks : cpc[s] \in ItemCalls =>
    \A x \in Scanned(s) : /\ x \in Item
                          /\ x.check = HealthCheckCallerReference(x.inst)
                          /\ x.check \in live \cup deleted

\* As long as no call fails, rows belong to instances whose registration is over,
\* which therefore can put nothing back.
OverInv ==
  faults = 0 =>
    /\ \A s \in Stacks, i \in Instances : registry[s][i] # None => Over(i)
    /\ \A d \in Deliveries : pc[d] \in Deregistering => Over(d.inst)
    /\ \A s \in Stacks : cpc[s] \in ItemCalls => \A x \in Scanned(s) : Over(x.inst)

\* What each call of a deregistration, and of a cleanup, finds already gone.
GoneInv ==
  faults = 0 =>
    /\ \A d \in Deliveries :
         /\ pc[d] \in {"deleteCheck", "deleteRow"} => records[d.inst] = None
         /\ pc[d] = "deleteRow" => Ref(d) \in deleted
    /\ \A s \in Stacks :
         /\ cpc[s] \in {"itemCheck", "itemRow"} => records[item[s].inst] = None
         /\ cpc[s] = "itemRow" => item[s].check \in deleted

DropInv == ChecksExist /\ ItemsExist /\ OverInv /\ GoneInv

\* What a step of a delivery can do to what is registered of its instance.
DeliveryEffect(d) ==
  /\ deleted \subseteq deleted' /\ live \cup deleted \subseteq live' \cup deleted'
  /\ \A i \in Instances :
       records'[i] \in {records[i], None} \/ (i = d.inst /\ Registering(d))
  /\ \A s \in Stacks, i \in Instances :
       \/ registry'[s][i] = registry[s][i]
       \/ s = d.stack /\ i = d.inst /\ pc[d] = "deleteRow" /\ registry'[s][i] = None
       \/ /\ s = d.stack /\ i = d.inst /\ Registering(d)
          /\ registry'[s][i] = check[d]
          /\ faults' = 0 => pc'[d] = "done"
  /\ \/ check'[d] \in {None, check[d], registry[d.stack][d.inst]}
     \/ check'[d] = Ref(d) /\ Ref(d) \in live'
  /\ pc'[d] \in Deregistering =>
       \/ pc[d] \in Deregistering /\ check'[d] = check[d]
       \/ /\ pc'[d] = "deleteRecord" /\ check'[d] = registry[d.stack][d.inst]
          /\ registry[d.stack][d.inst] # None
  /\ pc'[d] = "deleteCheck" =>
       /\ pc[d] = "deleteRecord"
       /\ \/ records'[d.inst] = None
          \/ records[d.inst] # check[d] /\ UNCHANGED records
  /\ pc'[d] = "deleteRow" => /\ pc[d] = "deleteCheck" /\ UNCHANGED records
                             /\ check[d] \in live' \cup deleted' => check[d] \in deleted'

LEMMA DeliveryDoes ==
  ASSUME TypeOK, NEW d \in Deliveries, DeliveryStep(d)
  PROVE  DeliveryEffect(d)
<1>0. d.inst \in Instances /\ d.stack \in Stacks
  BY DEF Deliveries
<1> USE <1>0, NoneAssumption
    DEF TypeOK, DeliveryEffect, Goto, Leave, Return, Throw, OnError, NullOnError, InTryBlock,
        Elsewhere, Replied, NoFault, Fault, LostReply, route53, Registering, Deregistering, Ref
<1>1. CASE Redeliver(d) \/ Start(d)
  BY <1>1 DEF Redeliver, Start, Handler
<1>2. CASE RegisterGetItem(d) \/ DescribeInstance(d)
  BY <1>2, SMTT(40) DEF RegisterGetItem, DescribeInstance
<1>3. CASE GetDnsConfigFromTags(d)
  BY <1>3, SMTT(40) DEF GetDnsConfigFromTags
<1>4. CASE CreateHealthCheck(d)
  BY <1>4, SMTT(40) DEF CreateHealthCheck
<1>5. CASE GetHealthCheck(d) \/ WaitForChange(d) \/ VerifyDnsRecord(d)
  BY <1>5, SMTT(40) DEF GetHealthCheck, WaitForChange, VerifyDnsRecord
<1>6. CASE UpsertRecord(d)
  BY <1>6, SMTT(40) DEF UpsertRecord
<1>7. CASE RegisterPutItem(d)
  BY <1>7, SMTT(40) DEF RegisterPutItem
<1>8. CASE UndoHealthCheck(d)
  BY <1>8, SMTT(40) DEF UndoHealthCheck, Route53DeleteCheck
<1>9. CASE DeregisterGetItem(d)
  BY <1>9, SMTT(40) DEF DeregisterGetItem
<1>10. CASE DeleteDnsRecord(d)
  BY <1>10, SMTT(40) DEF DeleteDnsRecord
<1>11. CASE DeleteHealthCheck(d)
  BY <1>11, SMTT(40) DEF DeleteHealthCheck, Route53DeleteCheck
<1>12. CASE DeregisterDeleteItem(d)
  BY <1>12, SMTT(40) DEF DeregisterDeleteItem
<1>13. CASE CallFails(d)
  BY <1>13, SMTT(40) DEF CallFails
<1>14. CASE TimeOut(d)
  BY <1>14, SMTT(40) DEF TimeOut
<1> QED
  BY <1>1, <1>2, <1>3, <1>4, <1>5, <1>6, <1>7, <1>8, <1>9, <1>10, <1>11, <1>12, <1>13, <1>14
     DEF DeliveryStep, RegisterStep, DeregisterStep

LEMMA DeliveryDrops ==
  ASSUME Copies = {1}, Kept, DropInv, [TeardownNext]_allVars, UNCHANGED cleanupVars,
         NEW d \in Deliveries, DeliveryStep(d)
  PROVE  DropInv'
<1> USE DEF cleanupVars, ItemCalls, Scanned
<1>1. /\ \A e \in Deliveries : e.inst \in Instances /\ e.stack \in Stacks
      /\ faults \in Nat /\ faults' \in Nat
  BY KeptStep DEF Deliveries, Kept, TeardownTypeOK, TypeOK
<1>2. DeliveryEffect(d)
  BY DeliveryDoes DEF Kept, TeardownTypeOK
<1>3. /\ faults' >= faults
      /\ \A e \in Deliveries \ {d} : pc'[e] = pc[e] /\ check'[e] = check[e]
  BY StepOfOne DEF Kept, TeardownTypeOK
<1>4. deleted \subseteq deleted' /\ live \cup deleted \subseteq live' \cup deleted'
  BY <1>2 DEF DeliveryEffect
<1>5. ChecksExist'
  <2>1. ASSUME NEW s \in Stacks, NEW i \in Instances, registry'[s][i] # None
        PROVE  HealthCheckCallerReference(i) \in live' \cup deleted'
    <3>1. registry'[s][i] = registry[s][i] \/ (i = d.inst /\ registry'[s][i] = check[d])
      BY <1>2, <2>1 DEF DeliveryEffect
    <3> QED
      BY <1>4, <2>1, <3>1 DEF DropInv, ChecksExist, Ref
  <2>2. ASSUME NEW e \in Deliveries, check'[e] # None
        PROVE  Ref(e) \in live' \cup deleted'
    <3>1. CASE e # d
      BY <1>3, <1>4, <2>2, <3>1 DEF DropInv, ChecksExist
    <3>2. CASE e = d
      <4>1. \/ check'[d] \in {check[d], registry[d.stack][d.inst]}
            \/ Ref(d) \in live'
        BY <1>2, <2>2, <3>2 DEF DeliveryEffect
      <4> QED
        BY <1>1, <1>4, <2>2, <3>2, <4>1 DEF DropInv, ChecksExist, Ref
    <3> QED
      BY <3>1, <3>2
  <2>3. ASSUME NEW e \in Deliveries, pc'[e] \in Deregistering
        PROVE  check'[e] # None
    <3>1. CASE e # d
      BY <1>3, <2>3, <3>1 DEF DropInv, ChecksExist
    <3>2. CASE e = d
      <4>1. \/ pc[d] \in Deregistering /\ check'[d] = check[d]
            \/ check'[d] = registry[d.stack][d.inst] /\ registry[d.stack][d.inst] # None
        BY <1>2, <2>3, <3>2 DEF DeliveryEffect
      <4> QED
        BY <3>2, <4>1 DEF DropInv, ChecksExist
    <3> QED
      BY <3>1, <3>2
  <2> QED
    BY <2>1, <2>2, <2>3 DEF ChecksExist, Ref
<1>6. ItemsExist'
  BY <1>4 DEF DropInv, ItemsExist
<1>7. ASSUME faults' = 0
      PROVE  /\ \A s \in Stacks, i \in Instances : registry'[s][i] # None => Over(i)'
             /\ \A e \in Deliveries : pc'[e] \in Deregistering => Over(e.inst)'
             /\ \A s \in Stacks : cpc'[s] \in ItemCalls => \A x \in Scanned(s)' : Over(x.inst)'
             /\ GoneInv'
  <2>1. faults = 0
    BY <1>1, <1>3, <1>7
  <2>2. \A i \in Instances : Over(i) => Over(i)'
    BY OverStays
  <2>3. \A i \in Instances : Over(i) => ~(i = d.inst /\ Registering(d))
    BY NotOver
  <2>4. ASSUME NEW s \in Stacks, NEW i \in Instances, registry'[s][i] # None
        PROVE  Over(i)'
    <3>1. CASE registry'[s][i] = registry[s][i]
      BY <2>1, <2>2, <2>4, <3>1 DEF DropInv, OverInv
    <3>2. CASE i = d.inst /\ Registering(d) /\ pc'[d] = "done"
      <4>1. d.stack = OwnerOf(i) /\ d.kind = "running"
        BY <3>2, NotOver
      <4>2. \A e \in Deliveries : e.inst = d.inst /\ e.kind = d.kind /\ e.stack = d.stack => e = d
        BY DEF Deliveries
      <4> QED
        BY <3>2, <4>1, <4>2 DEF Over, OwnerOf
    <3> QED
      BY <1>2, <1>7, <2>4, <3>1, <3>2 DEF DeliveryEffect
  <2>5. ASSUME NEW e \in Deliveries, pc'[e] \in Deregistering
        PROVE  Over(e.inst) /\ Over(e.inst)'
    <3>1. pc[e] \in Deregistering \/ registry[e.stack][e.inst] # None
      BY <1>2, <1>3, <2>5 DEF DeliveryEffect
    <3>2. Over(e.inst)
      BY <1>1, <2>1, <3>1 DEF DropInv, OverInv
    <3> QED
      BY <1>1, <2>2, <3>2
  <2>6. ASSUME NEW s \in Stacks, cpc[s] \in ItemCalls, NEW x \in Scanned(s)
        PROVE  x.inst \in Instances /\ Over(x.inst) /\ Over(x.inst)'
    <3>1. x.inst \in Instances /\ Over(x.inst)
      BY <2>1, <2>6 DEF DropInv, ItemsExist, OverInv, Item
    <3> QED
      BY <2>2, <3>1
  <2>7. \A i \in Instances : Over(i) /\ records[i] = None => records'[i] = None
    BY <1>2, <2>3 DEF DeliveryEffect
  <2>8. ASSUME NEW e \in Deliveries, pc'[e] \in {"deleteCheck", "deleteRow"}
        PROVE  records'[e.inst] = None /\ (pc'[e] = "deleteRow" => Ref(e) \in deleted')
    <3>1. Over(e.inst)
      BY <2>5, <2>8 DEF Deregistering
    <3>2. CASE e # d
      BY <1>1, <1>3, <1>4, <2>1, <2>7, <2>8, <3>1, <3>2 DEF DropInv, GoneInv
    <3>3. CASE e = d /\ pc'[d] = "deleteCheck"
      <4>1. check[d] = Ref(d) /\ records[d.inst] \in {None, Ref(d)}
        <5>1. pc[d] = "deleteRecord"
          BY <1>2, <3>3 DEF DeliveryEffect
        <5> QED
          BY <1>1, <5>1 DEF Kept, OwnChecks, DropInv, ChecksExist, Deregistering, Ref
      <4> QED
        BY <1>2, <3>3, <4>1 DEF DeliveryEffect
    <3>4. CASE e = d /\ pc'[d] = "deleteRow"
      <4>1. pc[d] = "deleteCheck" /\ UNCHANGED records
        BY <1>2, <3>4 DEF DeliveryEffect
      <4>2. check[d] = Ref(d) /\ Ref(d) \in live' \cup deleted'
        BY <1>1, <1>4, <4>1 DEF Kept, OwnChecks, DropInv, ChecksExist, Deregistering, Ref
      <4>3. Ref(d) \in deleted'
        BY <1>2, <3>4, <4>2 DEF DeliveryEffect
      <4> QED
        BY <2>1, <3>4, <4>1, <4>3 DEF DropInv, GoneInv
    <3> QED
      BY <2>8, <3>2, <3>3, <3>4
  <2>9. ASSUME NEW s \in Stacks, cpc[s] \in {"itemCheck", "itemRow"}
        PROVE  /\ records'[item[s].inst] = None
               /\ cpc[s] = "itemRow" => item[s].check \in deleted'
    <3>1. item[s].inst \in Instances /\ Over(item[s].inst)
      BY <2>6, <2>9
    <3> QED
      BY <1>4, <2>1, <2>7, <2>9, <3>1 DEF DropInv, GoneInv
  <2>10. GoneInv'
    BY <2>8, <2>9 DEF GoneInv, Ref
  <2> QED
    BY <2>4, <2>5, <2>6, <2>10
<1>8. OverInv' /\ GoneInv'
  BY <1>7 DEF OverInv, GoneInv
<1> QED
  BY <1>5, <1>6, <1>8 DEF DropInv

RowsOf(s) == {[inst |-> i, check |-> registry[s][i]] : i \in {j \in Instances : registry[s][j] # None}}

\* How a step of a cleanup leads to the calls for an item.
CleanupEntersItem(s) ==
  /\ \A t \in Stacks \ {s} : cpc'[t] = cpc[t] /\ work'[t] = work[t] /\ item'[t] = item[t]
  /\ cpc'[s] \in ItemCalls => \/ cpc[s] \in ItemCalls /\ Scanned(s)' \subseteq Scanned(s)
                              \/ Scanned(s)' \subseteq RowsOf(s)
  /\ faults' = 0 /\ cpc'[s] \in {"itemCheck", "itemRow"} =>
       /\ item'[s] = item[s]
       /\ \/ cpc[s] = "itemRecord" /\ cpc'[s] = "itemCheck" /\ Route53DeleteRecord(item[s])
          \/ cpc[s] = "itemCheck" /\ cpc'[s] = "itemRow" /\ Route53DeleteCheck(item[s].check)
          \/ cpc[s] = cpc'[s]

LEMMA NextOfEnters ==
  ASSUME TeardownTypeOK, NEW s \in Stacks, NEW items, NEW nexts \in SUBSET items, NEW body, NEW after,
         NextOf(s, items, nexts, body, after)
  PROVE  /\ \A t \in Stacks \ {s} : cpc'[t] = cpc[t] /\ work'[t] = work[t] /\ item'[t] = item[t]
         /\ \/ cpc'[s] = after
            \/ cpc'[s] = body /\ Scanned(s)' \subseteq items
  BY DEF NextOf, TeardownTypeOK, Scanned

LEMMA CleanupEnters ==
  ASSUME TeardownTypeOK, NEW s \in Stacks,
         DeleteStack(s) \/ RemoveLambdas(s) \/ CleanupStep(s) \/ CleanupTimeOut(s)
  PROVE  CleanupEntersItem(s)
<1> USE DEF CleanupEntersItem, ItemCalls
<1>0. ~(CallFailed(s) /\ faults' = 0)
  BY DEF CallFailed, Fault, TeardownTypeOK, TypeOK
<1>1. CASE DeleteStack(s) \/ RemoveLambdas(s) \/ CleanupTimeOut(s)
  BY <1>1 DEF DeleteStack, RemoveLambdas, CleanupTimeOut, TeardownTypeOK, Scanned
<1>2. CASE GetRegistryItems(s)
  <2>1. CASE NextRow(s, RowsOf(s))
    BY <2>1, NextOfEnters DEF NextRow
  <2>2. CASE cpc' = [cpc EXCEPT ![s] = "done"] /\ UNCHANGED <<work, item>>
    BY <2>2 DEF TeardownTypeOK
  <2> QED
    BY <1>2, <2>1, <2>2 DEF GetRegistryItems, RowsOf
<1>3. CASE CleanupItemRecord(s) \/ CleanupItemCheck(s)
  BY <1>0, <1>3 DEF CleanupItemRecord, CleanupItemCheck, Continue, TeardownTypeOK, Scanned
<1>4. CASE CleanupItemRow(s)
  <2>1. cpc[s] = "itemRow" /\ NextOf(s, work[s], work[s], "itemRecord", "list")
    BY <1>4 DEF CleanupItemRow, NextRow
  <2> QED
    BY <2>1, NextOfEnters DEF Scanned
<1>5. CASE ListOrphans(s)
  <2>1. CASE ListPage(s)
    <3>1. PICK page, after : NextOrphan(s, page, after) /\ after \in {"list", "done"}
      BY <2>1 DEF ListPage
    <3>2. FirstOf(1, page) \in SUBSET page
      BY FirstIsThere
    <3> QED
      BY <3>1, <3>2, NextOfEnters DEF NextOrphan
  <2>2. CASE Continue(s, "done")
    BY <2>2 DEF Continue, TeardownTypeOK
  <2> QED
    BY <1>5, <2>1, <2>2 DEF ListOrphans
<1>6. CASE OrphanCheck(s)
  BY <1>6 DEF OrphanCheck, Continue, TeardownTypeOK
<1>7. CASE OrphanRecord(s)
  <2>1. NextOf(s, work[s], FirstOf(1, work[s]), "orphanCheck", IF truncated[s] THEN "list" ELSE "done")
    BY <1>7 DEF OrphanRecord, NextOrphan
  <2>2. FirstOf(1, work[s]) \in SUBSET work[s]
    BY FirstIsThere
  <2> QED
    BY <2>1, <2>2, NextOfEnters
<1> QED
  BY <1>1, <1>2, <1>3, <1>4, <1>5, <1>6, <1>7 DEF CleanupStep

LEMMA CleanupRow ==
  ASSUME NEW s, DeleteStack(s) \/ RemoveLambdas(s) \/ CleanupStep(s) \/ CleanupTimeOut(s)
  PROVE  \/ UNCHANGED registry
         \/ cpc[s] = "itemRow" /\ registry' = [registry EXCEPT ![s][item[s].inst] = None]
  BY DEF DeleteStack, RemoveLambdas, CleanupStep, CleanupTimeOut, GetRegistryItems, CleanupItemRecord,
         CleanupItemCheck, CleanupItemRow, ListOrphans, OrphanCheck, OrphanRecord, vars

LEMMA CleanupDrops ==
  ASSUME Kept, DropInv, [TeardownNext]_allVars, CleanupNext
  PROVE  DropInv'
<1> USE DEF Scanned
<1>0. PICK s \in Stacks : DeleteStack(s) \/ RemoveLambdas(s) \/ CleanupStep(s) \/ CleanupTimeOut(s)
  BY DEF CleanupNext
<1>1. CleanupEntersItem(s)
  BY <1>0, CleanupEnters DEF Kept
<1>2. OnlyRemoves
  BY CleanupEffect DEF Kept
<1>3. \A d \in Deliveries : d.inst \in Instances /\ d.stack \in Stacks
  BY DEF Deliveries
<1>4. ChecksExist'
  BY <1>2, <1>3 DEF OnlyRemoves, DropInv, ChecksExist, Ref
<1>5. \A x \in RowsOf(s) : /\ x \in Item /\ x.check = HealthCheckCallerReference(x.inst)
                           /\ x.check \in live \cup deleted /\ registry[s][x.inst] # None
  <2> SUFFICES ASSUME NEW i \in Instances, registry[s][i] # None
               PROVE  /\ registry[s][i] \in CheckIds
                      /\ registry[s][i] = HealthCheckCallerReference(i)
                      /\ registry[s][i] \in live \cup deleted
    BY DEF RowsOf, Item
  <2>1. registry[s][i] \in CheckIds
    BY DEF Kept, TeardownTypeOK, TypeOK
  <2>2. registry[s][i] = HealthCheckCallerReference(i)
    BY DEF Kept, OwnChecks
  <2> QED
    BY <2>1, <2>2 DEF DropInv, ChecksExist
<1>6. ASSUME NEW t \in Stacks, cpc'[t] \in ItemCalls
      PROVE  \/ cpc[t] \in ItemCalls /\ Scanned(t)' \subseteq Scanned(t)
             \/ Scanned(t)' \subseteq RowsOf(s) /\ t = s
  BY <1>1, <1>6 DEF CleanupEntersItem
<1>7. ItemsExist'
  BY <1>2, <1>5, <1>6 DEF DropInv, ItemsExist, OnlyRemoves
<1>8. ASSUME faults' = 0
      PROVE  /\ \A t \in Stacks, i \in Instances : registry'[t][i] # None => Over(i)'
             /\ \A d \in Deliveries : pc'[d] \in Deregistering => Over(d.inst)'
             /\ \A t \in Stacks : cpc'[t] \in ItemCalls => \A x \in Scanned(t)' : Over(x.inst)'
             /\ GoneInv'
  <2>1. faults = 0
    BY <1>2, <1>8 DEF OnlyRemoves, Kept, TeardownTypeOK, TypeOK
  <2>2. \A i \in Instances : Over(i) => Over(i)'
    BY OverStays
  <2>3. \A t \in Stacks, i \in Instances : registry'[t][i] # None => Over(i)'
    BY <1>2, <2>1, <2>2 DEF OnlyRemoves, DropInv, OverInv
  <2>4. \A d \in Deliveries : pc'[d] \in Deregistering => Over(d.inst)'
    BY <1>2, <1>3, <2>1, <2>2 DEF OnlyRemoves, DropInv, OverInv
  <2>5. ASSUME NEW t \in Stacks, cpc'[t] \in ItemCalls, NEW x \in Scanned(t)'
        PROVE  Over(x.inst)'
    <3>1. CASE cpc[t] \in ItemCalls /\ x \in Scanned(t)
      <4>1. x.inst \in Instances /\ Over(x.inst)
        BY <2>1, <3>1 DEF DropInv, ItemsExist, OverInv, Item
      <4> QED
        BY <2>2, <4>1
    <3>2. CASE x \in RowsOf(s)
      <4>1. x.inst \in Instances /\ Over(x.inst)
        BY <1>5, <2>1, <3>2 DEF DropInv, OverInv, Item
      <4> QED
        BY <2>2, <4>1
    <3> QED
      BY <1>6, <2>5, <3>1, <3>2
  <2>6. ASSUME NEW d \in Deliveries
        PROVE  /\ pc'[d] \in {"deleteCheck", "deleteRow"} => records'[d.inst] = None
               /\ pc'[d] = "deleteRow" => Ref(d)' \in deleted'
    BY <1>2, <1>3, <2>1 DEF OnlyRemoves, DropInv, GoneInv, Ref
  <2>7. ASSUME NEW t \in Stacks, cpc'[t] \in {"itemCheck", "itemRow"}
        PROVE  /\ records'[item'[t].inst] = None
               /\ cpc'[t] = "itemRow" => item'[t].check \in deleted'
    <3>1. CASE cpc'[t] = cpc[t] /\ item'[t] = item[t]
      <4>1. item[t].inst \in Instances
        BY <2>7, <3>1 DEF DropInv, ItemsExist, ItemCalls, Item
      <4> QED
        BY <1>2, <2>1, <2>7, <3>1, <4>1 DEF OnlyRemoves, DropInv, GoneInv
    <3>2. CASE /\ t = s /\ cpc[s] = "itemRecord" /\ cpc'[s] = "itemCheck"
               /\ item'[s] = item[s] /\ Route53DeleteRecord(item[s])
      <4>1. /\ item[s].inst \in Instances
            /\ item[s].check = HealthCheckCallerReference(item[s].inst)
        BY <3>2 DEF DropInv, ItemsExist, ItemCalls, Item
      <4>2. records[item[s].inst] \in {None, item[s].check}
        BY <4>1 DEF Kept, OwnChecks
      <4> QED
        BY <3>2, <4>1, <4>2 DEF Route53DeleteRecord, Kept, TeardownTypeOK, TypeOK
    <3>3. CASE /\ t = s /\ cpc[s] = "itemCheck" /\ cpc'[s] = "itemRow"
               /\ item'[s] = item[s] /\ Route53DeleteCheck(item[s].check)
      <4>1. item[s].inst \in Instances /\ item[s].check \in live \cup deleted
        BY <3>3 DEF DropInv, ItemsExist, ItemCalls, Item
      <4>2. records'[item[s].inst] = None
        BY <1>2, <2>1, <3>3, <4>1 DEF OnlyRemoves, DropInv, GoneInv
      <4> QED
        BY <3>3, <4>1, <4>2 DEF Route53DeleteCheck
    <3>4. t # s => cpc'[t] = cpc[t] /\ item'[t] = item[t]
      BY <1>1 DEF CleanupEntersItem
    <3> QED
      BY <1>1, <1>8, <2>7, <3>1, <3>2, <3>3, <3>4 DEF CleanupEntersItem
  <2>8. GoneInv'
    BY <2>6, <2>7 DEF GoneInv
  <2> QED
    BY <2>3, <2>4, <2>5, <2>8
<1>9. OverInv' /\ GoneInv'
  BY <1>8 DEF OverInv, GoneInv
<1> QED
  BY <1>4, <1>7, <1>9 DEF DropInv

LEMMA Ec2Drops ==
  ASSUME Kept, DropInv, [TeardownNext]_allVars, UNCHANGED cleanupVars,
         NEW i \in Instances, Ec2Step(i)
  PROVE  DropInv'
<1>1. /\ UNCHANGED <<check, registry, records, live, deleted, faults>>
      /\ \A d \in Deliveries : pc'[d] \in {pc[d], "queued"}
  BY DEF Ec2Step, Launch, ShutDown, Terminate, ChangeState, Emit, route53
<1>2. \A j \in Instances : Over(j) => Over(j)'
  BY OverStays
<1>3. \A d \in Deliveries : d.inst \in Instances
  BY DEF Deliveries
<1>4. ChecksExist' /\ ItemsExist' /\ GoneInv'
  BY <1>1 DEF DropInv, ChecksExist, ItemsExist, GoneInv, Deregistering, Ref, Scanned, cleanupVars
<1>5. OverInv'
  <2>1. ASSUME faults = 0, NEW s \in Stacks, cpc[s] \in ItemCalls, NEW x \in Scanned(s)
        PROVE  Over(x.inst)'
    <3>1. x.inst \in Instances /\ Over(x.inst)
      BY <2>1 DEF DropInv, ItemsExist, OverInv, Item
    <3> QED
      BY <1>2, <3>1
  <2>2. ASSUME faults = 0, NEW d \in Deliveries, pc'[d] \in Deregistering
        PROVE  Over(d.inst)'
    BY <1>1, <1>2, <1>3, <2>2 DEF DropInv, OverInv, Deregistering
  <2>3. ASSUME faults = 0, NEW s \in Stacks, NEW j \in Instances, registry[s][j] # None
        PROVE  Over(j)'
    BY <1>2, <2>3 DEF DropInv, OverInv
  <2> QED
    BY <1>1, <2>1, <2>2, <2>3 DEF OverInv, Scanned, cleanupVars
<1> QED
  BY <1>4, <1>5 DEF DropInv

LEMMA DropStep ==
  ASSUME Copies = {1}, Kept, DropInv, [TeardownNext]_allVars
  PROVE  DropInv'
<1>1. CASE CleanupNext
  BY <1>1, CleanupDrops
<1>2. ASSUME NEW i \in Instances, Ec2Step(i), UNCHANGED cleanupVars PROVE DropInv'
  BY <1>2, Ec2Drops
<1>3. ASSUME NEW d \in Deliveries, DeliveryStep(d), UNCHANGED cleanupVars PROVE DropInv'
  BY <1>3, DeliveryDrops
<1>4. CASE UNCHANGED allVars
  BY <1>4 DEF allVars, vars, cleanupVars, DropInv, ChecksExist, ItemsExist, OverInv, GoneInv, Over,
     OwnerOf, Ref, Scanned
<1> QED
  BY <1>1, <1>2, <1>3, <1>4 DEF TeardownNext, LifecycleStep, CleanupNext

LEMMA DropInvariant == ASSUME Copies = {1} PROVE TeardownSpec => []DropInv
<1>1. TeardownInit => DropInv
  BY DEF TeardownInit, Init, DropInv, ChecksExist, ItemsExist, OverInv, GoneInv, ItemCalls,
         Deregistering
<1>2. Kept /\ DropInv /\ [TeardownNext]_allVars => DropInv'
  BY DropStep
<1> QED
  BY <1>1, <1>2, KeptInvariant, PTL DEF TeardownSpec

\* If EventBridge repeats no delivery, neither a deregistration nor a cleanup
\* (dns-cleanup.ts:116-166) drops a row before its record and its check, however
\* they interleave with each other and with what is left of registrations,
\* until a call fails.
THEOREM CleanupRowGoesLastHolds ==
  ASSUME Copies = {1} PROVE TeardownSpec => CleanupRowGoesLast
<1> DEFINE Last ==
      \A s \in Stacks, i \in Instances :
        (registry[s][i] # None /\ registry'[s][i] = None /\ faults = 0)
          => records[i] = None /\ registry[s][i] \in deleted
<1>1. Kept /\ DropInv /\ [TeardownNext]_allVars => [Last]_allVars
  <2> SUFFICES ASSUME Kept, DropInv, TeardownNext, NEW s \in Stacks, NEW i \in Instances,
                      registry[s][i] # None, registry'[s][i] = None, faults = 0
               PROVE  records[i] = None /\ registry[s][i] \in deleted
    OBVIOUS
  <2>1. Over(i) /\ registry[s][i] = HealthCheckCallerReference(i)
    BY DEF DropInv, OverInv, Kept, OwnChecks
  <2>2. ASSUME NEW j \in Instances, Ec2Step(j) PROVE FALSE
    BY <2>2 DEF Ec2Step, Launch, ShutDown, Terminate, ChangeState
  <2>3. ASSUME NEW d \in Deliveries, DeliveryStep(d)
        PROVE  records[i] = None /\ registry[s][i] \in deleted
    <3>1. DeliveryEffect(d)
      BY <2>3, DeliveryDoes DEF Kept, TeardownTypeOK
    <3>2. ~(i = d.inst /\ Registering(d))
      BY <2>1, NotOver
    <3>3. i = d.inst /\ pc[d] = "deleteRow"
      BY <3>1, <3>2 DEF DeliveryEffect
    <3> QED
      BY <2>1, <3>3 DEF DropInv, GoneInv, Ref
  <2>4. ASSUME NEW t \in Stacks,
               DeleteStack(t) \/ RemoveLambdas(t) \/ CleanupStep(t) \/ CleanupTimeOut(t)
        PROVE  records[i] = None /\ registry[s][i] \in deleted
    <3>1. cpc[t] = "itemRow" /\ registry' = [registry EXCEPT ![t][item[t].inst] = None]
      BY <2>4, CleanupRow
    <3>2. i = item[t].inst
      BY <3>1 DEF Kept, TeardownTypeOK, TypeOK
    <3>3. item[t].check = HealthCheckCallerReference(i)
      BY <3>1, <3>2 DEF DropInv, ItemsExist, ItemCalls, Scanned
    <3> QED
      BY <2>1, <3>1, <3>2, <3>3 DEF DropInv, GoneInv
  <2>5. CASE UNCHANGED allVars
    BY <2>5 DEF allVars, vars
  <2> QED
    BY <2>2, <2>3, <2>4, <2>5 DEF TeardownNext, LifecycleStep
<1> QED
  BY <1>1, KeptInvariant, DropInvariant, PTL DEF TeardownSpec, CleanupRowGoesLast

------------------------------------------------------------------------------
(* What a cleanup leaves. *)

LEMMA Least ==
  ASSUME NEW T \in SUBSET Nat, T # {}
  PROVE  \E x \in T : \A y \in T : x <= y
<1>1. IsWellFoundedOn(OpToRel(<, Nat), Nat)
  BY NatLessThanWellFounded
<1>2. \E x \in T : \A y \in T : <<y, x>> \notin OpToRel(<, Nat)
  BY <1>1, WFMin
<1>3. \E x \in T : \A y \in T : ~(y < x)
  BY <1>2 DEF OpToRel
<1> QED
  BY <1>3

\* Listed records, one for each of some instances.
ListedOf(ids) == {[inst |-> i, check |-> records[i]] : i \in ids}

LEMMA FirstHasNoneBefore ==
  ASSUME TeardownTypeOK, NEW page \in SUBSET ListedOf(Instances), NEW x \in page
  PROVE  x \in FirstOf(1, page) <=> \A y \in page : ~Before(y, x)
<1> DEFINE sooner == {y \in page : Before(y, x)}
           f == [i \in Instances |-> [inst |-> i, check |-> records[i]]]
<1>1. IsFiniteSet(ListedOf(Instances))
  <2>1. f \in Surjection(Instances, ListedOf(Instances))
    BY DEF Surjection, ListedOf
  <2> QED
    BY <2>1, FS_Surjection, InstancesAssumption
<1>2. sooner \in SUBSET ListedOf(Instances)
  OBVIOUS
<1>3. IsFiniteSet(sooner)
  BY <1>1, <1>2, FS_Subset
<1>4. Cardinality(sooner) \in Nat /\ (Cardinality(sooner) = 0 <=> sooner = {})
  BY <1>3, FS_CardinalityType, FS_EmptySet
<1>5. x \in FirstOf(1, page) <=> Cardinality(sooner) < 1
  BY DEF FirstOf
<1> QED
  BY <1>4, <1>5

\* The first of the listed records exists, and no other has a smaller name.
LEMMA FirstOfListed ==
  ASSUME TeardownTypeOK, NEW page \in SUBSET ListedOf(Instances), page # {}
  PROVE  /\ FirstOf(1, page) # {}
         /\ \A x \in FirstOf(1, page), y \in page : Tags[x.inst].domain <= Tags[y.inst].domain
<1> DEFINE names == {Tags[x.inst].domain : x \in page}
<1>1. \A x \in page : x.inst \in Instances /\ x.inst \in Nat /\ Tags[x.inst].domain \in Nat
  BY InstancesAssumption, DomainAssumption DEF ListedOf
<1>2. names \in SUBSET Nat /\ names # {}
  BY <1>1
<1>3. PICK n \in names : \A m \in names : n <= m
  BY <1>2, Least
<1> DEFINE ids == {x.inst : x \in {y \in page : Tags[y.inst].domain = n}}
<1>4. ids \in SUBSET Nat /\ ids # {}
  BY <1>1, <1>3
<1>5. PICK k \in ids : \A m \in ids : k <= m
  BY <1>4, Least
<1>6. PICK x \in page : x.inst = k /\ Tags[x.inst].domain = n
  BY <1>5
<1>7. \A y \in page : n <= Tags[y.inst].domain
  BY <1>3
<1>8. \A y \in page : Tags[y.inst].domain = n => k <= y.inst
  BY <1>5
<1>9. x \in FirstOf(1, page)
  <2>1. \A y \in page : ~Before(y, x)
    BY <1>1, <1>6, <1>7, <1>8 DEF Before
  <2> QED
    BY <2>1, FirstHasNoneBefore
<1>10. ASSUME NEW z \in FirstOf(1, page), NEW y \in page
       PROVE  Tags[z.inst].domain <= Tags[y.inst].domain
  <2>1. z \in page /\ ~Before(y, z)
    BY <1>10, FirstHasNoneBefore DEF FirstOf
  <2> QED
    BY <1>1, <2>1 DEF Before
<1> QED
  BY <1>9, <1>10

OrphanCalls == {"orphanCheck", "orphanRecord"}

\* No registration of the instance is under way, and none can begin.
Quiet(i) == \A e \in Deliveries :
  e.inst = i /\ e.kind = "running" /\ e.stack = OwnerOf(i) => pc[e] \in Finished

\* The next page of records is not past the instance's.
Ahead(s, i) == Tags[i].domain >= cursor[s]

\* What a cleanup still has to delete of an instance, it will come to: the row is
\* among the scanned ones; the record is in this page, or in the pages to come.
Coming(s, i) ==
  /\ OwnerOf(i) = s /\ ec2[i] # "pending" /\ Quiet(i)
  /\ cpc[s] \in ItemCalls =>
       /\ cursor[s] = 0
       /\ registry[s][i] = None \/ \E x \in Scanned(s) : x.inst = i
  /\ cpc[s] \in OrphanCalls \cup {"list", "done"} => registry[s][i] = None
  /\ cpc[s] = "list" => records[i] = None \/ Ahead(s, i)
  /\ cpc[s] \in OrphanCalls =>
       \/ records[i] = None
       \/ \E x \in Scanned(s) : x.inst = i /\ x.check = HealthCheckCallerReference(i)
       \/ truncated[s] /\ Ahead(s, i)
  /\ cpc[s] = "done" => records[i] = None

ComingInv == \A s \in Stacks : \A i \in promised[s] : Coming(s, i)

LEMMA NotQuiet ==
  ASSUME Kept, NEW d \in Deliveries, Registering(d)
  PROVE  ~Quiet(d.inst)
<1>1. d.kind = "running" /\ pc[d] \notin Finished
  BY DEF Kept, KindInv, PcFitsKind, Registering, RegisterCalls, Finished
<1> QED
  BY <1>1, NotOver DEF Quiet

LEMMA QuietStays ==
  ASSUME Kept, [TeardownNext]_allVars, NEW i \in Instances, Quiet(i), ec2[i] # "pending"
  PROVE  Quiet(i)' /\ ec2'[i] # "pending"
<1> USE DEF Kept, TeardownTypeOK
<1>1. ASSUME NEW j \in Instances, Ec2Step(j) PROVE Quiet(i)' /\ ec2'[i] # "pending"
  <2>1. \A e \in Deliveries : e.kind = "running" /\ pc'[e] # pc[e] => ec2[e.inst] = "pending"
    BY <1>1 DEF Ec2Step, Launch, ShutDown, Terminate, ChangeState, Emit, TypeOK
  <2>2. Quiet(i)'
    BY <2>1 DEF Quiet, OwnerOf
  <2>3. ec2'[i] # "pending"
    BY <1>1 DEF Ec2Step, Launch, ShutDown, Terminate, ChangeState, TypeOK
  <2> QED
    BY <2>2, <2>3
<1>2. ASSUME NEW d \in Deliveries, DeliveryStep(d) PROVE Quiet(i)' /\ ec2'[i] # "pending"
  BY <1>2, StepOfOne DEF Quiet, OwnerOf
<1>3. CASE CleanupNext
  BY <1>3, CleanupEffect DEF OnlyRemoves, Quiet, OwnerOf
<1>4. CASE UNCHANGED allVars
  BY <1>4, SMTT(40) DEF allVars, vars, Quiet, OwnerOf
<1> QED
  BY <1>1, <1>2, <1>3, <1>4 DEF TeardownNext, LifecycleStep, CleanupNext

\* Nothing is registered of a quiet instance.
LEMMA QuietLoses ==
  ASSUME Kept, [TeardownNext]_allVars, NEW i \in Instances, Quiet(i), NEW s \in Stacks
  PROVE  records'[i] \in {records[i], None} /\ registry'[s][i] \in {registry[s][i], None}
<1>1. ASSUME NEW j \in Instances, Ec2Step(j) PROVE UNCHANGED <<records, registry>>
  BY <1>1 DEF Ec2Step, Launch, ShutDown, Terminate, ChangeState, route53
<1>2. ASSUME NEW d \in Deliveries, DeliveryStep(d)
      PROVE  records'[i] \in {records[i], None} /\ registry'[s][i] \in {registry[s][i], None}
  <2>1. DeliveryEffect(d)
    BY <1>2, DeliveryDoes DEF Kept, TeardownTypeOK
  <2>2. ~(i = d.inst /\ Registering(d))
    BY NotQuiet
  <2> QED
    BY <2>1, <2>2 DEF DeliveryEffect
<1>3. CASE CleanupNext
  BY <1>3, CleanupEffect DEF OnlyRemoves, Kept
<1>4. CASE UNCHANGED allVars
  BY <1>4 DEF allVars, vars
<1> QED
  BY <1>1, <1>2, <1>3, <1>4 DEF TeardownNext, LifecycleStep, CleanupNext

LEMMA StillComing ==
  ASSUME NEW s \in Stacks, NEW i \in Instances, Coming(s, i), Quiet(i)', ec2'[i] # "pending",
         records'[i] \in {records[i], None}, registry'[s][i] \in {registry[s][i], None},
         cpc'[s] = cpc[s], work'[s] = work[s], item'[s] = item[s],
         cursor'[s] = cursor[s], truncated'[s] = truncated[s]
  PROVE  Coming(s, i)'
  BY DEF Coming, Scanned, Ahead, OwnerOf

\* A cleanup leaves the others alone.
LEMMA CleanupOfOne ==
  ASSUME TeardownTypeOK, NEW s \in Stacks, NEW t \in Stacks \ {s},
         DeleteStack(s) \/ RemoveLambdas(s) \/ CleanupStep(s) \/ CleanupTimeOut(s)
  PROVE  /\ cpc'[t] = cpc[t] /\ work'[t] = work[t] /\ item'[t] = item[t]
         /\ cursor'[t] = cursor[t] /\ truncated'[t] = truncated[t] /\ promised'[t] = promised[t]
<1> USE DEF CallDone, CallFailed, TeardownTypeOK
<1>1. /\ cpc'[t] = cpc[t] /\ work'[t] = work[t] /\ item'[t] = item[t]
  BY CleanupEnters DEF CleanupEntersItem
<1>2. CASE DeleteStack(s) \/ RemoveLambdas(s) \/ CleanupTimeOut(s)
  BY <1>1, <1>2 DEF DeleteStack, RemoveLambdas, CleanupTimeOut
<1>3. CASE GetRegistryItems(s)
  BY <1>1, <1>3 DEF GetRegistryItems
<1>4. CASE CleanupItemRecord(s) \/ CleanupItemCheck(s) \/ CleanupItemRow(s)
  BY <1>1, <1>4 DEF CleanupItemRecord, CleanupItemCheck, CleanupItemRow, Continue
<1>5. CASE ListOrphans(s)
  BY <1>1, <1>5 DEF ListOrphans, ListPage, Continue
<1>6. CASE OrphanCheck(s) \/ OrphanRecord(s)
  BY <1>1, <1>6 DEF OrphanCheck, OrphanRecord, Continue
<1> QED
  BY <1>2, <1>3, <1>4, <1>5, <1>6 DEF CleanupStep

LEMMA NextOfAll ==
  ASSUME TeardownTypeOK, NEW s \in Stacks, NEW items, NEW nexts \in SUBSET items, NEW body, NEW after,
         NextOf(s, items, nexts, body, after)
  PROVE  \/ items = {} /\ cpc'[s] = after
         \/ cpc'[s] = body /\ Scanned(s)' = items
  BY DEF NextOf, TeardownTypeOK, Scanned

LEMMA ListComes ==
  ASSUME Kept, NEW s \in Stacks, NEW i \in Instances, OwnerOf(i) = s,
         records[i] = None \/ Ahead(s, i), ListPage(s), UNCHANGED records
  PROVE  \/ records'[i] = None /\ cpc'[s] \in {"orphanCheck", "list", "done"}
         \/ cpc'[s] = "list" /\ Ahead(s, i)'
         \/ /\ cpc'[s] = "orphanCheck"
            /\ \/ \E x \in Scanned(s)' : x.inst = i /\ x.check = HealthCheckCallerReference(i)
               \/ truncated'[s] /\ Ahead(s, i)'
<1> DEFINE left == {x \in ZoneRecords(s) : Tags[x.inst].domain >= cursor[s]}
           page == FirstOf(PageSize, left)
           over == FirstOf(1, left \ page)
           domains == {Tags[x.inst].domain : x \in over}
           r == [inst |-> i, check |-> records[i]]
<1>1. TeardownTypeOK
  BY DEF Kept
<1>2. /\ truncated' = [truncated EXCEPT ![s] = over # {}]
      /\ cursor' = [cursor EXCEPT ![s] = IF over = {} THEN 0 ELSE CHOOSE n \in domains : TRUE]
      /\ NextOf(s, page, FirstOf(1, page), "orphanCheck", IF over = {} THEN "done" ELSE "list")
  BY DEF ListPage, NextOrphan
<1>3. left \in SUBSET ListedOf(Instances)
  BY DEF ZoneRecords, ListedOf
<1>4. left \ page \in SUBSET ListedOf(Instances) /\ page \in SUBSET left
  BY <1>3, FirstIsThere, PageSizeAssumption
<1>5. /\ truncated'[s] = (over # {})
      /\ cursor'[s] = IF over = {} THEN 0 ELSE CHOOSE n \in domains : TRUE
  <2> HIDE DEF over, domains
  <2> QED
    BY <1>1, <1>2 DEF TeardownTypeOK
<1>6. \/ page = {} /\ cpc'[s] = IF over = {} THEN "done" ELSE "list"
      \/ cpc'[s] = "orphanCheck" /\ Scanned(s)' = page
  <2>1. FirstOf(1, page) \in SUBSET page
    BY FirstIsThere
  <2> HIDE DEF page, over
  <2> QED
    BY <1>1, <1>2, <2>1, NextOfAll
<1>7. ASSUME records[i] # None
      PROVE  r \in left /\ r.inst = i /\ r.check = HealthCheckCallerReference(i)
  <2>1. records[i] = HealthCheckCallerReference(i)
    BY <1>7 DEF Kept, OwnChecks
  <2>2. r \in ZoneRecords(s)
    BY <1>7 DEF ZoneRecords
  <2> QED
    BY <1>7, <2>1, <2>2 DEF Ahead
<1>8. ASSUME records[i] # None, r \notin page
      PROVE  over # {} /\ Ahead(s, i)'
  <2>1. r \in left \ page
    BY <1>7, <1>8
  <2>2. /\ over # {}
        /\ \A x \in over : Tags[x.inst].domain <= Tags[i].domain
    <3> HIDE DEF left, page
    <3> QED
      BY <1>1, <1>4, <2>1, FirstOfListed
  <2>3. PICK y \in over : TRUE
    BY <2>2
  <2>4. Tags[y.inst].domain \in domains
    BY <2>3
  <2>5. \A n \in domains : n <= Tags[i].domain
    BY <2>2
  <2>6. cursor'[s] \in domains
    <3> HIDE DEF over, domains
    <3> QED
      BY <1>5, <2>2, <2>4
  <2>7. cursor'[s] <= Tags[i].domain
    BY <2>5, <2>6
  <2>8. Tags[i].domain \in Nat /\ cursor'[s] \in Nat
    <3>1. \A x \in over : Tags[x.inst].domain \in Nat
      <4>1. \A x \in over : x.inst \in Instances
        BY <1>4, FirstIsThere DEF FirstOf, ListedOf
      <4> QED
        BY <4>1, DomainAssumption
    <3> QED
      BY <2>6, <3>1, DomainAssumption
  <2> QED
    BY <2>2, <2>7, <2>8 DEF Ahead
<1> HIDE DEF left, page, over, domains
<1>9. CASE records[i] = None
  BY <1>6, <1>9
<1>10. CASE records[i] # None /\ r \in page
  BY <1>6, <1>7, <1>10
<1>11. CASE records[i] # None /\ r \notin page
  BY <1>5, <1>6, <1>8, <1>11
<1> QED
  BY <1>9, <1>10, <1>11

LEMMA CleanupComes ==
  ASSUME Kept, [TeardownNext]_allVars, NEW s \in Stacks, NEW i \in Instances,
         DeleteStack(s) \/ RemoveLambdas(s) \/ CleanupStep(s) \/ CleanupTimeOut(s),
         i \in promised[s] => Coming(s, i), i \in promised'[s]
  PROVE  Coming(s, i)'
<1> USE DEF OrphanCalls, ItemCalls
<1>1. TeardownTypeOK /\ CleanupNext
  BY DEF Kept, CleanupNext
<1>2. CASE DeleteStack(s)
  <2>1. cpc'[s] = "scan" /\ i \in Promise(s)
    BY <1>1, <1>2 DEF DeleteStack, TeardownTypeOK
  <2>2. OwnerOf(i) = s /\ Quiet(i) /\ ec2[i] # "pending"
    BY <2>1 DEF Promise, Quiet
  <2> QED
    BY <2>1, <2>2, QuietStays DEF Coming, OwnerOf
<1>3. ASSUME ~DeleteStack(s)
      PROVE  Coming(s, i)'
  <2>1. ~CallFailed(s)
    BY <1>1 DEF CallFailed, TeardownTypeOK
  <2>2. i \in promised[s]
    BY <1>3, <2>1 DEF RemoveLambdas, CleanupStep, CleanupTimeOut, GetRegistryItems, CleanupItemRecord,
       CleanupItemCheck, CleanupItemRow, ListOrphans, OrphanCheck, OrphanRecord, CallDone
  <2>3. Coming(s, i)
    BY <2>2
  <2>4. Quiet(i)' /\ ec2'[i] # "pending" /\ OwnerOf(i) = s /\ OwnerOf(i)' = s
    BY <2>3, QuietStays DEF Coming, OwnerOf
  <2>5. records'[i] \in {records[i], None} /\ registry'[s][i] \in {registry[s][i], None}
    BY <2>3, QuietLoses DEF Coming
  <2>6. CASE RemoveLambdas(s)
    BY <2>3, <2>4, <2>5, <2>6, StillComing DEF RemoveLambdas
  <2>7. CASE GetRegistryItems(s)
    <3>1. cursor'[s] = 0 /\ NextRow(s, RowsOf(s)) /\ UNCHANGED registry
      BY <1>1, <2>1, <2>7 DEF GetRegistryItems, RowsOf, TeardownTypeOK
    <3>2. \/ RowsOf(s) = {} /\ cpc'[s] = "list"
          \/ cpc'[s] = "itemRecord" /\ Scanned(s)' = RowsOf(s)
      BY <1>1, <3>1, NextOfAll DEF NextRow
    <3>3. ASSUME registry[s][i] # None
          PROVE  \E x \in RowsOf(s) : x.inst = i
      <4>1. [inst |-> i, check |-> registry[s][i]] \in RowsOf(s)
        BY <3>3 DEF RowsOf
      <4> QED
        BY <4>1
    <3>4. Tags[i].domain \in Nat
      BY DomainAssumption
    <3> QED
      BY <2>4, <3>1, <3>2, <3>3, <3>4 DEF Coming, Ahead
  <2>8. CASE CleanupItemRecord(s) \/ CleanupItemCheck(s)
    <3>1. /\ cpc[s] \in ItemCalls /\ cpc'[s] \in ItemCalls
          /\ work'[s] = work[s] /\ item'[s] = item[s] /\ cursor'[s] = cursor[s]
      BY <1>1, <2>8 DEF CleanupItemRecord, CleanupItemCheck, Continue, TeardownTypeOK
    <3> QED
      BY <2>3, <2>4, <2>5, <3>1 DEF Coming, Scanned
  <2>9. CASE CleanupItemRow(s)
    <3>1. /\ cpc[s] = "itemRow" /\ cursor'[s] = cursor[s]
          /\ registry' = [registry EXCEPT ![s][item[s].inst] = None]
          /\ NextOf(s, work[s], work[s], "itemRecord", "list")
      BY <2>1, <2>9 DEF CleanupItemRow, NextRow
    <3>2. \/ work[s] = {} /\ cpc'[s] = "list"
          \/ cpc'[s] = "itemRecord" /\ Scanned(s)' = work[s]
      BY <1>1, <3>1, NextOfAll
    <3>3. item[s].inst = i => registry'[s][i] = None
      BY <1>1, <3>1 DEF TeardownTypeOK, TypeOK
    <3>4. Tags[i].domain \in Nat
      BY DomainAssumption
    <3>5. cursor[s] = 0 /\ (registry[s][i] = None \/ \E x \in Scanned(s) : x.inst = i)
      BY <2>3, <3>1 DEF Coming
    <3>6. registry'[s][i] = None \/ \E x \in work[s] : x.inst = i
      BY <2>5, <3>3, <3>5 DEF Scanned
    <3> QED
      BY <2>4, <3>1, <3>2, <3>4, <3>5, <3>6 DEF Coming, Ahead
  <2>10. CASE ListOrphans(s)
    <3>1. cpc[s] = "list" /\ ListPage(s) /\ UNCHANGED <<records, registry>>
      BY <2>1, <2>10 DEF ListOrphans, route53
    <3>2. registry[s][i] = None /\ (records[i] = None \/ Ahead(s, i))
      BY <2>3, <3>1 DEF Coming
    <3> QED
      BY <2>4, <3>1, <3>2, ListComes DEF Coming
  <2>11. CASE OrphanCheck(s)
    <3>1. /\ cpc[s] = "orphanCheck" /\ cpc'[s] = "orphanRecord" /\ truncated'[s] = truncated[s]
          /\ work'[s] = work[s] /\ item'[s] = item[s] /\ cursor'[s] = cursor[s]
      BY <1>1, <2>11 DEF OrphanCheck, Continue, TeardownTypeOK
    <3> QED
      BY <2>3, <2>4, <2>5, <3>1 DEF Coming, Scanned, Ahead
  <2>12. CASE OrphanRecord(s)
    <3>1. /\ cpc[s] = "orphanRecord" /\ UNCHANGED <<registry, cursor, truncated>>
          /\ Route53DeleteRecord(item[s])
          /\ NextOf(s, work[s], FirstOf(1, work[s]), "orphanCheck",
                    IF truncated[s] THEN "list" ELSE "done")
      BY <2>1, <2>12 DEF OrphanRecord, NextOrphan
    <3>2. \/ work[s] = {} /\ cpc'[s] = IF truncated[s] THEN "list" ELSE "done"
          \/ cpc'[s] = "orphanCheck" /\ Scanned(s)' = work[s]
      <4>1. FirstOf(1, work[s]) \in SUBSET work[s]
        BY FirstIsThere
      <4> QED
        BY <1>1, <3>1, <4>1, NextOfAll
    <3>3. item[s].inst = i /\ item[s].check = HealthCheckCallerReference(i) => records'[i] = None
      BY <1>1, <3>1 DEF Route53DeleteRecord, Kept, OwnChecks, TeardownTypeOK, TypeOK
    <3>4. /\ registry[s][i] = None
          /\ \/ records[i] = None
             \/ \E x \in Scanned(s) : x.inst = i /\ x.check = HealthCheckCallerReference(i)
             \/ truncated[s] /\ Ahead(s, i)
      BY <2>3, <3>1 DEF Coming
    <3>5. \/ records'[i] = None
          \/ \E x \in work[s] : x.inst = i /\ x.check = HealthCheckCallerReference(i)
          \/ truncated'[s] /\ truncated[s] /\ Ahead(s, i)'
      BY <2>5, <3>1, <3>3, <3>4 DEF Scanned, Ahead
    <3> QED
      BY <2>4, <3>1, <3>2, <3>4, <3>5 DEF Coming
  <2>13. ~CleanupTimeOut(s)
    BY <2>1 DEF CleanupTimeOut
  <2> QED
    BY <1>3, <2>6, <2>7, <2>8, <2>9, <2>10, <2>11, <2>12, <2>13 DEF CleanupStep
<1> QED
  BY <1>2, <1>3

LEMMA ComingStep == Kept /\ ComingInv /\ [TeardownNext]_allVars => ComingInv'
<1> SUFFICES ASSUME Kept, ComingInv, [TeardownNext]_allVars, NEW s \in Stacks, NEW i \in promised'[s]
             PROVE  Coming(s, i)'
  BY DEF ComingInv
<1>1. i \in Instances
  BY KeptStep DEF Kept, TeardownTypeOK
<1>2. ASSUME /\ cpc'[s] = cpc[s] /\ work'[s] = work[s] /\ item'[s] = item[s]
             /\ cursor'[s] = cursor[s] /\ truncated'[s] = truncated[s]
             /\ promised'[s] = promised[s]
      PROVE  Coming(s, i)'
  <2>1. Coming(s, i)
    BY <1>2 DEF ComingInv
  <2>2. Quiet(i)' /\ ec2'[i] # "pending"
    BY <1>1, <2>1, QuietStays DEF Coming
  <2>3. records'[i] \in {records[i], None} /\ registry'[s][i] \in {registry[s][i], None}
    BY <1>1, <2>1, QuietLoses DEF Coming
  <2> QED
    BY <1>1, <1>2, <2>1, <2>2, <2>3, StillComing
<1>3. CASE UNCHANGED cleanupVars
  BY <1>2, <1>3 DEF cleanupVars
<1>4. ASSUME NEW t \in Stacks,
             DeleteStack(t) \/ RemoveLambdas(t) \/ CleanupStep(t) \/ CleanupTimeOut(t)
      PROVE  Coming(s, i)'
  <2>1. CASE t = s
    BY <1>1, <1>4, <2>1, CleanupComes DEF ComingInv
  <2>2. CASE t # s
    <3>1. s \in Stacks \ {t}
      BY <2>2
    <3> QED
      BY <1>2, <1>4, <3>1, CleanupOfOne DEF Kept
  <2> QED
    BY <2>1, <2>2
<1> QED
  BY <1>3, <1>4 DEF TeardownNext, LifecycleStep, allVars

\* However registrations, deregistrations and the cleanups of other stacks
\* interleave with it, and however often EventBridge repeats an event, a cleanup
\* none of whose calls failed has left nothing of the instances whose
\* registrations were over when it was invoked: neither the row-by-row part nor
\* the paging of the orphan scan (dns-cleanup.ts:116-166, 169-251) skips one.
THEOREM SettledAreCleanedHolds == TeardownSpec => []SettledAreCleaned
<1>1. TeardownInit => ComingInv
  BY DEF TeardownInit, ComingInv
<1>2. Kept /\ ComingInv => SettledAreCleaned
  <2> SUFFICES ASSUME Kept, ComingInv, NEW s \in Stacks, cpc[s] = "done", NEW i \in promised[s]
               PROVE  ~Tracked(i) /\ records[i] = None
    BY DEF SettledAreCleaned
  <2>1. Coming(s, i) /\ i \in Instances
    BY DEF ComingInv, Kept, TeardownTypeOK
  <2>2. OwnerOf(i) = s /\ registry[s][i] = None /\ records[i] = None
    BY <2>1 DEF Coming
  <2> QED
    BY <2>1, <2>2 DEF Kept, OwnedOnly, Tracked
<1> QED
  BY <1>1, <1>2, ComingStep, KeptInvariant, PTL DEF TeardownSpec
==============================================================================
