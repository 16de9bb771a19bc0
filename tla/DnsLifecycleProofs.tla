-------------------------- MODULE DnsLifecycleProofs --------------------------
(***************************************************************************)
(* Proofs about DnsLifecycle, for any number of stacks, instances,         *)
(* attempts and faults.                                                    *)
(***************************************************************************)
EXTENDS DnsLifecycle, FiniteSetTheorems, TLAPS

LEMMA TypeInit == Init => TypeOK
  BY CopiesAssumption DEF Init, TypeOK, Ec2States, Finished

LEMMA RefIsCheckId ==
  ASSUME NEW i \in Instances
  PROVE  HealthCheckCallerReference(i) \in CheckIds
  BY DEF CheckIds

\* The types of what an invocation owns.
InvocationTypeOK ==
  /\ pc \in [Deliveries -> {"idle", "queued"} \cup Finished \cup Calls]
  /\ attempt \in [Deliveries -> Nat]
  /\ check \in [Deliveries -> CheckIds \cup {None}]
  /\ polls \in [Deliveries -> Nat]

LEMMA GotoType ==
  ASSUME TypeOK, NEW d \in Deliveries, NEW next \in Calls, Goto(d, next)
  PROVE  InvocationTypeOK'
  BY DEF TypeOK, Goto, InvocationTypeOK

LEMMA LeaveType ==
  ASSUME TypeOK, NEW d \in Deliveries,
         NEW next \in {"idle", "queued"} \cup Finished, Leave(d, next)
  PROVE  InvocationTypeOK'
  BY DEF TypeOK, Leave, InvocationTypeOK

LEMMA ReturnType ==
  ASSUME TypeOK, NEW d \in Deliveries, Return(d)
  PROVE  InvocationTypeOK'
  BY LeaveType DEF Return, Finished

LEMMA ErrorType ==
  ASSUME TypeOK, NEW d \in Deliveries, NEW call \in Calls, OnError(d, call)
  PROVE  InvocationTypeOK'
<1>1. CASE Return(d)
  BY <1>1, ReturnType
<1>2. CASE Goto(d, "undo")
  BY <1>2, GotoType DEF Calls, RegisterCalls
<1>3. CASE Throw(d)
  BY <1>3, LeaveType DEF Throw, Finished
<1> QED
  BY <1>1, <1>2, <1>3 DEF OnError

LEMMA TypeStep == TypeOK /\ [Next]_vars => TypeOK'
<1> SUFFICES ASSUME TypeOK, [Next]_vars PROVE TypeOK'
  OBVIOUS
<1> USE DEF TypeOK, Finished, Calls, RegisterCalls, DeregisterCalls, Ec2States,
            Kinds, route53, invocation
<1>1. ASSUME NEW i \in Instances, Ec2Step(i) PROVE TypeOK'
  BY <1>1 DEF Ec2Step, Launch, ShutDown, Terminate, ChangeState, Emit
<1>2. ASSUME NEW d \in Deliveries, DeliveryStep(d) PROVE TypeOK'
  <2> d.inst \in Instances /\ d.stack \in Stacks
    BY DEF Deliveries
  <2> USE DEF Goto, Leave, Return, Throw, Fault, NoFault, LostReply, OnError,
              NullOnError, InTryBlock, First,
              Elsewhere, Replied, Route53DeleteCheck
  <2>1. CASE Redeliver(d)
    BY <2>1 DEF Redeliver
  <2>2. CASE Start(d)
    BY <2>2 DEF Start, Handler
  <2>3. CASE RegisterGetItem(d)
    BY <2>3 DEF RegisterGetItem
  <2>4. CASE DescribeInstance(d)
    BY <2>4 DEF DescribeInstance
  <2>5. CASE GetDnsConfigFromTags(d)
    BY <2>5, SMTT(40) DEF GetDnsConfigFromTags
  <2>6. CASE CreateHealthCheck(d)
    BY <2>6, RefIsCheckId, SMTT(40) DEF CreateHealthCheck
  <2>7. CASE GetHealthCheck(d)
    BY <2>7, SMTT(40) DEF GetHealthCheck
  <2>8. CASE UpsertRecord(d)
    BY <2>8, SMTT(40) DEF UpsertRecord
  <2>9. CASE WaitForChange(d)
    BY <2>9 DEF WaitForChange
  <2>10. CASE VerifyDnsRecord(d)
    BY <2>10 DEF VerifyDnsRecord
  <2>11. CASE RegisterPutItem(d)
    <3>1. registry' \in [Stacks -> [Instances -> CheckIds \cup {None}]]
      BY <2>11 DEF RegisterPutItem
    <3>2. UNCHANGED <<ec2, records, live, deleted>> /\ faults' \in Nat
      BY <2>11 DEF RegisterPutItem
    <3>3. Return(d) \/ OnError(d, pc[d])
      BY <2>11 DEF RegisterPutItem
    <3>4. InvocationTypeOK'
      BY <3>3, ReturnType, ErrorType
    <3> QED
      BY <3>1, <3>2, <3>4 DEF InvocationTypeOK
  <2>12. CASE UndoHealthCheck(d)
    BY <2>12 DEF UndoHealthCheck
  <2>13. CASE DeregisterGetItem(d)
    BY <2>13, SMTT(40) DEF DeregisterGetItem
  <2>14. CASE DeleteDnsRecord(d)
    BY <2>14, SMTT(40) DEF DeleteDnsRecord
  <2>15. CASE DeleteHealthCheck(d)
    BY <2>15 DEF DeleteHealthCheck
  <2>16. CASE DeregisterDeleteItem(d)
    <3>1. registry' \in [Stacks -> [Instances -> CheckIds \cup {None}]]
      BY <2>16 DEF DeregisterDeleteItem
    <3>2. UNCHANGED <<ec2, records, live, deleted>> /\ faults' \in Nat
      BY <2>16 DEF DeregisterDeleteItem
    <3>3. Return(d) \/ OnError(d, pc[d])
      BY <2>16 DEF DeregisterDeleteItem
    <3>4. InvocationTypeOK'
      BY <3>3, ReturnType, ErrorType
    <3> QED
      BY <3>1, <3>2, <3>4 DEF InvocationTypeOK
  <2>17. CASE CallFails(d)
    BY <2>17 DEF CallFails
  <2>18. CASE TimeOut(d)
    BY <2>18 DEF TimeOut
  <2> QED
    BY <1>2, <2>1, <2>2, <2>3, <2>4, <2>5, <2>6, <2>7, <2>8, <2>9, <2>10, <2>11,
       <2>12, <2>13, <2>14, <2>15, <2>16, <2>17, <2>18
       DEF DeliveryStep, RegisterStep, DeregisterStep
<1>3. CASE UNCHANGED vars
  BY <1>3 DEF vars
<1> QED
  BY <1>1, <1>2, <1>3 DEF Next, AllHandled

THEOREM TypeCorrect == Spec => []TypeOK
  BY TypeInit, TypeStep, PTL DEF Spec

------------------------------------------------------------------------------
(* One check per instance. *)

\* Whatever an instance's record, its rows and its invocations name is the check
\* of the instance's own caller reference.
OwnChecks ==
  /\ \A i \in Instances : records[i] \in {None, HealthCheckCallerReference(i)}
  /\ \A s \in Stacks, i \in Instances :
       registry[s][i] \in {None, HealthCheckCallerReference(i)}
  /\ \A d \in Deliveries : check[d] \in {None, HealthCheckCallerReference(d.inst)}

LEMMA OwnChecksStep == TypeOK /\ OwnChecks /\ [Next]_vars => OwnChecks'
<1> SUFFICES ASSUME TypeOK, OwnChecks, [Next]_vars PROVE OwnChecks'
  OBVIOUS
<1> USE DEF TypeOK, OwnChecks, route53
<1>1. ASSUME NEW i \in Instances, Ec2Step(i) PROVE OwnChecks'
  BY <1>1 DEF Ec2Step, Launch, ShutDown, Terminate, ChangeState
<1>2. ASSUME NEW d \in Deliveries, DeliveryStep(d) PROVE OwnChecks'
  <2> d.inst \in Instances /\ d.stack \in Stacks
    BY DEF Deliveries
  <2> USE DEF Goto, Leave, Return, Throw, OnError, Elsewhere, Replied
  <2>1. CASE Redeliver(d) \/ Start(d)
    BY <2>1 DEF Redeliver, Start
  <2>2. CASE RegisterGetItem(d) \/ DescribeInstance(d) \/ GetDnsConfigFromTags(d)
    BY <2>2 DEF RegisterGetItem, DescribeInstance, GetDnsConfigFromTags
  <2>3. CASE CreateHealthCheck(d)
    BY <2>3 DEF CreateHealthCheck
  <2>4. CASE UpsertRecord(d)
    BY <2>4, SMTT(40) DEF UpsertRecord
  <2>5. CASE GetHealthCheck(d) \/ WaitForChange(d) \/ VerifyDnsRecord(d)
    BY <2>5 DEF GetHealthCheck, WaitForChange, VerifyDnsRecord
  <2>6. CASE RegisterPutItem(d)
    BY <2>6, SMTT(40) DEF RegisterPutItem
  <2>7. CASE UndoHealthCheck(d) \/ DeleteHealthCheck(d)
    BY <2>7 DEF UndoHealthCheck, DeleteHealthCheck
  <2>8. CASE DeregisterGetItem(d)
    BY <2>8 DEF DeregisterGetItem
  <2>9. CASE DeleteDnsRecord(d)
    BY <2>9 DEF DeleteDnsRecord
  <2>10. CASE DeregisterDeleteItem(d)
    BY <2>10 DEF DeregisterDeleteItem
  <2>11. CASE CallFails(d) \/ TimeOut(d)
    BY <2>11 DEF CallFails, TimeOut
  <2> QED
    BY <1>2, <2>1, <2>2, <2>3, <2>4, <2>5, <2>6, <2>7, <2>8, <2>9, <2>10, <2>11
       DEF DeliveryStep, RegisterStep, DeregisterStep
<1>3. CASE UNCHANGED vars
  BY <1>3 DEF vars
<1> QED
  BY <1>1, <1>2, <1>3 DEF Next, AllHandled

LEMMA OwnChecksInvariant == Spec => []OwnChecks
<1>1. Init => OwnChecks
  BY DEF Init, OwnChecks
<1> QED
  BY <1>1, OwnChecksStep, TypeCorrect, PTL DEF Spec

LEMMA NamesOwnCheck ==
  ASSUME OwnChecks, NEW i \in Instances
  PROVE  NamedChecks(i) \subseteq {HealthCheckCallerReference(i)}
  BY DEF OwnChecks, NamedChecks

LEMMA ChecksAreOne == OwnChecks => OneCheckPerInstance
<1> SUFFICES ASSUME OwnChecks PROVE OneCheckPerInstance
  OBVIOUS
<1>1. \A i \in Instances : NamedChecks(i) \subseteq {HealthCheckCallerReference(i)}
  BY NamesOwnCheck
<1>2. \A i, j \in Instances :
        HealthCheckCallerReference(i) = HealthCheckCallerReference(j) => i = j
  BY DEF HealthCheckCallerReference
<1> QED
  BY <1>1, <1>2 DEF OneCheckPerInstance

\* Every attempt, repeated delivery and deregistration of an instance names one
\* check, which no other instance shares (dns-registration-policy.ts:25).
THEOREM OneCheck == Spec => []OneCheckPerInstance
  BY ChecksAreOne, OwnChecksInvariant, PTL

------------------------------------------------------------------------------
(* Stacks keep to their own instances. *)

LEMMA OwnedOnlyStep == TypeOK /\ OwnedOnly /\ [Next]_vars => OwnedOnly'
<1> SUFFICES ASSUME TypeOK, OwnedOnly, [Next]_vars PROVE OwnedOnly'
  OBVIOUS
<1> USE DEF TypeOK, OwnedOnly, Registering, OwnerOf, route53
<1>1. ASSUME NEW i \in Instances, Ec2Step(i) PROVE OwnedOnly'
  BY <1>1 DEF Ec2Step, Launch, ShutDown, Terminate, ChangeState, Emit
<1>2. ASSUME NEW d \in Deliveries, DeliveryStep(d) PROVE OwnedOnly'
  <2> d.inst \in Instances /\ d.stack \in Stacks
    BY DEF Deliveries
  <2> USE DEF Goto, Leave, Return, Throw, OnError, NullOnError, InTryBlock,
              Elsewhere, Replied
  <2>1. CASE Redeliver(d) \/ Start(d)
    BY <2>1 DEF Redeliver, Start, Handler
  <2>2. CASE RegisterGetItem(d) \/ DescribeInstance(d)
    BY <2>2 DEF RegisterGetItem, DescribeInstance
  <2>3. CASE GetDnsConfigFromTags(d)
    <3>1. pc'[d] = "createCheck" => Tags[d.inst].owner = d.stack
      BY <2>3, NoStackAssumption
         DEF GetDnsConfigFromTags, IsOwnedDnsRegistration, Candidate, Boundary
    <3> QED
      BY <2>3, <3>1 DEF GetDnsConfigFromTags
  <2>4. CASE CreateHealthCheck(d) \/ GetHealthCheck(d)
    BY <2>4 DEF CreateHealthCheck, GetHealthCheck
  <2>5. CASE UpsertRecord(d)
    BY <2>5 DEF UpsertRecord
  <2>6. CASE WaitForChange(d) \/ VerifyDnsRecord(d)
    BY <2>6 DEF WaitForChange, VerifyDnsRecord
  <2>7. CASE RegisterPutItem(d) \/ UndoHealthCheck(d)
    BY <2>7 DEF RegisterPutItem, UndoHealthCheck
  <2>8. CASE DeregisterGetItem(d) \/ DeleteDnsRecord(d) \/ DeleteHealthCheck(d)
    BY <2>8 DEF DeregisterGetItem, DeleteDnsRecord, DeleteHealthCheck
  <2>9. CASE DeregisterDeleteItem(d)
    BY <2>9 DEF DeregisterDeleteItem
  <2>10. CASE CallFails(d) \/ TimeOut(d)
    BY <2>10 DEF CallFails, TimeOut
  <2> QED
    BY <1>2, <2>1, <2>2, <2>3, <2>4, <2>5, <2>6, <2>7, <2>8, <2>9, <2>10
       DEF DeliveryStep, RegisterStep, DeregisterStep
<1>3. CASE UNCHANGED vars
  BY <1>3 DEF vars
<1> QED
  BY <1>1, <1>2, <1>3 DEF Next, AllHandled

\* isOwnedDnsRegistration is enough to keep the stacks apart
\* (dns-register.ts:78-91): only the owner registers an instance or holds its row.
THEOREM StacksKeepApart == Spec => []OwnedOnly
<1>1. Init => OwnedOnly
  BY DEF Init, OwnedOnly, Registering
<1> QED
  BY <1>1, OwnedOnlyStep, TypeCorrect, PTL DEF Spec

------------------------------------------------------------------------------
(* Without repeated deliveries. *)

Ref(d) == HealthCheckCallerReference(d.inst)

\* After the idempotency check found no row, and before the row is put.
BeforePut == {"describe", "tags", "createCheck", "getCheck", "upsert", "poll",
              "verify", "putItem"}
\* The check was created and the registration has not failed.
CheckMade == {"getCheck", "upsert", "poll", "verify", "putItem"}
RecordMade == {"poll", "verify", "putItem"}
Deregistering == {"deleteRecord", "deleteCheck", "deleteRow"}

PcFitsKind ==
  \A d \in Deliveries : /\ pc[d] \in RegisterCalls => d.kind = "running"
                        /\ pc[d] \in DeregisterCalls => d.kind # "running"
StateFirst ==
  \A d \in Deliveries :
    d.kind = "running" /\ pc[d] # "idle" => ec2[d.inst] # "pending"
HoldsCheck ==
  \A d \in Deliveries :
    pc[d] \in CheckMade \cup {"undo"} \cup Deregistering => check[d] = Ref(d)
Created ==
  /\ live \cap deleted = {}
  /\ \A s \in Stacks, i \in Instances :
       registry[s][i] # None => HealthCheckCallerReference(i) \in live \cup deleted
  /\ \A d \in Deliveries : check[d] # None => Ref(d) \in live \cup deleted
NoRowYet ==
  \A d \in Deliveries : pc[d] \in BeforePut => registry[d.stack][d.inst] = None
CheckStays == \A d \in Deliveries : pc[d] \in CheckMade => Ref(d) \notin deleted
RecordStays ==
  \A d \in Deliveries : pc[d] \in RecordMade => records[d.inst] = Ref(d)
RowOrDeleted ==
  \A d \in Deliveries : pc[d] \in Deregistering =>
    registry[d.stack][d.inst] = Ref(d) \/ Ref(d) \in deleted
RecordGone ==
  \A d \in Deliveries : pc[d] \in {"deleteCheck", "deleteRow"} => records[d.inst] = None
CheckGone == \A d \in Deliveries : pc[d] = "deleteRow" => Ref(d) \in deleted

\* What orders the deregistration after the registration.
OrderInv ==
  /\ HoldsCheck /\ Created /\ NoRowYet /\ CheckStays
  /\ RecordStays /\ RowOrDeleted /\ RecordGone /\ CheckGone

\* A delivery of the launch event runs the register handler, and it exists only
\* once the instance has left the pending state.
KindInv == PcFitsKind /\ StateFirst

LEMMA KindStep == TypeOK /\ KindInv /\ [Next]_vars => KindInv'
<1> SUFFICES ASSUME TypeOK, KindInv, [Next]_vars PROVE KindInv'
  OBVIOUS
<1> USE DEF TypeOK, KindInv, PcFitsKind, StateFirst, RegisterCalls, DeregisterCalls
<1>1. ASSUME NEW i \in Instances, Ec2Step(i) PROVE KindInv'
  <2> USE DEF ChangeState, Emit
  <2>1. CASE Launch(i)
    BY <2>1 DEF Launch
  <2>2. CASE ShutDown(i)
    BY <2>2 DEF ShutDown
  <2>3. CASE Terminate(i)
    BY <2>3 DEF Terminate
  <2> QED
    BY <1>1, <2>1, <2>2, <2>3 DEF Ec2Step
<1>2. ASSUME NEW d \in Deliveries, DeliveryStep(d) PROVE KindInv'
  <2> d.inst \in Instances /\ UNCHANGED ec2
    BY <1>2
       DEF Deliveries, DeliveryStep, RegisterStep, DeregisterStep, Redeliver, Start,
           CallFails, TimeOut, Elsewhere, RegisterGetItem, DescribeInstance,
           GetDnsConfigFromTags, CreateHealthCheck, GetHealthCheck, UpsertRecord,
           WaitForChange, VerifyDnsRecord, RegisterPutItem, UndoHealthCheck,
           DeregisterGetItem, DeleteDnsRecord, DeleteHealthCheck,
           DeregisterDeleteItem
  <2> USE DEF Goto, Leave, Return, Throw, OnError, NullOnError, InTryBlock,
              Elsewhere, Replied
  <2>1. CASE Redeliver(d)
    <3>1. First(d) \in Deliveries /\ First(d).kind = d.kind /\ First(d).inst = d.inst
      BY CopiesAssumption DEF First, Deliveries
    <3> QED
      BY <2>1, <3>1 DEF Redeliver
  <2>2. CASE Start(d)
    BY <2>2 DEF Start, Handler
  <2>3. CASE RegisterGetItem(d) \/ DescribeInstance(d) \/ GetDnsConfigFromTags(d)
    BY <2>3 DEF RegisterGetItem, DescribeInstance, GetDnsConfigFromTags
  <2>4. CASE CreateHealthCheck(d) \/ GetHealthCheck(d) \/ UpsertRecord(d)
    BY <2>4 DEF CreateHealthCheck, GetHealthCheck, UpsertRecord
  <2>5. CASE WaitForChange(d) \/ VerifyDnsRecord(d)
    BY <2>5 DEF WaitForChange, VerifyDnsRecord
  <2>6. CASE RegisterPutItem(d) \/ UndoHealthCheck(d)
    BY <2>6 DEF RegisterPutItem, UndoHealthCheck
  <2>7. CASE DeregisterStep(d)
    BY <2>7
       DEF DeregisterStep, DeregisterGetItem, DeleteDnsRecord, DeleteHealthCheck,
           DeregisterDeleteItem
  <2>8. CASE CallFails(d) \/ TimeOut(d)
    BY <2>8 DEF CallFails, TimeOut, InFlight, Calls
  <2> QED
    BY <1>2, <2>1, <2>2, <2>3, <2>4, <2>5, <2>6, <2>7, <2>8
       DEF DeliveryStep, RegisterStep
<1>3. CASE UNCHANGED vars
  BY <1>3 DEF vars
<1> QED
  BY <1>1, <1>2, <1>3 DEF Next, AllHandled

LEMMA KindInvariant == Spec => []KindInv
<1>1. Init => KindInv
  BY DEF Init, KindInv, PcFitsKind, StateFirst, RegisterCalls, DeregisterCalls
<1> QED
  BY <1>1, KindStep, TypeCorrect, PTL DEF Spec

LEMMA OneRegistration ==
  ASSUME Copies = {1}, TypeOK, OwnedOnly, KindInv,
         NEW d \in Deliveries, NEW e \in Deliveries, d.inst = e.inst,
         pc[d] \in BeforePut \cup {"undo", "getItem"}, pc[e] \in BeforePut \cup {"undo", "getItem"},
         d.stack = e.stack \/ (Registering(d) /\ Registering(e))
  PROVE  d = e
<1>1. d.kind = "running" /\ e.kind = "running"
  BY DEF KindInv, PcFitsKind, RegisterCalls, BeforePut
<1>2. d.stack = e.stack
  BY DEF OwnedOnly, Deliveries
<1>3. d.copy = e.copy
  BY DEF Deliveries
<1> QED
  BY <1>1, <1>2, <1>3 DEF Deliveries

\* A deregistration under way excludes a registration with a check of its own.
LEMMA Exclusive ==
  ASSUME TypeOK, OwnChecks, OwnedOnly, OrderInv,
         NEW d \in Deliveries, NEW e \in Deliveries, d.inst = e.inst,
         pc[d] \in CheckMade, pc[e] \in Deregistering
  PROVE  FALSE
<1>1. registry[e.stack][e.inst] = Ref(e)
  BY DEF OrderInv, CheckStays, RowOrDeleted, Ref
<1>2. e.inst \in Instances /\ e.stack \in Stacks /\ d.stack \in Stacks
  BY DEF Deliveries
<1>3. registry[e.stack][e.inst] # None
  BY <1>1, <1>2, NoneAssumption DEF Ref
<1>4. d.stack = e.stack
  BY <1>2, <1>3 DEF OwnedOnly, Registering, CheckMade
<1> QED
  BY <1>3, <1>4 DEF OrderInv, NoRowYet, BeforePut, CheckMade

LEMMA OrderStep ==
  ASSUME Copies = {1}, TypeOK, OwnChecks, OwnedOnly, KindInv, OrderInv, [Next]_vars
  PROVE  OrderInv'
<1> USE NoneAssumption
    DEF TypeOK, OwnChecks, OrderInv, HoldsCheck, Created, NoRowYet,
        CheckStays, RecordStays, RowOrDeleted, RecordGone, CheckGone, Ref,
        BeforePut, CheckMade, RecordMade, Deregistering, RegisterCalls,
        DeregisterCalls, route53
<1>1. ASSUME NEW i \in Instances, Ec2Step(i) PROVE OrderInv'
  BY <1>1, SMTT(40) DEF Ec2Step, Launch, ShutDown, Terminate, ChangeState, Emit
<1>2. ASSUME NEW d \in Deliveries, DeliveryStep(d) PROVE OrderInv'
  <2>0. \A e \in Deliveries : e.inst \in Instances /\ e.stack \in Stacks
    BY DEF Deliveries
  <2>a. \A e \in Deliveries :
          /\ e.inst = d.inst
          /\ pc[d] \in BeforePut \cup {"undo", "getItem"}
          /\ pc[e] \in BeforePut \cup {"undo", "getItem"}
          /\ d.stack = e.stack \/ (Registering(d) /\ Registering(e))
          => d = e
    BY OneRegistration
  <2>b. \A e \in Deliveries :
          /\ e.inst = d.inst
          => /\ ~(pc[d] \in CheckMade /\ pc[e] \in Deregistering)
             /\ ~(pc[e] \in CheckMade /\ pc[d] \in Deregistering)
    BY Exclusive
  <2>c. \A e \in Deliveries : Ref(e) = Ref(d) => e.inst = d.inst
    BY DEF HealthCheckCallerReference
  <2> USE <2>0, <2>a, <2>b, <2>c
      DEF Goto, Leave, Return, Throw, OnError, NullOnError, InTryBlock,
          Elsewhere, Replied, Route53DeleteCheck, Registering
  <2>1. CASE Redeliver(d)
    BY <2>1 DEF Redeliver
  <2>2. CASE Start(d)
    BY <2>2 DEF Start, Handler
  <2>3. CASE RegisterGetItem(d)
    <3>1. CASE registry[d.stack][d.inst] # None
      BY <2>3, <3>1 DEF RegisterGetItem
    <3>2. CASE registry[d.stack][d.inst] = None
      BY <2>3, <3>2 DEF RegisterGetItem
    <3> QED
      BY <3>1, <3>2
  <2>4. CASE DescribeInstance(d)
    BY <2>4, SMTT(40) DEF DescribeInstance
  <2>5. CASE GetDnsConfigFromTags(d)
    BY <2>5 DEF GetDnsConfigFromTags
  <2>6. CASE CreateHealthCheck(d)
    BY <2>6, SMTT(40) DEF CreateHealthCheck
  <2>7. CASE GetHealthCheck(d)
    BY <2>7 DEF GetHealthCheck
  <2>8. CASE UpsertRecord(d)
    <3>1. CASE check[d] \in live
      <4>1. /\ records' = [records EXCEPT ![d.inst] = Ref(d)]
            /\ pc' \in {[pc EXCEPT ![d] = "poll"], [pc EXCEPT ![d] = "undo"]}
            /\ UNCHANGED <<check, registry, live, deleted>>
        BY <2>8, <3>1 DEF UpsertRecord
      <4>2. HoldsCheck' /\ Created' /\ NoRowYet' /\ CheckStays'
        BY <2>8, <4>1 DEF UpsertRecord
      <4>3. RowOrDeleted' /\ CheckGone'
        BY <2>8, <4>1 DEF UpsertRecord
      <4>4. RecordStays'
        BY <2>8, <4>1 DEF UpsertRecord
      <4>5. RecordGone'
        BY <2>8, <4>1 DEF UpsertRecord
      <4> QED
        BY <4>2, <4>3, <4>4, <4>5
    <3>2. CASE check[d] \notin live
      BY <2>8, <3>2 DEF UpsertRecord
    <3> QED
      BY <3>1, <3>2
  <2>9. CASE WaitForChange(d)
    BY <2>9 DEF WaitForChange
  <2>10. CASE VerifyDnsRecord(d)
    BY <2>10 DEF VerifyDnsRecord
  <2>11. CASE RegisterPutItem(d)
    BY <2>11, SMTT(40) DEF RegisterPutItem
  <2>12. CASE UndoHealthCheck(d)
    BY <2>12 DEF UndoHealthCheck
  <2>13. CASE DeregisterGetItem(d)
    BY <2>13, SMTT(40) DEF DeregisterGetItem
  <2>14. CASE DeleteDnsRecord(d)
    <3>1. check[d] = Ref(d) /\ UNCHANGED <<registry, live, deleted>>
      BY <2>14 DEF DeleteDnsRecord
    <3>2. records' = [records EXCEPT ![d.inst] = None]
      BY <2>14, <3>1 DEF DeleteDnsRecord
    <3>3. \A e \in Deliveries \ {d} : pc'[e] = pc[e] /\ check'[e] = check[e]
      BY <2>14 DEF DeleteDnsRecord
    <3>4. \/ pc'[d] = "deleteCheck" /\ check'[d] = check[d]
          \/ pc'[d] \in {"queued", "dropped"} /\ check'[d] = None
      BY <2>14 DEF DeleteDnsRecord
    <3>5. HoldsCheck' /\ Created' /\ NoRowYet' /\ CheckStays'
      BY <3>1, <3>3, <3>4
    <3>6. RecordStays'
      BY <2>14, <3>2, <3>3, <3>4 DEF DeleteDnsRecord
    <3>7. RowOrDeleted' /\ RecordGone' /\ CheckGone'
      BY <2>14, <3>1, <3>2, <3>3, <3>4 DEF DeleteDnsRecord
    <3> QED
      BY <3>5, <3>6, <3>7
  <2>15. CASE DeleteHealthCheck(d)
    <3>1. /\ check[d] = Ref(d) /\ Ref(d) \in live \cup deleted
          /\ records[d.inst] = None
      BY <2>15 DEF DeleteHealthCheck
    <3>2. /\ Ref(d) \in deleted' /\ deleted' \subseteq deleted \cup {Ref(d)}
          /\ live' \cap deleted' = {} /\ live \cup deleted = live' \cup deleted'
          /\ deleted \subseteq deleted' /\ UNCHANGED <<registry, records>>
      BY <2>15, <3>1 DEF DeleteHealthCheck
    <3>3. \A e \in Deliveries \ {d} : pc'[e] = pc[e] /\ check'[e] = check[e]
      BY <2>15 DEF DeleteHealthCheck
    <3>4. \/ pc'[d] = "deleteRow" /\ check'[d] = check[d]
          \/ pc'[d] \in {"queued", "dropped"} /\ check'[d] = None
      BY <2>15 DEF DeleteHealthCheck
    <3> QED
      BY <2>15, <3>1, <3>2, <3>3, <3>4, SMTT(40) DEF DeleteHealthCheck
  <2>16. CASE DeregisterDeleteItem(d)
    <3>1. Ref(d) \in deleted /\ registry' = [registry EXCEPT ![d.stack][d.inst] = None]
          /\ UNCHANGED <<records, live, deleted>>
      BY <2>16 DEF DeregisterDeleteItem
    <3>2. \A e \in Deliveries \ {d} : pc'[e] = pc[e] /\ check'[e] = check[e]
      BY <2>16 DEF DeregisterDeleteItem
    <3>3. pc'[d] \in {"done", "queued", "dropped"} /\ check'[d] = None
      BY <2>16 DEF DeregisterDeleteItem
    <3>4. \A s \in Stacks, i \in Instances : registry'[s][i] \in {registry[s][i], None}
      BY <3>1
    <3>5. HoldsCheck' /\ CheckStays' /\ RecordStays'
      BY <3>1, <3>2, <3>3
    <3>6. Created'
      BY <3>1, <3>2, <3>3, <3>4
    <3>7. NoRowYet'
      BY <3>2, <3>3, <3>4
    <3>8. RowOrDeleted'
      BY <3>1, <3>2, <3>3
    <3>9. RecordGone' /\ CheckGone'
      BY <3>1, <3>2, <3>3
    <3> QED
      BY <3>5, <3>8, <3>9, <3>6, <3>7
  <2>17. CASE CallFails(d)
    BY <2>17 DEF CallFails
  <2>18. CASE TimeOut(d)
    BY <2>18 DEF TimeOut
  <2> QED
    BY <1>2, <2>1, <2>2, <2>3, <2>4, <2>5, <2>6, <2>7, <2>8, <2>9, <2>10, <2>11, <2>12, <2>13, <2>14, <2>15, <2>16, <2>17, <2>18
       DEF DeliveryStep, RegisterStep, DeregisterStep
<1>3. CASE UNCHANGED vars
  BY <1>3 DEF vars
<1> QED
  BY <1>1, <1>2, <1>3 DEF Next, AllHandled

LEMMA OrderInvariant == ASSUME Copies = {1} PROVE Spec => []OrderInv
<1>1. Init => OrderInv
  BY NoneAssumption
     DEF Init, OrderInv, HoldsCheck, Created, NoRowYet, CheckStays,
         RecordStays, RowOrDeleted, RecordGone, CheckGone, BeforePut, CheckMade,
         RecordMade, Deregistering, RegisterCalls, DeregisterCalls
<1>2. TypeOK /\ OwnChecks /\ OwnedOnly /\ KindInv /\ OrderInv /\ [Next]_vars => OrderInv'
  BY OrderStep
<1> QED
  BY <1>1, <1>2, TypeCorrect, OwnChecksInvariant, StacksKeepApart, KindInvariant,
     PTL DEF Spec

\* If EventBridge repeats no delivery, a row goes only after its record and its
\* check (dns-deregister.ts:57-76), whatever fails and whatever interleaves.
THEOREM RowGoesLastHolds == ASSUME Copies = {1} PROVE Spec => RowGoesLast
<1> DEFINE Last ==
      \A s \in Stacks, i \in Instances :
        (registry[s][i] # None /\ registry'[s][i] = None)
          => records[i] = None /\ registry[s][i] \in deleted
<1>1. TypeOK /\ OwnChecks /\ OrderInv /\ [Next]_vars => [Last]_vars
  <2> SUFFICES ASSUME TypeOK, OwnChecks, OrderInv, Next,
                      NEW s \in Stacks, NEW i \in Instances,
                      registry[s][i] # None, registry'[s][i] = None
               PROVE  records[i] = None /\ registry[s][i] \in deleted
    OBVIOUS
  <2>1. registry' # registry
    OBVIOUS
  <2>2. PICK d \in Deliveries : RegisterPutItem(d) \/ DeregisterDeleteItem(d)
    <3>1. \A j \in Instances : ~Ec2Step(j)
      BY <2>1 DEF Ec2Step, Launch, ShutDown, Terminate, ChangeState
    <3>2. ~AllHandled
      BY <2>1 DEF AllHandled, vars
    <3>3. PICK d \in Deliveries : DeliveryStep(d)
      BY <3>1, <3>2 DEF Next
    <3>4. ~(Redeliver(d) \/ Start(d) \/ CallFails(d) \/ TimeOut(d))
      BY <2>1 DEF Redeliver, Start, CallFails, TimeOut, Elsewhere
    <3>5. ~(RegisterGetItem(d) \/ DescribeInstance(d) \/ GetDnsConfigFromTags(d))
      BY <2>1 DEF RegisterGetItem, DescribeInstance, GetDnsConfigFromTags, Elsewhere
    <3>6. ~(CreateHealthCheck(d) \/ GetHealthCheck(d) \/ UpsertRecord(d))
      BY <2>1 DEF CreateHealthCheck, GetHealthCheck, UpsertRecord, Elsewhere
    <3>7. ~(WaitForChange(d) \/ VerifyDnsRecord(d) \/ UndoHealthCheck(d))
      BY <2>1 DEF WaitForChange, VerifyDnsRecord, UndoHealthCheck, Elsewhere
    <3>8. ~(DeregisterGetItem(d) \/ DeleteDnsRecord(d) \/ DeleteHealthCheck(d))
      BY <2>1 DEF DeregisterGetItem, DeleteDnsRecord, DeleteHealthCheck, Elsewhere
    <3> QED
      BY <3>3, <3>4, <3>5, <3>6, <3>7, <3>8, Zenon
         DEF DeliveryStep, RegisterStep, DeregisterStep
  <2> USE DEF TypeOK
  <2>3. d.inst \in Instances /\ d.stack \in Stacks
    BY DEF Deliveries
  <2>4. CASE RegisterPutItem(d)
    <3>1. check[d] = Ref(d)
      BY <2>4 DEF RegisterPutItem, OrderInv, HoldsCheck, CheckMade
    <3> QED
      BY <2>3, <2>4, <3>1, NoneAssumption DEF RegisterPutItem, Ref
  <2>5. CASE DeregisterDeleteItem(d)
    <3>1. d.stack = s /\ d.inst = i /\ pc[d] = "deleteRow"
      BY <2>3, <2>5 DEF DeregisterDeleteItem
    <3>2. records[i] = None /\ Ref(d) \in deleted
      BY <3>1 DEF OrderInv, RecordGone, CheckGone
    <3>3. registry[s][i] = Ref(d)
      BY <3>1 DEF OwnChecks, Ref
    <3> QED
      BY <3>2, <3>3
  <2> QED
    BY <2>2, <2>4, <2>5
<1> QED
  BY <1>1, TypeCorrect, OwnChecksInvariant, OrderInvariant, PTL DEF Spec, RowGoesLast

\* While no call has failed, what exists in Route 53 is tracked by a row, or is
\* held by a registration that has not come to its PutItem.
Clean ==
  (faults = 0 /\ Roomy) =>
    /\ \A d \in Deliveries : pc[d] # "undo"
    /\ \A i \in Instances :
         records[i] # None \/ HealthCheckCallerReference(i) \in live
           => \/ \E s \in Stacks : registry[s][i] # None
              \/ \E d \in Deliveries : d.inst = i /\ pc[d] \in CheckMade

LEMMA AllListed ==
  ASSUME Roomy, NEW i \in Instances, records[i] # None
  PROVE  Listed(i)
<1> DEFINE before == {j \in Instances : /\ records[j] # None
                                        /\ Tags[j].domain = Tags[i].domain
                                        /\ j <= i}
<1>1. before \subseteq Instances
  OBVIOUS
<1>2. Cardinality(before) <= Cardinality(Instances)
      /\ Cardinality(before) \in Nat /\ Cardinality(Instances) \in Nat
  BY <1>1, InstancesAssumption, FS_Subset, FS_CardinalityType
<1> HIDE DEF before
<1>3. Cardinality(before) <= MaxItems
  BY <1>2, BoundsAssumption DEF Roomy
<1> QED
  BY <1>3 DEF before, Listed

LEMMA CleanStep ==
  ASSUME Copies = {1}, TypeOK, OwnChecks, KindInv, OrderInv, Clean, [Next]_vars
  PROVE  Clean'
<1> SUFFICES ASSUME faults' = 0, Roomy PROVE Clean'
  BY DEF Clean, Roomy
<1> USE DEF TypeOK, Clean, CheckMade, route53
<1>1. ASSUME NEW i \in Instances, Ec2Step(i) PROVE Clean'
  BY <1>1, SMTT(40) DEF Ec2Step, Launch, ShutDown, Terminate, ChangeState, Emit,
             KindInv, StateFirst, PcFitsKind, RegisterCalls
<1>2. ASSUME NEW d \in Deliveries, DeliveryStep(d) PROVE Clean'
  <2>0. d.inst \in Instances /\ d.stack \in Stacks
    BY DEF Deliveries
  <2>a. ~Fault
    BY DEF Fault
  <2> USE <2>0, <2>a DEF Goto, Leave, Return, Throw, OnError, NullOnError, InTryBlock,
              Elsewhere, Replied, NoFault, LostReply, Route53DeleteCheck
  <2>1. CASE Redeliver(d)
    BY <2>1 DEF Redeliver
  <2>2. CASE Start(d)
    BY <2>2, SMTT(40) DEF Start, Handler
  <2>3. CASE RegisterGetItem(d)
    BY <2>3 DEF RegisterGetItem
  <2>4. CASE DescribeInstance(d)
    BY <2>4 DEF DescribeInstance
  <2>5. CASE GetDnsConfigFromTags(d)
    BY <2>5, SMTT(40) DEF GetDnsConfigFromTags
  <2>6. CASE CreateHealthCheck(d)
    <3>1. CASE Ref(d) \in deleted
      BY <2>6, <3>1, SMTT(40) DEF CreateHealthCheck, Ref
    <3>2. CASE Ref(d) \notin deleted
      BY <2>6, <3>2 DEF CreateHealthCheck, Ref, HealthCheckCallerReference
    <3> QED
      BY <3>1, <3>2
  <2>7. CASE GetHealthCheck(d)
    <3>1. check[d] \in live
      BY <2>7, NoneAssumption DEF GetHealthCheck, OrderInv, HoldsCheck, CheckStays, Created, Ref
    <3> QED
      BY <2>7, <3>1, SMTT(40) DEF GetHealthCheck
  <2>8. CASE UpsertRecord(d)
    <3>1. check[d] \in live
      BY <2>8, NoneAssumption DEF UpsertRecord, OrderInv, HoldsCheck, CheckStays, Created, Ref
    <3> QED
      BY <2>8, <3>1, SMTT(40) DEF UpsertRecord
  <2>9. CASE WaitForChange(d)
    BY <2>9 DEF WaitForChange
  <2>10. CASE VerifyDnsRecord(d)
    <3>1. Listed(d.inst)
      BY <2>10, AllListed, NoneAssumption DEF VerifyDnsRecord, OrderInv, RecordStays, RecordMade, Ref
    <3> QED
      BY <2>10, <3>1, SMTT(40) DEF VerifyDnsRecord
  <2>11. CASE RegisterPutItem(d)
    <3>1. check[d] # None
      BY <2>11, NoneAssumption DEF RegisterPutItem, OrderInv, HoldsCheck, Ref
    <3>2. registry' = [registry EXCEPT ![d.stack][d.inst] = check[d]]
          /\ pc' = [pc EXCEPT ![d] = "done"] /\ UNCHANGED <<records, live, faults>>
      BY <2>11 DEF RegisterPutItem
    <3>3. registry'[d.stack][d.inst] # None
      BY <3>1, <3>2
    <3>4. \A s \in Stacks, i \in Instances :
            registry[s][i] # None => registry'[s][i] # None
      BY <3>2, <3>3
    <3> QED
      BY <3>2, <3>3, <3>4
  <2>12. CASE UndoHealthCheck(d)
    BY <2>12 DEF UndoHealthCheck
  <2>13. CASE DeregisterGetItem(d)
    BY <2>13 DEF DeregisterGetItem
  <2>14. CASE DeleteDnsRecord(d)
    BY <2>14, SMTT(40) DEF DeleteDnsRecord
  <2>15. CASE DeleteHealthCheck(d)
    BY <2>15 DEF DeleteHealthCheck
  <2>16. CASE DeregisterDeleteItem(d)
    <3>1. records[d.inst] = None /\ Ref(d) \notin live
      BY <2>16 DEF DeregisterDeleteItem, OrderInv, RecordGone, CheckGone, Created
    <3> QED
      BY <2>16, <3>1, SMTT(40) DEF DeregisterDeleteItem, Ref
  <2>17. CASE CallFails(d)
    BY <2>17 DEF CallFails
  <2>18. CASE TimeOut(d)
    BY <2>18 DEF TimeOut
  <2> QED
    BY <1>2, <2>1, <2>2, <2>3, <2>4, <2>5, <2>6, <2>7, <2>8, <2>9, <2>10, <2>11, <2>12, <2>13, <2>14, <2>15, <2>16, <2>17, <2>18
       DEF DeliveryStep, RegisterStep, DeregisterStep
<1>3. CASE UNCHANGED vars
  BY <1>3 DEF vars
<1> QED
  BY <1>1, <1>2, <1>3 DEF Next, AllHandled

\* If no delivery is repeated, and the verification lists as many records as
\* there are instances, then until a call fails nothing is created in Route 53
\* that neither a row nor a registration under way accounts for.
THEOREM NoSilentOrphanHolds == ASSUME Copies = {1} PROVE Spec => []NoSilentOrphan
<1>1. Init => Clean
  BY DEF Init, Clean
<1>2. TypeOK /\ OwnChecks /\ KindInv /\ OrderInv /\ Clean /\ [Next]_vars => Clean'
  BY CleanStep
<1>3. Clean => NoSilentOrphan
  BY DEF Clean, NoSilentOrphan, CheckMade, BeingRegistered, Registering
<1> QED
  BY <1>1, <1>2, <1>3, TypeCorrect, OwnChecksInvariant, KindInvariant, OrderInvariant,
     PTL DEF Spec
===============================================================================
