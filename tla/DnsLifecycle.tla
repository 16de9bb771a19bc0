---------------------------- MODULE DnsLifecycle -----------------------------
(***************************************************************************)
(* Registration and deregistration of probe instances in DNS:              *)
(* src-lambda/handlers/dns-register.ts and dns-deregister.ts, as the       *)
(* EventBridge rules of lib/constructs/event-rules.ts invoke them.         *)
(*                                                                         *)
(* Every stack has its own rules, lambdas and registry table; all stacks   *)
(* share EC2 and Route 53.  The rules filter on the instance state only,   *)
(* so the lambdas of every stack receive the events of every instance.     *)
(*                                                                         *)
(* A delivery is one event handed to one lambda.  It is invoked at most    *)
(* once at a time, and again after an invocation that threw or timed out,  *)
(* until MaxAttempts invocations.  An invocation is a sequence of awaited  *)
(* AWS calls; one action is one call, from the reply of the previous call  *)
(* to its own reply.  Any number of invocations interleave.                *)
(*                                                                         *)
(* The data that no property tells apart is fixed per instance and left    *)
(* out: its address, its TTL and the time of its row.                      *)
(***************************************************************************)
EXTENDS DnsPolicy, Naturals, FiniteSets

CONSTANTS
  Stacks,        \* the deployed stacks
  Instances,     \* EC2 instances, numbers: set identifiers sort by them
  Tags,          \* the tags of each instance
  Zones,         \* hosted-zone identifiers
  HostedZone,    \* HOSTED_ZONE_ID of each stack's lambdas
  NoStack,       \* the owner of an instance that has no stack tag
  None,          \* no row, no record, no health check
  Copies,        \* deliveries of one event: {1}, more if EventBridge repeats
  MaxAttempts,   \* invocations of one delivery: 1 + retryAttempts
  MaxItems,      \* the page verifyDnsRecord lists (10 in the code)
  MaxPolls,      \* polls of waitForChange (10 in the code)
  MaxFaults,     \* bound: failed calls, lost replies, time-outs, late tags
  MaxInFlight,   \* bound: invocations that run at one time
  LostReplies    \* may a call be applied although the caller sees an error?

TagKeys == {"dns", "owner", "zone"}

ASSUME CopiesAssumption == 1 \in Copies
ASSUME BoundsAssumption ==
  {MaxAttempts, MaxItems, MaxPolls, MaxFaults, MaxInFlight} \subseteq Nat
ASSUME LostRepliesAssumption == LostReplies \in BOOLEAN
ASSUME InstancesAssumption == Instances \subseteq Nat /\ IsFiniteSet(Instances)
ASSUME NoStackAssumption == NoStack \notin Stacks
ASSUME NoneAssumption ==
  \A i \in Instances : None # HealthCheckCallerReference(i)
ASSUME HostedZoneAssumption == HostedZone \in [Stacks -> ZoneRef(Zones)]
ASSUME TagsAssumption ==
  \A i \in Instances :
    /\ Tags[i].dns \in BOOLEAN        \* dns:subdomain and dns:fullDomain
    /\ Tags[i].owner \in Stacks \cup {NoStack}
    /\ Tags[i].zone \in ZoneRef(Zones)

Kinds == {"running", "shutting-down", "terminated"}
Deliveries == [stack : Stacks, inst : Instances, kind : Kinds, copy : Copies]

CheckIds == {HealthCheckCallerReference(i) : i \in Instances}

VARIABLES
  ec2,        \* state of each instance
  pc,         \* of each delivery: where its invocation is
  attempt,    \* of each delivery: invocations started
  check,      \* of each invocation: its healthCheckId, or None
  polls,      \* of each invocation: GetChange polls made
  registry,   \* of each stack and instance: the check its row names, or None
  records,    \* of each instance: the check its A record names, or None
  live,       \* health checks that exist
  deleted,    \* health checks that were deleted
  faults      \* faults so far

vars == <<ec2, pc, attempt, check, polls, registry, records, live, deleted,
          faults>>
invocation == <<pc, attempt, check, polls>>
route53 == <<records, live, deleted>>

RegisterCalls == {"getItem", "describe", "tags", "createCheck", "getCheck",
                  "upsert", "poll", "verify", "putItem", "undo"}
DeregisterCalls == {"getRow", "deleteRecord", "deleteCheck", "deleteRow"}
Calls == RegisterCalls \cup DeregisterCalls

InFlight(d) == pc[d] \in Calls
Finished == {"done", "dropped"}

Ec2States == {"pending"} \cup Kinds

TypeOK ==
  /\ ec2 \in [Instances -> Ec2States]
  /\ pc \in [Deliveries -> {"idle", "queued"} \cup Finished \cup Calls]
  /\ attempt \in [Deliveries -> Nat]
  /\ check \in [Deliveries -> CheckIds \cup {None}]
  /\ polls \in [Deliveries -> Nat]
  /\ registry \in [Stacks -> [Instances -> CheckIds \cup {None}]]
  /\ records \in [Instances -> CheckIds \cup {None}]
  /\ live \in SUBSET CheckIds
  /\ deleted \in SUBSET CheckIds
  /\ faults \in Nat

Init ==
  /\ ec2 = [i \in Instances |-> "pending"]
  /\ pc = [d \in Deliveries |-> "idle"]
  /\ attempt = [d \in Deliveries |-> 0]
  /\ check = [d \in Deliveries |-> None]
  /\ polls = [d \in Deliveries |-> 0]
  /\ registry = [s \in Stacks |-> [i \in Instances |-> None]]
  /\ records = [i \in Instances |-> None]
  /\ live = {}
  /\ deleted = {}
  /\ faults = 0

------------------------------------------------------------------------------
(* EC2 and EventBridge (external). *)

\* The first copy of an instance's event of this kind reaches every stack.
Emit(i, kind) ==
  pc' = [d \in Deliveries |->
           IF d.inst = i /\ d.kind = kind /\ d.copy = 1 THEN "queued" ELSE pc[d]]

ChangeState(i, from, to) ==
  /\ ec2[i] \in from
  /\ ec2' = [ec2 EXCEPT ![i] = to]
  /\ Emit(i, to)
  /\ UNCHANGED <<attempt, check, polls, registry, route53, faults>>

Launch(i) == ChangeState(i, {"pending"}, "running")
ShutDown(i) == ChangeState(i, {"pending", "running"}, "shutting-down")
Terminate(i) == ChangeState(i, {"shutting-down"}, "terminated")

First(d) == [stack |-> d.stack, inst |-> d.inst, kind |-> d.kind, copy |-> 1]

\* EventBridge delivers at least once: any event may arrive again, later.
Redeliver(d) ==
  /\ d.copy # 1
  /\ pc[d] = "idle"
  /\ pc[First(d)] # "idle"
  /\ pc' = [pc EXCEPT ![d] = "queued"]
  /\ UNCHANGED <<ec2, attempt, check, polls, registry, route53, faults>>

------------------------------------------------------------------------------
(* The life of one invocation. *)

Handler(d) == IF d.kind = "running" THEN "getItem" ELSE "getRow"

Start(d) ==
  /\ pc[d] = "queued"
  /\ Cardinality({e \in Deliveries : InFlight(e)}) < MaxInFlight
  /\ pc' = [pc EXCEPT ![d] = Handler(d)]
  /\ attempt' = [attempt EXCEPT ![d] = @ + 1]
  /\ UNCHANGED <<ec2, check, polls, registry, route53, faults>>

Goto(d, next) ==
  /\ pc' = [pc EXCEPT ![d] = next]
  /\ UNCHANGED <<attempt, check, polls>>

\* The invocation ends; its local variables are gone.
Leave(d, next) ==
  /\ pc' = [pc EXCEPT ![d] = next]
  /\ check' = [check EXCEPT ![d] = None]
  /\ polls' = [polls EXCEPT ![d] = 0]
  /\ UNCHANGED attempt

Return(d) == Leave(d, "done")

\* The handler throws: Lambda invokes it again, or gives the event up.
Throw(d) == Leave(d, IF attempt[d] < MaxAttempts THEN "queued" ELSE "dropped")

Fault == faults < MaxFaults /\ faults' = faults + 1
NoFault == UNCHANGED faults
LostReply == LostReplies /\ Fault

NullOnError == {"describe", "tags"}
InTryBlock == {"upsert", "poll", "verify", "putItem"}

\* Where the error of a call is caught.  describeInstance and
\* getDnsConfigFromTags turn it into null and the handler returns; in the try
\* block the handler knows the check once createHealthCheck has returned, and
\* deletes it; a failing deletion is logged and the first error rethrown.
OnError(d, call) ==
  \/ call \in NullOnError /\ Return(d)
  \/ call \in InTryBlock /\ Goto(d, "undo")
  \/ call \notin NullOnError \cup InTryBlock /\ Throw(d)

------------------------------------------------------------------------------
(* The calls on Route 53 that both handlers make (external). *)

Route53DeleteCheck(id) ==
  IF id \in live
    THEN live' = live \ {id} /\ deleted' = deleted \cup {id}
    ELSE UNCHANGED <<live, deleted>>          \* NoSuchHealthCheck

\* A record exists in the first MaxItems records that Route 53 lists from the
\* instance's domain on.
Listed(i) ==
  /\ records[i] # None
  /\ Cardinality({j \in Instances : /\ records[j] # None
                                    /\ Tags[j].domain = Tags[i].domain
                                    /\ j <= i}) <= MaxItems

\* What most calls leave alone.
Elsewhere == UNCHANGED <<ec2, registry, route53>>

\* A call that changed something replied, or the reply was lost.
Replied(d, call, next) ==
  \/ NoFault /\ Goto(d, next)
  \/ LostReply /\ OnError(d, call)

------------------------------------------------------------------------------
(* dns-register. *)

\* The idempotency check.
RegisterGetItem(d) ==
  /\ pc[d] = "getItem"
  /\ IF registry[d.stack][d.inst] # None THEN Return(d) ELSE Goto(d, "describe")
  /\ NoFault /\ Elsewhere

\* describeInstance, after the wait: an instance that shuts down may still
\* have its address, a running one may not have it yet.
DescribeInstance(d) ==
  /\ pc[d] = "describe"
  /\ \/ ec2[d.inst] \in {"running", "shutting-down"} /\ NoFault /\ Goto(d, "tags")
     \/ ec2[d.inst] # "running" /\ NoFault /\ Return(d)
     \/ ec2[d.inst] = "running" /\ Fault /\ Return(d)
  /\ Elsewhere

\* The configuration read from those tags that DescribeTags returns already.
Candidate(d, seen) ==
  [ownerStackName |-> IF "owner" \in seen THEN Tags[d.inst].owner ELSE NoStack,
   hostedZoneId   |-> IF "zone" \in seen THEN Tags[d.inst].zone
                                         ELSE HostedZone[d.stack]]

Boundary(d) == [stackName |-> d.stack, hostedZoneId |-> HostedZone[d.stack]]

GetDnsConfigFromTags(d) ==
  /\ pc[d] = "tags"
  /\ \E seen \in SUBSET TagKeys :
       /\ IF seen = TagKeys THEN NoFault ELSE Fault
       /\ IF /\ "dns" \in seen /\ Tags[d.inst].dns
             /\ IsOwnedDnsRegistration(Candidate(d, seen), Boundary(d))
            THEN Goto(d, "createCheck")
            ELSE Return(d)
  /\ Elsewhere

\* Faulty variant: a new caller reference each time, as a time stamp would be.
CreateFreshCheck(d) ==
  /\ pc[d] = "createCheck"
  /\ LET ref == <<"sigint", d.inst, Cardinality(live \cup deleted)>>
     IN live' = live \cup {ref} /\ check' = [check EXCEPT ![d] = ref]
  /\ pc' = [pc EXCEPT ![d] = "getCheck"]
  /\ UNCHANGED <<ec2, attempt, polls, registry, records, deleted, faults>>

\* CreateHealthCheck.  Route 53 (external) returns the existing check of a
\* reference, and refuses the reference of a check that was deleted.
CreateHealthCheck(d) ==
  /\ pc[d] = "createCheck"
  /\ LET ref == HealthCheckCallerReference(d.inst)
     IN \/ /\ ref \in deleted
           /\ NoFault /\ Throw(d)
           /\ UNCHANGED live
        \/ /\ ref \notin deleted
           /\ live' = live \cup {ref}
           /\ \/ /\ NoFault
                 /\ pc' = [pc EXCEPT ![d] = "getCheck"]
                 /\ check' = [check EXCEPT ![d] = ref]
                 /\ UNCHANGED <<attempt, polls>>
              \/ LostReply /\ Throw(d)
  /\ UNCHANGED <<ec2, registry, records, deleted>>

\* createHealthCheck verifies the check; if it is gone the error leaves the
\* function before the handler has the identifier, so nothing is undone.
GetHealthCheck(d) ==
  /\ pc[d] = "getCheck"
  /\ IF check[d] \in live THEN Goto(d, "upsert") ELSE Throw(d)
  /\ NoFault /\ Elsewhere

\* createDnsRecord; Route 53 refuses a record whose check does not exist.
UpsertRecord(d) ==
  /\ pc[d] = "upsert"
  /\ IF check[d] \in live
       THEN /\ records' = [records EXCEPT ![d.inst] = check[d]]
            /\ Replied(d, "upsert", "poll")
       ELSE /\ UNCHANGED records
            /\ NoFault /\ OnError(d, "upsert")
  /\ UNCHANGED <<ec2, registry, live, deleted>>

\* Faulty variant: the handler returns when the polls are used up.
WaitOrReturn(d) ==
  /\ pc[d] = "poll"
  /\ \/ Goto(d, "verify")
     \/ Return(d)
  /\ NoFault /\ Elsewhere

\* waitForChange: after MaxPolls polls it goes on without INSYNC.
WaitForChange(d) ==
  /\ pc[d] = "poll"
  /\ \/ Goto(d, "verify")
     \/ /\ polls' = [polls EXCEPT ![d] = @ + 1]
        /\ pc' = [pc EXCEPT ![d] = IF polls'[d] < MaxPolls THEN "poll" ELSE "verify"]
        /\ UNCHANGED <<attempt, check>>
  /\ NoFault /\ Elsewhere

\* Faulty variant: compares the name without the final dot of Route 53's names.
VerifyWithoutDot(d) ==
  /\ pc[d] = "verify"
  /\ OnError(d, "verify")
  /\ NoFault /\ Elsewhere

VerifyDnsRecord(d) ==
  /\ pc[d] = "verify"
  /\ IF Listed(d.inst) THEN Goto(d, "putItem") ELSE OnError(d, "verify")
  /\ NoFault /\ Elsewhere

\* Faulty variant: the row has the instance's identifier for the check's.
PutItemSwapped(d) ==
  /\ pc[d] = "putItem"
  /\ registry' = [registry EXCEPT ![d.stack][d.inst] = <<d.inst>>]
  /\ NoFault /\ Return(d)
  /\ UNCHANGED <<ec2, route53>>

RegisterPutItem(d) ==
  /\ pc[d] = "putItem"
  /\ registry' = [registry EXCEPT ![d.stack][d.inst] = check[d]]
  /\ \/ NoFault /\ Return(d)
     \/ LostReply /\ OnError(d, "putItem")
  /\ UNCHANGED <<ec2, route53>>

\* The catch block: delete the check, keep the record, rethrow.
UndoHealthCheck(d) ==
  /\ pc[d] = "undo"
  /\ Route53DeleteCheck(check[d])
  /\ NoFault /\ Throw(d)
  /\ UNCHANGED <<ec2, registry, records>>

------------------------------------------------------------------------------
(* dns-deregister. *)

DeregisterGetItem(d) ==
  /\ pc[d] = "getRow"
  /\ LET row == registry[d.stack][d.inst]
     IN \/ row = None /\ Return(d)
        \/ /\ row # None
           /\ pc' = [pc EXCEPT ![d] = "deleteRecord"]
           /\ check' = [check EXCEPT ![d] = row]
           /\ UNCHANGED <<attempt, polls>>
  /\ NoFault /\ Elsewhere

\* Faulty variant: takes every error for "already deleted".
DeleteRecordOrIgnore(d) ==
  /\ pc[d] = "deleteRecord"
  /\ Goto(d, "deleteCheck")
  /\ \/ NoFault /\ records' = [records EXCEPT ![d.inst] = None]
     \/ Fault /\ UNCHANGED records
  /\ UNCHANGED <<ec2, registry, live, deleted>>

\* deleteDnsRecord: Route 53 deletes only the record that matches in full;
\* its InvalidChangeBatch is taken for "already deleted".
DeleteDnsRecord(d) ==
  /\ pc[d] = "deleteRecord"
  /\ IF records[d.inst] = check[d]
       THEN /\ records' = [records EXCEPT ![d.inst] = None]
            /\ Replied(d, "deleteRecord", "deleteCheck")
       ELSE /\ UNCHANGED records
            /\ NoFault /\ Goto(d, "deleteCheck")
  /\ UNCHANGED <<ec2, registry, live, deleted>>

\* Faulty variant: throws NoSuchHealthCheck too.
DeleteCheckOnce(d) ==
  /\ pc[d] = "deleteCheck"
  /\ Route53DeleteCheck(check[d])
  /\ NoFault
  /\ IF check[d] \in live THEN Goto(d, "deleteRow") ELSE Throw(d)
  /\ UNCHANGED <<ec2, registry, records>>

\* deleteHealthCheck: NoSuchHealthCheck is taken for "already deleted".
DeleteHealthCheck(d) ==
  /\ pc[d] = "deleteCheck"
  /\ Route53DeleteCheck(check[d])
  /\ Replied(d, "deleteCheck", "deleteRow")
  /\ UNCHANGED <<ec2, registry, records>>

DeregisterDeleteItem(d) ==
  /\ pc[d] = "deleteRow"
  /\ registry' = [registry EXCEPT ![d.stack][d.inst] = None]
  /\ \/ NoFault /\ Return(d)
     \/ LostReply /\ OnError(d, "deleteRow")
  /\ UNCHANGED <<ec2, route53>>

------------------------------------------------------------------------------
(* Failures, and the specification. *)

\* A call is not applied and its promise rejects.
CallFails(d) ==
  /\ InFlight(d)
  /\ Fault /\ OnError(d, pc[d])
  /\ Elsewhere

\* The lambda's time-out stops the handler at any await; no catch block runs.
TimeOut(d) ==
  /\ InFlight(d)
  /\ Fault /\ Throw(d)
  /\ Elsewhere

RegisterStep(d) ==
  \/ RegisterGetItem(d) \/ DescribeInstance(d) \/ GetDnsConfigFromTags(d)
  \/ CreateHealthCheck(d) \/ GetHealthCheck(d) \/ UpsertRecord(d)
  \/ WaitForChange(d) \/ VerifyDnsRecord(d) \/ RegisterPutItem(d)
  \/ UndoHealthCheck(d)

DeregisterStep(d) ==
  \/ DeregisterGetItem(d) \/ DeleteDnsRecord(d) \/ DeleteHealthCheck(d)
  \/ DeregisterDeleteItem(d)

Ec2Step(i) == Launch(i) \/ ShutDown(i) \/ Terminate(i)

DeliveryStep(d) ==
  \/ Redeliver(d) \/ Start(d) \/ RegisterStep(d) \/ DeregisterStep(d)
  \/ CallFails(d) \/ TimeOut(d)

Settled == \A d \in Deliveries : pc[d] \in {"idle"} \cup Finished

\* Every instance is terminated and every event handled: nothing is left to do.
AllHandled ==
  /\ \A i \in Instances : ec2[i] = "terminated"
  /\ Settled
  /\ UNCHANGED vars

Next ==
  \/ \E i \in Instances : Ec2Step(i)
  \/ \E d \in Deliveries : DeliveryStep(d)
  \/ AllHandled

Spec == Init /\ [][Next]_vars

\* EventBridge and Lambda start every delivery, and every awaited call comes
\* back (the lambda's time-out bounds it).
Fairness ==
  \A d \in Deliveries :
    /\ WF_vars(Start(d))
    /\ WF_vars(RegisterStep(d) \/ DeregisterStep(d))

FairSpec == Spec /\ Fairness

------------------------------------------------------------------------------
(* Properties. *)

OwnerOf(i) == Tags[i].owner

\* Past its tags, and not yet over.
Registering(d) ==
  pc[d] \in {"createCheck", "getCheck", "upsert", "poll", "verify", "putItem", "undo"}

\* isOwnedDnsRegistration keeps the stacks apart although every stack's lambdas
\* see every instance's events: only the stack that owns an instance ever
\* registers it or has a row for it.
OwnedOnly ==
  \A s \in Stacks, i \in Instances :
    (\/ registry[s][i] # None
     \/ \E d \in Deliveries : d.stack = s /\ d.inst = i /\ Registering(d))
      => OwnerOf(i) = s

\* The checks that the record of an instance, its row and the invocations that
\* work on it name.
NamedChecks(i) ==
  ({records[i]} \cup {registry[s][i] : s \in Stacks}
    \cup {check[d] : d \in {e \in Deliveries : e.inst = i}}) \ {None}

\* Attempts, repeated deliveries and deregistrations of one instance all name
\* one check, so that Route 53, which deletes only a record that matches in
\* full, never answers a deregistration with a mismatch that is taken for
\* "already deleted"; and no two instances share a check.
OneCheckPerInstance ==
  /\ \A i \in Instances : \A a, b \in NamedChecks(i) : a = b
  /\ \A i, j \in Instances : NamedChecks(i) \cap NamedChecks(j) # {} => i = j

\* dns-deregister drops a row last: when a row goes, the instance's record is
\* gone and its check was deleted, whatever calls failed before.
RowGoesLast ==
  [][\A s \in Stacks, i \in Instances :
       (registry[s][i] # None /\ registry'[s][i] = None)
         => records[i] = None /\ registry[s][i] \in deleted]_vars

\* Some registration of the instance is under way.
BeingRegistered(i) == \E d \in Deliveries : d.inst = i /\ Registering(d)

Roomy == Cardinality(Instances) <= MaxItems

\* "Stores mapping in DynamoDB for cleanup tracking": as long as no call has
\* failed, a record or a live check that no row tracks belongs to a
\* registration under way.
NoSilentOrphan ==
  (faults = 0 /\ Roomy) =>
    \A i \in Instances :
      (\/ records[i] # None
       \/ HealthCheckCallerReference(i) \in live)
        => \/ \E s \in Stacks : registry[s][i] # None
           \/ BeingRegistered(i)

Tracked(i) == \E s \in Stacks : registry[s][i] # None

\* As long as fewer calls fail than a delivery has attempts, an instance that
\* has a row while its last event waits loses the row, the record and the
\* check: each attempt to deregister takes up what the one before it left.
DeregisteredInTheEnd ==
  \A d \in {e \in Deliveries : e.kind = "terminated"} :
    (pc[d] = "queued" /\ registry[d.stack][d.inst] # None)
      ~> (/\ registry[d.stack][d.inst] = None /\ records[d.inst] = None
          /\ HealthCheckCallerReference(d.inst) \notin live)

\* An instance that runs is registered in the end, unless it stops running or a
\* call fails first.
RegisteredInTheEnd ==
  \A i \in Instances :
    (ec2[i] = "running" /\ Tags[i].dns /\ OwnerOf(i) \in Stacks)
      ~> (Tracked(i) \/ ec2[i] # "running" \/ faults > 0)

\* README.md:59, "EC2 terminate -> DNS removal": when everything is handled
\* and no call failed, a terminated instance has no record.
TerminatedMeansRemoved ==
  (Settled /\ faults = 0) =>
    \A i \in Instances : ec2[i] = "terminated" => records[i] = None
==============================================================================
