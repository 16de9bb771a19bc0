----------------------------- MODULE DnsTeardown ------------------------------
(***************************************************************************)
(* The deletion of stacks while their instances and lambdas live on:       *)
(* src-lambda/handlers/dns-cleanup.ts, invoked by the custom resource of   *)
(* lib/services/dns-cleanup.ts, composed with DnsLifecycle.                *)
(*                                                                         *)
(* CloudFormation orders the custom resource with no other part of the     *)
(* stack: instances keep changing state, register and deregister keep      *)
(* running until their lambdas are removed, at any time of the deletion.   *)
(*                                                                         *)
(* The domains of this module are numbers: Route 53 lists records by name, *)
(* then by set identifier.                                                 *)
(***************************************************************************)
EXTENDS DnsLifecycle

CONSTANTS PageSize   \* MaxItems of the orphan scan (100 in the code)

ASSUME PageSizeAssumption == PageSize \in Nat \ {0}
ASSUME DomainAssumption == \A i \in Instances : Tags[i].domain \in Nat

VARIABLES
  cpc,       \* of each stack's cleanup: where it is
  work,      \* the scanned rows, or the listed records, still to delete
  item,      \* the row or record being deleted, or None
  cursor,    \* nextRecordName: the domain the next page begins at
  truncated, \* isTruncated
  removed,   \* the stacks whose register and deregister lambdas are gone
  promised   \* history: what the cleanup must leave nothing of (see Promise)

cleanupVars == <<cpc, work, item, cursor, truncated, removed, promised>>
allVars == <<vars, cleanupVars>>
invocations == <<ec2, invocation>>

Item == [inst : Instances, check : CheckIds]
CleanupCalls == {"scan", "itemRecord", "itemCheck", "itemRow",
                 "list", "orphanCheck", "orphanRecord"}

TeardownTypeOK ==
  /\ TypeOK
  /\ cpc \in [Stacks -> {"idle", "done", "failed"} \cup CleanupCalls]
  /\ work \in [Stacks -> SUBSET Item]
  /\ item \in [Stacks -> Item \cup {None}]
  /\ cursor \in [Stacks -> Nat]
  /\ truncated \in [Stacks -> BOOLEAN]
  /\ removed \in SUBSET Stacks
  /\ promised \in [Stacks -> SUBSET Instances]

TeardownInit ==
  /\ Init
  /\ cpc = [s \in Stacks |-> "idle"]
  /\ work = [s \in Stacks |-> {}]
  /\ item = [s \in Stacks |-> None]
  /\ cursor = [s \in Stacks |-> 0]
  /\ truncated = [s \in Stacks |-> FALSE]
  /\ removed = {}
  /\ promised = [s \in Stacks |-> {}]

------------------------------------------------------------------------------
(* CloudFormation (external). *)

\* History: the instances of the stack that are up and whose registrations are
\* over when the cleanup is invoked, as long as none of its own calls fails.
Promise(s) ==
  {i \in Instances :
     /\ OwnerOf(i) = s /\ ec2[i] # "pending"
     /\ \A d \in Deliveries :
          (d.stack = s /\ d.inst = i /\ d.kind = "running") => pc[d] \in Finished}

\* The Delete event of the custom resource; a deletion that failed is retried.
DeleteStack(s) ==
  /\ cpc[s] \in {"idle", "failed"}
  /\ cpc' = [cpc EXCEPT ![s] = "scan"]
  /\ promised' = [promised EXCEPT ![s] = Promise(s)]
  /\ UNCHANGED <<vars, work, item, cursor, truncated, removed>>

RemoveLambdas(s) ==
  /\ cpc[s] # "idle"
  /\ s \notin removed
  /\ removed' = removed \cup {s}
  /\ UNCHANGED <<vars, cpc, work, item, cursor, truncated, promised>>

------------------------------------------------------------------------------
(* The handler. *)

Continue(s, next) ==
  /\ cpc' = [cpc EXCEPT ![s] = next]
  /\ UNCHANGED <<work, item, cursor, truncated, removed>>

\* Route 53 lists by name, then by set identifier.
Before(x, y) ==
  \/ Tags[x.inst].domain < Tags[y.inst].domain
  \/ Tags[x.inst].domain = Tags[y.inst].domain /\ x.inst < y.inst

FirstOf(n, items) == {x \in items : Cardinality({y \in items : Before(y, x)}) < n}

\* The for loops: one of the elements that may come next, or what follows.
NextOf(s, items, nexts, body, after) ==
  \/ /\ items = {}
     /\ cpc' = [cpc EXCEPT ![s] = after]
     /\ work' = [work EXCEPT ![s] = {}]
     /\ item' = [item EXCEPT ![s] = None]
  \/ \E x \in nexts :
       /\ cpc' = [cpc EXCEPT ![s] = body]
       /\ work' = [work EXCEPT ![s] = items \ {x}]
       /\ item' = [item EXCEPT ![s] = x]

NextRow(s, rows) == NextOf(s, rows, rows, "itemRecord", "list")
NextOrphan(s, page, after) == NextOf(s, page, FirstOf(1, page), "orphanCheck", after)

\* A failing call is logged; the history remembers that it happened.
CallFailed(s) == Fault /\ promised' = [promised EXCEPT ![s] = {}]
CallDone == NoFault /\ UNCHANGED promised

\* Faulty variant: keeps incomplete items.
GetAllItems(s) ==
  /\ cpc[s] = "scan"
  /\ cursor' = [cursor EXCEPT ![s] = 0]
  /\ CallDone
  /\ NextRow(s, {[inst |-> i, check |-> registry[s][i]] : i \in Instances})
  /\ UNCHANGED <<invocations, registry, route53, truncated, removed>>

\* getRegistryItems; its failure ends performCleanup, and the handler answers
\* SUCCESS all the same.
GetRegistryItems(s) ==
  /\ cpc[s] = "scan"
  /\ cursor' = [cursor EXCEPT ![s] = 0]
  /\ \/ /\ CallDone
        /\ NextRow(s, {[inst |-> i, check |-> registry[s][i]] :
                         i \in {j \in Instances : registry[s][j] # None}})
     \/ /\ CallFailed(s)
        /\ cpc' = [cpc EXCEPT ![s] = "done"]
        /\ UNCHANGED <<work, item>>
  /\ UNCHANGED <<invocations, registry, route53, truncated, removed>>

\* The three calls of cleanupItem; a failure of one is logged only.
Route53DeleteRecord(x) ==
  IF records[x.inst] = x.check
    THEN records' = [records EXCEPT ![x.inst] = None]
    ELSE UNCHANGED records                    \* InvalidChangeBatch

\* Faulty variant: goes from the record to the row.
CleanupItemRecordThenRow(s) ==
  /\ cpc[s] = "itemRecord"
  /\ CallDone /\ Route53DeleteRecord(item[s])
  /\ Continue(s, "itemRow")
  /\ UNCHANGED <<invocations, registry, live, deleted>>

CleanupItemRecord(s) ==
  /\ cpc[s] = "itemRecord"
  /\ \/ CallDone /\ Route53DeleteRecord(item[s])
     \/ CallFailed(s) /\ UNCHANGED records
  /\ Continue(s, "itemCheck")
  /\ UNCHANGED <<invocations, registry, live, deleted>>

CleanupItemCheck(s) ==
  /\ cpc[s] = "itemCheck"
  /\ \/ CallDone /\ Route53DeleteCheck(item[s].check)
     \/ CallFailed(s) /\ UNCHANGED <<live, deleted>>
  /\ Continue(s, "itemRow")
  /\ UNCHANGED <<invocations, registry, records>>

CleanupItemRow(s) ==
  /\ cpc[s] = "itemRow"
  /\ \/ CallDone /\ registry' = [registry EXCEPT ![s][item[s].inst] = None]
     \/ CallFailed(s) /\ UNCHANGED registry
  /\ NextRow(s, work[s])
  /\ UNCHANGED <<invocations, route53, cursor, truncated, removed>>

\* One page of cleanupOrphanedRecords: the records of the whole zone, from the
\* cursor on.  The filter keeps every record with an instance for its set
\* identifier.  The next page begins at the name of the first record left over,
\* not at that record.  A record is in the zone of the stack that registered it.
ZoneRecords(s) == {[inst |-> i, check |-> records[i]] :
  i \in {j \in Instances : /\ records[j] # None
                           /\ \E t \in Stacks : /\ OwnerOf(j) = t
                                                /\ HostedZone[t].id = HostedZone[s].id}}

\* Faulty variant: the first page only.
ListFirstPage(s) ==
  /\ truncated' = [truncated EXCEPT ![s] = FALSE]
  /\ UNCHANGED cursor
  /\ NextOrphan(s, FirstOf(PageSize, ZoneRecords(s)), "done")

ListPage(s) ==
  LET left == {x \in ZoneRecords(s) : Tags[x.inst].domain >= cursor[s]}
      page == FirstOf(PageSize, left)
      over == FirstOf(1, left \ page)
  IN /\ truncated' = [truncated EXCEPT ![s] = over # {}]
     /\ cursor' = [cursor EXCEPT ![s] =
          IF over = {} THEN 0 ELSE CHOOSE n \in {Tags[x.inst].domain : x \in over} : TRUE]
     /\ NextOrphan(s, page, IF over = {} THEN "done" ELSE "list")

ListOrphans(s) ==
  /\ cpc[s] = "list"
  /\ \/ CallDone /\ ListPage(s)
     \/ CallFailed(s) /\ Continue(s, "done")
  /\ UNCHANGED <<invocations, registry, route53, removed>>

\* cleanupSingleOrphan: first the check, then the record as it was listed.
OrphanCheck(s) ==
  /\ cpc[s] = "orphanCheck"
  /\ \/ CallDone /\ Route53DeleteCheck(item[s].check)
     \/ CallFailed(s) /\ UNCHANGED <<live, deleted>>
  /\ Continue(s, "orphanRecord")
  /\ UNCHANGED <<invocations, registry, records>>

OrphanRecord(s) ==
  /\ cpc[s] = "orphanRecord"
  /\ \/ CallDone /\ Route53DeleteRecord(item[s])
     \/ CallFailed(s) /\ UNCHANGED records
  /\ NextOrphan(s, work[s], IF truncated[s] THEN "list" ELSE "done")
  /\ UNCHANGED <<invocations, registry, live, deleted, cursor, truncated, removed>>

\* The lambda's five minutes are over: the custom resource fails.
CleanupTimeOut(s) ==
  /\ cpc[s] \in CleanupCalls
  /\ CallFailed(s)
  /\ cpc' = [cpc EXCEPT ![s] = "failed"]
  /\ work' = [work EXCEPT ![s] = {}]
  /\ item' = [item EXCEPT ![s] = None]
  /\ UNCHANGED <<invocations, registry, route53, cursor, truncated, removed>>

CleanupStep(s) ==
  \/ GetRegistryItems(s) \/ CleanupItemRecord(s) \/ CleanupItemCheck(s)
  \/ CleanupItemRow(s) \/ ListOrphans(s) \/ OrphanCheck(s) \/ OrphanRecord(s)

------------------------------------------------------------------------------
(* The composition. *)

\* EC2 and the other lambdas go on; nothing starts in a lambda that is gone.
LifecycleStep ==
  /\ \/ \E i \in Instances : Ec2Step(i)
     \/ \E d \in Deliveries : /\ pc[d] = "queued" => d.stack \notin removed
                              /\ DeliveryStep(d)
  /\ UNCHANGED cleanupVars

Handled(d) == \/ pc[d] \in {"idle"} \cup Finished
              \/ pc[d] = "queued" /\ d.stack \in removed

\* Every instance is terminated, every stack deleted, and nothing runs.
TornDown ==
  /\ \A i \in Instances : ec2[i] = "terminated"
  /\ \A d \in Deliveries : Handled(d)
  /\ \A s \in Stacks : cpc[s] = "done" /\ s \in removed

TeardownNext ==
  \/ LifecycleStep
  \/ \E s \in Stacks : \/ DeleteStack(s) \/ RemoveLambdas(s)
                       \/ CleanupStep(s) \/ CleanupTimeOut(s)
  \/ TornDown /\ UNCHANGED allVars

TeardownSpec == TeardownInit /\ [][TeardownNext]_allVars

------------------------------------------------------------------------------
(* Properties. *)

\* A cleanup that runs while instances register and deregister drops no row
\* before its record and its check, as long as no call fails: a failing call is
\* only logged, and then the row goes first.
CleanupRowGoesLast ==
  [][\A s \in Stacks, i \in Instances :
       (registry[s][i] # None /\ registry'[s][i] = None /\ faults = 0)
         => records[i] = None /\ registry[s][i] \in deleted]_allVars

\* A cleanup none of whose calls failed leaves no row and no record of an
\* instance that was registered, or whose registration had failed half-way,
\* before the cleanup was invoked.
SettledAreCleaned ==
  \A s \in Stacks : cpc[s] = "done" =>
    \A i \in promised[s] : ~Tracked(i) /\ records[i] = None

\* dns-cleanup.ts:169, "Scanning Route53 for orphaned records": a cleanup takes
\* away records of its own stack, or records that no registry tracks.
OnlyOrphansGo ==
  [][\A s \in Stacks, i \in Instances :
       (cpc[s] = "orphanRecord" /\ cpc'[s] # cpc[s] /\ records[i] # None
          /\ records'[i] = None)
         => OwnerOf(i) = s \/ ~Tracked(i)]_allVars
==============================================================================
