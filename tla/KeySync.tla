------------------------------- MODULE KeySync --------------------------------
(***************************************************************************)
(* The copy of the shared secret in CloudFront's key-value store:          *)
(* src-lambda/handlers/sync-kvs-key.ts, the custom resource that invokes   *)
(* it in lib/services/tls-fingerprint-edge.ts, the store and its replicas. *)
(*                                                                         *)
(* Each deployment invokes the lambda.  Its invoker may repeat a call      *)
(* whose answer it did not get, and a failed deployment is rolled back,    *)
(* which is a deployment too: invocations may overlap.  One action is one  *)
(* awaited call.  The secret is rotated by hand, at any time; its values   *)
(* are numbered.                                                           *)
(***************************************************************************)
EXTENDS Naturals

CONSTANTS
  Invocations,   \* of the lambda
  NoKey,         \* the store before the first PutKey
  MaxRotations,  \* bound
  MaxFaults      \* bound: failed calls, lost replies, time-outs

ASSUME NoKeyAssumption == NoKey \notin Nat
ASSUME SyncBoundsAssumption == {MaxRotations, MaxFaults} \subseteq Nat

VARIABLES
  secret,   \* the secret in Secrets Manager
  stored,   \* hmac-key in the key-value store
  version,  \* the store's ETag, which every PutKey changes
  replica,  \* hmac-key as an edge location reads it
  pc,       \* of each invocation: the call it awaits
  value,    \* the secret it read
  etag,     \* the ETag it read
  faults,   \* faults so far
  synced    \* history: did an invocation copy this secret, unchallenged?

store == <<stored, version>>
invocation == <<pc, value, etag>>
syncVars == <<secret, store, replica, invocation, faults, synced>>

Awaiting == {"getSecret", "describe", "putKey"}
Secrets == 0 .. MaxRotations

SyncTypeOK ==
  /\ secret \in Secrets
  /\ stored \in Secrets \cup {NoKey}
  /\ version \in Nat
  /\ replica \in Secrets \cup {NoKey}
  /\ pc \in [Invocations -> {"idle", "done", "failed", "stray"} \cup Awaiting]
  /\ value \in [Invocations -> Secrets]
  /\ etag \in [Invocations -> Nat]
  /\ faults \in 0 .. MaxFaults
  /\ synced \in BOOLEAN

SyncInit ==
  /\ secret = 0
  /\ stored = NoKey
  /\ version = 0
  /\ replica = NoKey
  /\ pc = [i \in Invocations |-> "idle"]
  /\ value = [i \in Invocations |-> 0]
  /\ etag = [i \in Invocations |-> 0]
  /\ faults = 0
  /\ synced = FALSE

Fault == faults < MaxFaults /\ faults' = faults + 1
NoFault == UNCHANGED faults

------------------------------------------------------------------------------
(* Secrets Manager and CloudFront (external). *)

RotateSecret ==
  /\ secret < MaxRotations
  /\ secret' = secret + 1
  /\ synced' = FALSE
  /\ UNCHANGED <<store, replica, invocation, faults>>

Propagate ==
  /\ replica # stored
  /\ replica' = stored
  /\ UNCHANGED <<secret, store, invocation, faults, synced>>

\* PutKey with IfMatch.
Matches(i) == etag[i] = version
Apply(i) == stored' = value[i] /\ version' = version + 1

------------------------------------------------------------------------------
(* The handler. *)

Goto(i, call) == pc' = [pc EXCEPT ![i] = call]

\* A Delete leaves the key where it is.
Invoke(i) ==
  /\ pc[i] = "idle"
  /\ \E type \in {"Create", "Update", "Delete"} :
       Goto(i, IF type = "Delete" THEN "done" ELSE "getSecret")
  /\ UNCHANGED <<secret, store, replica, value, etag, faults, synced>>

\* Faulty variant: a secret without SecretString goes unnoticed.
GetSecretUnchecked(i) ==
  /\ pc[i] = "getSecret"
  /\ \/ NoFault /\ value' = [value EXCEPT ![i] = secret]
     \/ Fault /\ value' = [value EXCEPT ![i] = NoKey]
  /\ Goto(i, "describe")
  /\ UNCHANGED <<secret, store, replica, etag, synced>>

GetSecretValue(i) ==
  /\ pc[i] = "getSecret"
  /\ value' = [value EXCEPT ![i] = secret]
  /\ Goto(i, "describe")
  /\ UNCHANGED <<secret, store, replica, etag, faults, synced>>

\* Faulty variant: an ETag that was read when the store was new.
DescribeOnce(i) ==
  /\ pc[i] = "describe"
  /\ etag' = [etag EXCEPT ![i] = 0]
  /\ Goto(i, "putKey")
  /\ UNCHANGED <<secret, store, replica, value, faults, synced>>

DescribeKeyValueStore(i) ==
  /\ pc[i] = "describe"
  /\ etag' = [etag EXCEPT ![i] = version]
  /\ Goto(i, "putKey")
  /\ UNCHANGED <<secret, store, replica, value, faults, synced>>

\* Another invocation has read an older secret and will read the ETag yet.
Challenged(i) == \E j \in Invocations \ {i} : pc[j] = "describe" /\ value[j] # secret

\* Faulty variant: without IfMatch.
PutAnyway(i) ==
  /\ pc[i] = "putKey"
  /\ Apply(i)
  /\ synced' = (synced \/ (value[i] = secret /\ ~Challenged(i)))
  /\ NoFault /\ Goto(i, "done")
  /\ UNCHANGED <<secret, replica, value, etag>>

\* The SDK repeats a call whose reply was lost, and the ETag has changed.
PutKey(i) ==
  /\ pc[i] = "putKey"
  /\ \/ /\ Matches(i) /\ Apply(i)
        /\ \/ /\ NoFault /\ Goto(i, "done")
              /\ synced' = (synced \/ (value[i] = secret /\ ~Challenged(i)))
           \/ /\ Fault /\ Goto(i, "failed")
              /\ UNCHANGED synced
     \/ /\ ~Matches(i) /\ Goto(i, "failed") /\ NoFault
        /\ UNCHANGED <<store, synced>>
  /\ UNCHANGED <<secret, replica, value, etag>>

\* A call fails, or its answer has no SecretString or no ETag.
Throw(i) ==
  /\ pc[i] \in Awaiting
  /\ Fault /\ Goto(i, "failed")
  /\ UNCHANGED <<secret, store, replica, value, etag, synced>>

\* The lambda's 30 seconds are over; a PutKey it has sent may arrive yet.
TimeOut(i) ==
  /\ pc[i] \in Awaiting
  /\ Fault /\ Goto(i, IF pc[i] = "putKey" THEN "stray" ELSE "failed")
  /\ UNCHANGED <<secret, store, replica, value, etag, synced>>

StrayPut(i) ==
  /\ pc[i] = "stray"
  /\ IF Matches(i) THEN Apply(i) ELSE UNCHANGED store
  /\ Goto(i, "failed")
  /\ UNCHANGED <<secret, replica, value, etag, faults, synced>>

HandlerStep(i) == GetSecretValue(i) \/ DescribeKeyValueStore(i) \/ PutKey(i)

------------------------------------------------------------------------------
SyncNext ==
  \/ RotateSecret \/ Propagate
  \/ \E i \in Invocations :
       Invoke(i) \/ HandlerStep(i) \/ Throw(i) \/ TimeOut(i) \/ StrayPut(i)

SyncSpec == SyncInit /\ [][SyncNext]_syncVars

------------------------------------------------------------------------------
(* Properties. *)

\* "keep the CF KVS entry in lockstep with the shared SIGINT AES secret": once
\* an invocation has copied the secret, and none that read an older one has its
\* ETag still to read, the store holds the secret until the next rotation,
\* whatever earlier invocations, timed-out ones included, still send.
KvsHoldsTheSecret == synced => stored = secret

\* tls-fingerprint-edge.ts:170, "manual secret rotations propagate": when calls
\* fail no longer, a secret that an invocation is about to read reaches the edge,
\* unless it is rotated again or another invocation comes in between.
RotationReachesEdge ==
  \A i \in Invocations, v \in Secrets :
    LET alone == \A j \in Invocations \ {i} : pc[j] \in {"idle", "done", "failed"}
        calm == secret = v /\ faults = MaxFaults /\ alone
    IN (pc[i] = "getSecret" /\ calm) ~> (replica = v \/ ~calm)
==============================================================================
