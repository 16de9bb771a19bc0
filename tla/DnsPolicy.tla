------------------------------ MODULE DnsPolicy ------------------------------
(***************************************************************************)
(* The pure decisions the DNS lambdas share                                *)
(* (src-lambda/dns-registration-policy.ts).                                *)
(*                                                                         *)
(* A hosted zone is named in two ways: by its bare identifier and, as      *)
(* Route 53 returns it, with the path "/hostedzone/" before it.  A zone    *)
(* reference is therefore a record: whether it carries the path, and the   *)
(* identifier.                                                             *)
(***************************************************************************)

ZoneRef(Zones) == [path : BOOLEAN, id : Zones]

\* normalizeHostedZoneId: drops the leading path, if there is one.
NormalizeHostedZoneId(ref) == [ref EXCEPT !.path = FALSE]

\* Faulty variant: compares the zones only.
OwnedByZoneAlone(candidate, boundary) ==
  NormalizeHostedZoneId(candidate.hostedZoneId) =
    NormalizeHostedZoneId(boundary.hostedZoneId)

\* isOwnedDnsRegistration: the stack that CloudFormation tagged the instance
\* with is this lambda's stack, and the zone is this lambda's zone.  An
\* instance without the tag has the owner NoStack, which equals no stack.
IsOwnedDnsRegistration(candidate, boundary) ==
  /\ candidate.ownerStackName = boundary.stackName
  /\ NormalizeHostedZoneId(candidate.hostedZoneId) =
       NormalizeHostedZoneId(boundary.hostedZoneId)

\* Faulty variant: forgets the instance.
ReferenceOfService(i) == <<"sigint", "probe">>

\* healthCheckCallerReference: the constant prefix and the instance id, so the
\* same reference on every attempt to register the instance.
HealthCheckCallerReference(i) == <<"sigint", i>>
===============================================================================
