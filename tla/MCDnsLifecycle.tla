---------------------------- MODULE MCDnsLifecycle ----------------------------
(***************************************************************************)
(* Instances of DnsLifecycle for TLC.  All stages of the pipeline share    *)
(* one hosted zone; a stack's lambdas name it without the path, the tag of *)
(* an instance may carry it.                                               *)
(***************************************************************************)
EXTENDS DnsLifecycle

CONSTANTS s1, s2, z1

MCHostedZone == [s \in Stacks |-> [path |-> FALSE, id |-> z1]]

Tagged(stack) == [dns |-> TRUE, domain |-> stack, owner |-> stack,
                  zone |-> [path |-> TRUE, id |-> z1]]

\* Every instance belongs to the first stack.
MCTags == [i \in Instances |-> Tagged(s1)]

===============================================================================
