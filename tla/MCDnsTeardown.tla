---------------------------- MODULE MCDnsTeardown -----------------------------
(***************************************************************************)
(* Instances of DnsTeardown for TLC: stacks that share one hosted zone.    *)
(***************************************************************************)
EXTENDS DnsTeardown

CONSTANTS s1, s2, z1

MCHostedZone == [s \in Stacks |-> [path |-> FALSE, id |-> z1]]

Tagged(stack, name) == [dns |-> TRUE, domain |-> name, owner |-> stack,
                        zone |-> [path |-> TRUE, id |-> z1]]

\* All instances serve one domain of the first stack.
MCTags == [i \in Instances |-> Tagged(s1, 1)]

\* The second stack has an instance of its own, under its own domain.
MCTagsTwoStacks == [i \in Instances |-> IF i = 1 THEN Tagged(s1, 1) ELSE Tagged(s2, 2)]
===============================================================================
