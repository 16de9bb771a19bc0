----------------------------- MODULE MCEdgeToken ------------------------------
(***************************************************************************)
(* An instance of EdgeToken for TLC: bytes of two bits, 3 is the bar.  The *)
(* texts that are signed have 10, 11, 15 and 16 bytes: two blocks, a last  *)
(* one that is full, and three of which the last is the length alone.      *)
(***************************************************************************)
EXTENDS EdgeToken, FiniteSetsExt

\* Exclusive or, by a table for two bytes.
Pair == ByteMod * ByteMod
Bit(x, n) == (x \div 2^n) % 2
XorPair == [x, y \in 0 .. Pair - 1 |->
  MapThenSumSet(LAMBDA n : IF Bit(x, n) # Bit(y, n) THEN 2^n ELSE 0,
                0 .. 2 * ByteBits - 1)]
MCXorHalf(x, y) == Pair * XorPair[x \div Pair, y \div Pair] + XorPair[x % Pair, y % Pair]

MCInvocations == 1 .. 2
MCRequests == 1 .. 2
MCInitialHalves == <<117, 173, 46, 97, 109, 172, 203, 39>>
MCKey == [v \in 0 .. MaxRotations |-> [n \in 1 .. 20 |-> (n * n * v + n + n \div 3) % 4]]
MCUuid == [r \in Requests |-> <<r, 0, 2, r>>]
MCFpid == <<0, 1, 2, 1>>
MCViewers == {[ip |-> <<>>, asn |-> <<>>], [ip |-> <<2, 1, 2, 2>>, asn |-> <<1>>],
              [ip |-> <<1, 0, 2, 2>>, asn |-> <<1, 2>>]}
MCForeign == {[id |-> <<2, 2, 2, 0>>, issuedAt |-> 0, sig |-> [l |-> 0, h |-> 0]]}
==============================================================================
