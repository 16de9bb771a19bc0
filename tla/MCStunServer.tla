----------------------------- MODULE MCStunServer -----------------------------
(***************************************************************************)
(* An instance of StunServer for TLC: words and halves of two bits, keyed  *)
(* functions that depend on every argument.                                *)
(***************************************************************************)
EXTENDS StunServer, FiniteSets

CONSTANTS v6

MCWordMod == 4
MCHalves == 0 .. 3

\* Exclusive or of two-bit numbers.
MCXor == [a \in MCHalves |-> [b \in MCHalves |->
            2 * ((a \div 2 + b \div 2) % 2) + ((a + b) % 2)]]

\* Four different rounds, most of them no permutations.
MCRound == [i \in 0..3 |-> [r \in MCHalves |-> (r * r + i * r + i) % 4]]

MCWord == 0 .. MCWordMod - 1
MCPayload == {<<a, b, c, d>> : a \in MCWord, b \in MCWord, c \in MCWord, d \in MCWord}

\* A permutation of the blocks, and its inverse.
MCAesEncrypt == [p \in MCPayload |-> <<(p[4] + 1) % 4, p[1], (p[2] + p[1]) % 4, p[3]>>]
MCAesDecrypt ==
  [q \in MCPayload |-> <<q[2], (q[3] + 4 - q[2]) % 4, q[4], (q[1] + 3) % 4>>]

MCHmac == [t \in {<<a, b, c>> : a \in MCWord, b \in MCWord, c \in MCWord} |->
             (t[1] + 2 * t[2] + 3 * t[3] + 1) % 4]

\* Two IPv4 clients behind different addresses, and one with an IPv6 address.
MCClients == {[ip |-> 1, port |-> 5], [ip |-> 2, port |-> 5], [ip |-> v6, port |-> 5]}
===============================================================================
