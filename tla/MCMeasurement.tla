--------------------------- MODULE MCMeasurement ----------------------------
(***************************************************************************)
(* Instances of Measurement for TLC: what clients send.                    *)
(***************************************************************************)
EXTENDS Measurement

Offer(ciphers, extensions, versions, protocols) ==
  [version |-> 771, random |-> [i \in 1 .. 32 |-> 255], session |-> <<7, 7, 7>>,
   ciphers |-> ciphers, extensions |-> extensions,
   others |-> [i \in 1 .. Len(extensions) |-> <<0, 1, 2>>], host |-> <<97>>,
   sigAlgs |-> <<2052, 1027, 2052>>, protocols |-> protocols, versions |-> versions]

Offers ==
  {Offer(c, e, v, p) :
     c \in {<<4867>>, <<4866, 4865>>, <<2570, 49195, 4865, 4867>>},
     e \in {<<>>, <<43, 0, 16, 13>>, <<6682, 13, 0, 43, 10, 64250>>},
     v \in {<<772, 771>>, <<64250, 770>>},
     p \in {<<>>, <<<<104, 50>>, <<104>>>>, <<<<113>>>>}}

Whole(o) == [bytes |-> Record(22, Hello(o)), offer |-> o]

Sample == Offer(<<2570, 4865>>, <<13, 43, 16, 0>>, <<772>>, <<<<104, 50>>>>)

\* The message in two records; its payload with one byte changed or cut off; other
\* protocols; lengths beyond and below what the probe reads.
Others ==
  LET h == Hello(Sample)
      payloads == {[h EXCEPT ![i] = v] : i \in 1 .. Len(h), v \in {0, 40, 255}}
                    \cup {SubSeq(h, 1, n) : n \in 0 .. Len(h)}
                    \cup {<<1, 0>> \o Vector16(SubSeq(h, 5, n)) : n \in 5 .. Len(h)}
  IN {[bytes |-> b, offer |-> None] :
        b \in {Record(22, p) : p \in payloads}
              \cup {Record(22, SubSeq(h, 1, 9)) \o Record(22, From(h, 10)),
                    Record(21, <<2, 40>>), <<71, 69, 84, 32, 47, 13, 10>>,
                    <<22, 3, 1, 64, 1, 1>>, <<22, 3, 1, 0>>, <<>>}}

MCStreams == {Whole(o) : o \in Offers} \cup Others
=============================================================================
