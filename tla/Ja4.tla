--------------------------------- MODULE Ja4 ---------------------------------
(***************************************************************************)
(* The parser of ClientHello messages and the JA4 fingerprint              *)
(* (src-go/tcp-probe/ja4.go, of which src-go/h2-probe/ja4.go is a copy).   *)
(*                                                                         *)
(* A message is a sequence of bytes.  A JA4 is the record of what its text *)
(* is made of: the hashes of the sorted lists are the lists.               *)
(***************************************************************************)
EXTENDS Integers, Sequences, FiniteSetsExt

Byte == 0 .. 255
UInt16 == 0 .. 65535

\* The two-byte number at position i.
Word(d, i) == d[i] * 256 + d[i + 1]

Words(d) == [i \in 1 .. Len(d) \div 2 |-> Word(d, 2 * i - 1)]

From(d, i) == SubSeq(d, i, Len(d))

\* A vector is its length, in one or two bytes, and that many bytes.
Has8(d) == Len(d) >= 1 /\ Len(d) - 1 >= d[1]
Has16(d) == Len(d) >= 2 /\ Len(d) - 2 >= Word(d, 1)
Value8(d) == SubSeq(d, 2, 1 + d[1])
Value16(d) == SubSeq(d, 3, 2 + Word(d, 1))
After8(d) == From(d, 2 + d[1])
After16(d) == From(d, 3 + Word(d, 1))

\* A slice is at most what there is.
AtMost(n, available) == IF n <= available THEN n ELSE available

IsGREASE(v) == v \div 256 = v % 256 /\ v % 16 = 10

GreaseValues == {v \in UInt16 : IsGREASE(v)}

\* The loops that collect all values but some.
Without(values, others) ==
  LET kept[n \in 0 .. Len(values)] ==
        IF n = 0 THEN <<>>
        ELSE IF values[n] \in others THEN kept[n - 1] ELSE Append(kept[n - 1], values[n])
  IN kept[Len(values)]

NotGREASE(values) == Without(values, GreaseValues)

------------------------------------------------------------------------------
(* parseClientHello: the parts of a message, and when it is refused. *)

HelloLength(data) == data[2] * 65536 + Word(data, 3)

Body(data) == SubSeq(data, 5, 4 + HelloLength(data))

\* From the session identifier on, after the version and 32 random bytes; from
\* the cipher suites on; from the compression methods on; from the extensions on.
SessionPart(d) == From(d, 35)
CipherPart(d) == After8(SessionPart(d))
CompressionPart(d) == After16(CipherPart(d))
ExtensionPart(d) == After8(CompressionPart(d))

Parses(data) ==
  /\ Len(data) >= 4 /\ data[1] = 1
  /\ Len(data) - 4 >= HelloLength(data)
  /\ LET d == Body(data)
     IN /\ Len(d) >= 34
        /\ Has8(SessionPart(d))
        /\ Has16(CipherPart(d)) /\ Word(CipherPart(d), 1) % 2 = 0
        /\ Has8(CompressionPart(d))
        /\ Len(ExtensionPart(d)) < 2 \/ Has16(ExtensionPart(d))

\* The loop over protocol names ends at the first one that is cut short.
NextProtocol(s) ==
  IF ~Has8(s.rest) THEN s
  ELSE [rest |-> After8(s.rest), protocols |-> Append(s.protocols, Value8(s.rest))]

ProtocolList(b) ==
  LET loop[n \in 0 .. Len(b)] ==
        IF n = 0 THEN [rest |-> b, protocols |-> <<>>] ELSE NextProtocol(loop[n - 1])
  IN loop[Len(b)].protocols

\* The two-byte values of the first n bytes; of an odd n, one byte more.
Pairs(b, n) == Words(SubSeq(b, 1, AtMost(n + (n % 2), Len(b))))

SigAlgsOf(b) == IF Len(b) < 2 THEN <<>> ELSE Pairs(From(b, 3), Word(b, 1))

AlpnOf(b) ==
  IF Len(b) < 2 THEN <<>>
  ELSE ProtocolList(SubSeq(b, 3, AtMost(2 + Word(b, 1), Len(b))))

VersionsOf(b) == IF Len(b) < 1 THEN <<>> ELSE Pairs(From(b, 2), b[1])

\* What the parser takes from an extension.
WithExtension(f, type, body) ==
  [version           |-> f.version,
   cipherSuites      |-> f.cipherSuites,
   extensions        |-> Append(f.extensions, type),
   hasSNI            |-> f.hasSNI \/ (type = 0 /\ Len(body) >= 5),
   sigAlgs           |-> f.sigAlgs \o (IF type = 13 THEN SigAlgsOf(body) ELSE <<>>),
   alpnProtocols     |-> f.alpnProtocols \o (IF type = 16 THEN AlpnOf(body) ELSE <<>>),
   supportedVersions |-> f.supportedVersions \o (IF type = 43 THEN VersionsOf(body) ELSE <<>>)]

\* The loop over the extensions, likewise.
NextExtension(s) ==
  LET value == From(s.rest, 3)
  IN IF Len(s.rest) < 4 \/ ~Has16(value) THEN s
     ELSE [rest |-> After16(value),
           fields |-> WithExtension(s.fields, Word(s.rest, 1), Value16(value))]

WithExtensions(f, e) ==
  LET loop[n \in 0 .. Len(e) \div 4] ==
        IF n = 0 THEN [rest |-> e, fields |-> f] ELSE NextExtension(loop[n - 1])
  IN loop[Len(e) \div 4].fields

\* The fields of a message that parses.
Fields(data) ==
  LET d == Body(data)
      part == ExtensionPart(d)
      f == [version           |-> Word(d, 1),
            cipherSuites      |-> Words(Value16(CipherPart(d))),
            extensions        |-> <<>>,
            hasSNI            |-> FALSE,
            sigAlgs           |-> <<>>,
            alpnProtocols     |-> <<>>,
            supportedVersions |-> <<>>]
  IN IF Len(part) < 2 THEN f ELSE WithExtensions(f, Value16(part))

HasGREASE(f) ==
  \E v \in Range(f.cipherSuites) \cup Range(f.extensions) : IsGREASE(v)

------------------------------------------------------------------------------
(* computeJA4. *)

\* SSL 3.0 to TLS 1.3; of others the text is "00".
TlsVersionStr(v) == IF v \in 768 .. 772 THEN v ELSE 0

Zero == 48

\* The first two characters of the first protocol.
AlpnStr(protocols) ==
  IF protocols = <<>> THEN <<Zero, Zero>>
  ELSE SubSeq(protocols[1] \o <<Zero, Zero>>, 1, 2)

\* Faulty variant: the lists as they came.
InOrder(values) == values

\* The values that come before the i-th.
Before(values, i) ==
  {j \in 1 .. Len(values) : values[j] < values[i] \/ (values[j] = values[i] /\ j < i)}

Sorted(values) ==
  [n \in 1 .. Len(values) |->
     values[CHOOSE i \in 1 .. Len(values) : Cardinality(Before(values, i)) = n - 1]]

ComputeJA4(f) ==
  LET ciphers == NotGREASE(f.cipherSuites)
      exts == NotGREASE(f.extensions)
  IN [version |-> TlsVersionStr(Max({f.version} \cup Range(NotGREASE(f.supportedVersions)))),
      sni     |-> f.hasSNI,
      ciphers |-> Len(ciphers),
      exts    |-> Len(exts),
      alpn    |-> AlpnStr(f.alpnProtocols),
      b       |-> Sorted(ciphers),
      c       |-> <<Sorted(Without(exts, {0})), Sorted(f.sigAlgs)>>]
==============================================================================
