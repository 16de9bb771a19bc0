----------------------------- MODULE ClientHello ------------------------------
(***************************************************************************)
(* What the parser has to understand (external): a client's offer, and the *)
(* ClientHello that it is sent in (RFC 8446, 4.1.2 and 4.2), in one record.*)
(***************************************************************************)
EXTENDS Ja4

Two(v) == <<v \div 256, v % 256>>

TwoEach(values) ==
  [i \in 1 .. 2 * Len(values) |->
     IF i % 2 = 1 THEN values[(i + 1) \div 2] \div 256 ELSE values[i \div 2] % 256]

\* A vector, of up to 255 and up to 65535 bytes.
Vector8(b) == <<Len(b)>> \o b
Vector16(b) == Two(Len(b)) \o b

\* One part after the other, put together from the last one on.
Chain(parts) ==
  LET last[n \in 0 .. Len(parts)] ==
        IF n = 0 THEN <<>> ELSE parts[Len(parts) - n + 1] \o last[n - 1]
  IN last[Len(parts)]

\* RFC 8701: 0x0A0A, 0x1A1A, ..., 0xFAFA.
GREASE == {2570 + 4112 * i : i \in 0 .. 15}

Protocols(o) == Chain([n \in 1 .. Len(o.protocols) |-> Vector8(o.protocols[n])])

\* server_name, signature_algorithms, protocols and supported_versions; of another
\* extension, any bytes.
ExtensionBody(o, i) ==
  LET type == o.extensions[i]
  IN CASE type = 0  -> Vector16(<<0>> \o Vector16(o.host))
       [] type = 13 -> Vector16(TwoEach(o.sigAlgs))
       [] type = 16 -> Vector16(Protocols(o))
       [] type = 43 -> Vector8(TwoEach(o.versions))
       [] OTHER     -> o.others[i]

Extension(o, i) == Two(o.extensions[i]) \o Vector16(ExtensionBody(o, i))

Extensions(o) == Chain([i \in 1 .. Len(o.extensions) |-> Extension(o, i)])

\* A client without extensions may leave out their list.
Extended(o) == IF o.extensions = <<>> THEN <<>> ELSE Vector16(Extensions(o))

HelloBody(o) ==
  Two(o.version) \o (o.random \o (Vector8(o.session) \o
    (Vector16(TwoEach(o.ciphers)) \o (Vector8(<<0>>) \o Extended(o)))))

Hello(o) == <<1, 0>> \o Vector16(HelloBody(o))

Record(type, payload) == <<type, 3, 1>> \o Vector16(payload)

\* No extension is offered twice; what is sent fits into a record.
IsOffer(o) ==
  /\ o.version \in 768 .. 772
  /\ o.random \in Seq(Byte) /\ Len(o.random) = 32
  /\ o.session \in Seq(Byte) /\ Len(o.session) <= 32
  /\ o.ciphers \in Seq(UInt16)
  /\ o.extensions \in Seq(UInt16)
  /\ \A i, k \in 1 .. Len(o.extensions) : o.extensions[i] = o.extensions[k] => i = k
  /\ o.others \in [1 .. Len(o.extensions) -> Seq(Byte)]
  /\ o.host \in Seq(Byte)
  /\ o.sigAlgs \in Seq(UInt16)
  /\ o.protocols \in Seq(Seq(Byte))
  /\ \A n \in 1 .. Len(o.protocols) : Len(o.protocols[n]) \in 1 .. 255
  /\ o.versions \in Seq((768 .. 772) \cup GREASE) /\ Len(o.versions) <= 127
  /\ Len(Hello(o)) <= 16384
===============================================================================
