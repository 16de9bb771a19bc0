----------------------------- MODULE Measurement -----------------------------
(***************************************************************************)
(* What is measured on one connection of the TCP/TLS probe                 *)
(* (src-go/tcp-probe/main.go): captureClientHello reads the first record   *)
(* before the TLS stack does, peekConn replays it, the JA4 comes from it,  *)
(* and analyzeRttFingerprint compares what the kernel and the clock said.  *)
(*                                                                         *)
(* The client's bytes arrive in parts, and the deadline of the capture may *)
(* pass at any time before a record is complete.  Round-trip times are in  *)
(* microseconds; the rounding of floating-point numbers is left out.       *)
(***************************************************************************)
EXTENDS ClientHello

CONSTANTS
  Streams,    \* what clients may send: [bytes, offer], the offer if the bytes
              \* are one whole ClientHello in one record, else None
  Cuts,       \* bound: where the bytes may be cut on their way
  ReadSizes,  \* bound: the sizes of the TLS stack's reads
  Times,      \* bound: when things happen, counted from Accept
  Rtts,       \* bound: what the kernel may say
  MaxRtt,     \* the impossible round-trip time (2,000,000)
  None        \* nothing

JA4 ==
  [version : {0} \cup 768 .. 772, sni : BOOLEAN, ciphers : Nat, exts : Nat,
   alpn : Seq(Byte), b : Seq(UInt16), c : Seq(Seq(UInt16))]

ASSUME MeasurementAssumption ==
  /\ \A s \in Streams : s.bytes \in Seq(Byte)
  /\ Cuts \subseteq Nat /\ ReadSizes \subseteq Nat \ {0}
  /\ Times \subseteq Nat /\ Rtts \subseteq Nat /\ MaxRtt \in Nat
  /\ None \notin JA4
ASSUME OffersAssumption ==
  \A s \in Streams : s.offer # None =>
    IsOffer(s.offer) /\ s.bytes = Record(22, Hello(s.offer))

VARIABLES
  stream,   \* what the client sends
  arrived,  \* how many bytes of it have arrived
  taken,    \* how many bytes were read from the connection
  pc,       \* where Accept, and then the first request, is
  deadline, \* history: the record came in time, nothing did, or it was cut
  buf,      \* peekConn: what is to be replayed; empty once drained
  pos,      \* peekConn: how much of it was
  read,     \* what the TLS stack has read
  ja4,      \* the JA4, or None
  signals,  \* hasGREASE and cipherCount
  rtt       \* the RttFingerprint, or None

peek == <<buf, pos>>
hello == <<ja4, signals>>
vars == <<stream, arrived, taken, pc, deadline, peek, read, hello, rtt>>

bytes == stream.bytes
Available == arrived - taken

NoSignals == [hasGREASE |-> FALSE, cipherCount |-> 0]

RttFingerprint ==
  [TcpRttUs : Nat, TcpRttRawUs : Nat, TlsHandshakeUs : Nat, HttpFirstByteUs : Nat,
   TotalConnectionUs : Nat, RttCorrected : BOOLEAN, RttOfRatios : Nat]

IsJA4(j) ==
  j \in JA4 /\ j.ciphers = Len(j.b) /\ Len(j.alpn) = 2 /\ Len(j.c) = 2

TypeOK ==
  /\ bytes \in Seq(Byte)
  /\ arrived \in 0 .. Len(bytes) /\ taken \in 0 .. arrived
  /\ pc \in {"header", "body", "handshake", "measured"}
  /\ deadline \in {"met", "idle", "cut"}
  /\ buf \in Seq(Byte) /\ pos \in Nat
  /\ read \in Seq(Byte)
  /\ ja4 = None \/ IsJA4(ja4)
  /\ signals.hasGREASE \in BOOLEAN /\ signals.cipherCount \in Nat
  /\ rtt \in {None} \cup RttFingerprint

Init ==
  /\ stream \in Streams
  /\ arrived = 0 /\ taken = 0
  /\ pc = "header" /\ deadline = "met"
  /\ buf = <<>> /\ pos = 0
  /\ read = <<>>
  /\ ja4 = None /\ signals = NoSignals
  /\ rtt = None

------------------------------------------------------------------------------
(* The client (external). *)

Arrive ==
  /\ arrived' \in {n \in Cuts \cup {Len(bytes)} : arrived < n /\ n <= Len(bytes)}
  /\ UNCHANGED <<stream, taken, pc, deadline, peek, read, hello, rtt>>

------------------------------------------------------------------------------
(* captureClientHello. *)

HeaderLength == 5
RecordLength == Word(bytes, 4)
MaxRecord == 16384

\* Faulty variant: replays the payload without its header.
ReplayPayload(n) == SubSeq(bytes, HeaderLength + 1, n)

\* The first n bytes, which were read, are kept for peekConn.
Replay(n) == SubSeq(bytes, 1, n)

ReadHeader ==
  /\ pc = "header" /\ Available >= HeaderLength
  /\ taken' = HeaderLength
  /\ IF bytes[1] # 22 \/ RecordLength > MaxRecord
       THEN pc' = "handshake" /\ buf' = Replay(HeaderLength)
       ELSE pc' = "body" /\ UNCHANGED buf
  /\ UNCHANGED <<stream, arrived, deadline, pos, read, hello, rtt>>

\* The deadline passes, or the client closes; what was read of the header is not
\* kept.
HeaderTimesOut ==
  /\ pc = "header" /\ Available < HeaderLength
  /\ taken' = arrived
  /\ deadline' = IF arrived > 0 THEN "cut" ELSE "idle"
  /\ pc' = "handshake"
  /\ UNCHANGED <<stream, arrived, peek, read, hello, rtt>>

\* What Accept notes of a ClientHello that parses.
Noted(payload) ==
  LET f == Fields(payload)
  IN /\ ja4' = ComputeJA4(f)
     /\ signals' = [hasGREASE   |-> HasGREASE(f),
                    cipherCount |-> Len(NotGREASE(f.cipherSuites))]

ReadBody ==
  /\ pc = "body" /\ Available >= RecordLength
  /\ taken' = HeaderLength + RecordLength
  /\ buf' = Replay(HeaderLength + RecordLength)
  /\ LET payload == SubSeq(bytes, HeaderLength + 1, HeaderLength + RecordLength)
     IN IF Parses(payload) THEN Noted(payload) ELSE UNCHANGED hello
  /\ pc' = "handshake"
  /\ UNCHANGED <<stream, arrived, deadline, pos, read, rtt>>

\* Likewise; the whole buffer is kept, with zeros for what is missing.
BodyTimesOut ==
  /\ pc = "body" /\ Available < RecordLength
  /\ taken' = arrived
  /\ deadline' = "cut"
  /\ buf' = Replay(arrived) \o [i \in 1 .. RecordLength - Available |-> 0]
  /\ pc' = "handshake"
  /\ UNCHANGED <<stream, arrived, pos, read, hello, rtt>>

------------------------------------------------------------------------------
(* The TLS stack reads through peekConn. *)

ReadBuffered(n) ==
  /\ pos < Len(buf)
  /\ LET end == AtMost(pos + n, Len(buf))
     IN /\ read' = read \o SubSeq(buf, pos + 1, end)
        /\ pos' = end
        /\ buf' = IF end = Len(buf) THEN <<>> ELSE buf
  /\ UNCHANGED taken

ReadThrough(n) ==
  /\ pos >= Len(buf) /\ Available > 0
  /\ taken' = AtMost(taken + n, arrived)
  /\ read' = read \o SubSeq(bytes, taken + 1, taken')
  /\ UNCHANGED peek

PeekRead(n) ==
  /\ pc = "handshake"
  /\ ReadBuffered(n) \/ ReadThrough(n)
  /\ UNCHANGED <<stream, arrived, pc, deadline, hello, rtt>>

------------------------------------------------------------------------------
(* analyzeRttFingerprint. *)

\* Faulty variant: subtracts the other way round.
Backwards(from, to) == from - to

Elapsed(from, to) == to - from

\* The TLS handshake takes less than 0.8 of the kernel's round-trip time.
Inflated(tls, tcp) == 5 * tls < 4 * tcp

\* Faulty variant: the ratios are computed from the raw time.
RawRtt(tls, tcp) == 105 * tcp

\* The round-trip time that ratios are computed from, times 105, since an
\* inflated one is replaced by that of the handshake divided by 1.05.
BestRtt(tls, tcp) == IF Inflated(tls, tcp) THEN 100 * tls ELSE 105 * tcp

\* Of m: when the connection was accepted, the handshake began and ended, and
\* the first request came; the kernel's time after Accept and after the handshake.
AnalyzeRttFingerprint(m) ==
  LET tcp == IF m.post # None THEN m.post ELSE m.pre
      tls == Elapsed(m.start, m.complete)
      rated == m.post # None /\ tcp > 0 /\ tls > 0
      inflated == rated /\ Inflated(tls, tcp)
      broken == rated /\ BestRtt(tls, tcp) > 105 * MaxRtt
  IN IF tcp = None THEN None
     ELSE [TcpRttUs          |-> IF inflated THEN (100 * tls) \div 105 ELSE tcp,
           TcpRttRawUs       |-> tcp,
           TlsHandshakeUs    |-> tls,
           HttpFirstByteUs   |-> Elapsed(m.complete, m.request),
           TotalConnectionUs |-> Elapsed(m.accept, m.request),
           RttCorrected      |-> inflated \/ broken,
           RttOfRatios       |-> IF rated /\ ~broken THEN BestRtt(tls, tcp) ELSE 0]

\* The handshake is completed by a client whose offer came through; the first
\* request follows.  What the clock and the kernel said is chosen here.
Measure ==
  /\ pc = "handshake" /\ read = bytes /\ stream.offer # None
  /\ \E start, complete, request \in Times, pre, post \in Rtts \cup {None} :
       /\ start <= complete /\ complete <= request
       /\ rtt' = AnalyzeRttFingerprint(
                   [accept |-> 0, start |-> start, complete |-> complete,
                    request |-> request, pre |-> pre, post |-> post])
  /\ pc' = "measured"
  /\ UNCHANGED <<stream, arrived, taken, deadline, peek, read, hello>>

------------------------------------------------------------------------------
(* The specification. *)

\* The client has sent everything, and everything was read.
Quiet ==
  /\ pc \in {"handshake", "measured"}
  /\ taken = Len(bytes) /\ pos >= Len(buf)
  /\ UNCHANGED vars

Next ==
  \/ Arrive \/ ReadHeader \/ HeaderTimesOut \/ ReadBody \/ BodyTimesOut
  \/ \E n \in ReadSizes : PeekRead(n)
  \/ Measure \/ Quiet

Spec == Init /\ [][Next]_vars

------------------------------------------------------------------------------
(* Properties. *)

\* What peekConn has replayed, has still to replay, and what is left on the
\* connection are the client's bytes, each once and in order, however they are
\* cut and read, unless the deadline cut a record.
Transparent ==
  pc = "handshake" /\ deadline # "cut"
    => read \o From(buf, pos + 1) \o From(bytes, taken + 1) = bytes

\* The same values but those left out, in ascending order.
SortedListOf(list, values, others) ==
  LET Count(l, v) == Cardinality({i \in 1 .. Len(l) : l[i] = v})
  IN /\ \A i \in 1 .. Len(list) - 1 : list[i] <= list[i + 1]
     /\ \A v \in Range(list) \cup Range(values) :
          Count(list, v) = IF v \in others THEN 0 ELSE Count(values, v)

Offered(o, type) == type \in Range(o.extensions)
NotOfGREASE(values) == Cardinality({i \in 1 .. Len(values) : values[i] \notin GREASE})

\* The JA4 of an offer: neither GREASE values nor the order of the lists matter.
Ja4Of(j, o) ==
  LET first == IF Offered(o, 16) /\ o.protocols # <<>> THEN o.protocols[1] ELSE <<>>
  IN /\ j.version = Max({o.version} \cup
                          IF Offered(o, 43) THEN Range(o.versions) \ GREASE ELSE {})
     /\ j.sni = Offered(o, 0)
     /\ j.ciphers = NotOfGREASE(o.ciphers) /\ j.exts = NotOfGREASE(o.extensions)
     /\ j.alpn = [n \in 1 .. 2 |-> IF n <= Len(first) THEN first[n] ELSE Zero]
     /\ SortedListOf(j.b, o.ciphers, GREASE)
     /\ SortedListOf(j.c[1], o.extensions, GREASE \cup {0})
     /\ SortedListOf(j.c[2], IF Offered(o, 13) THEN o.sigAlgs ELSE <<>>, {})

SignalsOf(s, o) ==
  /\ s.hasGREASE = ((Range(o.ciphers) \cup Range(o.extensions)) \cap GREASE # {})
  /\ s.cipherCount = NotOfGREASE(o.ciphers)

\* A ClientHello that comes in time gets the JA4 and the signals of what its client
\* offers, and one that does not gets none.
Ja4IsOfTheOffer ==
  pc \in {"handshake", "measured"} /\ stream.offer # None
    => IF deadline = "met"
         THEN ja4 # None /\ Ja4Of(ja4, stream.offer) /\ SignalsOf(signals, stream.offer)
         ELSE ja4 = None /\ signals = NoSignals

\* The ratios are of a round trip that fits into the handshake, which fits into
\* the connection; a correction never makes the kernel's time longer.
RatiosArePlausible ==
  rtt # None =>
    /\ rtt.TcpRttUs <= rtt.TcpRttRawUs
    /\ rtt.RttOfRatios # 0 =>
         /\ 100 * rtt.TlsHandshakeUs * 105 >= 80 * rtt.RttOfRatios
         /\ rtt.TotalConnectionUs >= rtt.TlsHandshakeUs
         /\ rtt.RttOfRatios <= 105 * MaxRtt
==============================================================================
