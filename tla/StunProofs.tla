------------------------------ MODULE StunProofs ------------------------------
(***************************************************************************)
(* Proofs about the STUN server and its ciphers, for any keyed functions,  *)
(* any clients and any number of datagrams.                                *)
(***************************************************************************)
EXTENDS StunServer, TLAPS

------------------------------------------------------------------------------
(* The ciphers. *)

LEMMA RoundInverts ==
  ASSUME NEW i \in 0..3, NEW b \in Halves \X Halves
  PROVE  /\ EncryptRound(i, b) \in Halves \X Halves
         /\ DecryptRound(i, EncryptRound(i, b)) = b
<1>1. PICK L \in Halves, R \in Halves : b = <<L, R>>
  OBVIOUS
<1>2. Round[i][R] \in Halves
  BY RoundAssumption
<1>3. PICK x \in Halves : x = Xor[L][Round[i][R]] /\ Xor[x][Round[i][R]] = L
  <2> DEFINE k == Round[i][R]
  <2>1. k \in Halves
    BY <1>2
  <2> HIDE DEF k
  <2>2. Xor[L][k] \in Halves /\ Xor[Xor[L][k]][k] = L
    BY <2>1, XorAssumption
  <2> QED
    BY <2>2 DEF k
<1>4. EncryptRound(i, b) = <<R, x>>
  BY <1>1, <1>3 DEF EncryptRound
<1>5. DecryptRound(i, <<R, x>>) = <<L, R>>
  BY <1>3 DEF DecryptRound
<1> QED
  BY <1>1, <1>3, <1>4, <1>5

\* feistel32.go:59, "Decrypt inverts Encrypt", whatever the round function
\* computes and however the keys were derived.
THEOREM FeistelRoundTrip == FeistelInverts
<1> SUFFICES ASSUME NEW L \in Halves, NEW R \in Halves
             PROVE  Decrypt(Encrypt(<<L, R>>)) = <<L, R>>
  BY DEF FeistelInverts
<1> DEFINE b0 == <<L, R>>
           b1 == EncryptRound(0, b0)
           b2 == EncryptRound(1, b1)
           b3 == EncryptRound(2, b2)
           b4 == EncryptRound(3, b3)
<1>0. b0 \in Halves \X Halves
  OBVIOUS
<1> HIDE DEF b0
<1>1. b1 \in Halves \X Halves /\ DecryptRound(0, b1) = b0
  BY <1>0, RoundInverts
<1> HIDE DEF b1
<1>2. b2 \in Halves \X Halves /\ DecryptRound(1, b2) = b1
  BY <1>1, RoundInverts
<1> HIDE DEF b2
<1>3. b3 \in Halves \X Halves /\ DecryptRound(2, b3) = b2
  BY <1>2, RoundInverts
<1> HIDE DEF b3
<1>4. DecryptRound(3, b4) = b3
  BY <1>3, RoundInverts
<1>5. Encrypt(b0) = b4
  BY DEF Encrypt, b0, b1, b2, b3
<1>6. Decrypt(b4) = b0
  BY <1>1, <1>2, <1>3, <1>4 DEF Decrypt
<1> QED
  BY <1>5, <1>6 DEF b0

LEMMA Remainder ==
  ASSUME NEW a \in Nat, NEW d \in Nat, d > 0
  PROVE  a % d \in Nat /\ a % d < d
  BY SMTT(60)

\* Stated for any bounds: numerals as large as a port slow the solvers down.
LEMMA Shifted ==
  ASSUME NEW tag \in Nat, NEW low \in Nat, NEW high \in Nat, low < high
  PROVE  /\ low + (tag % (high - low)) \in Nat
         /\ low <= low + (tag % (high - low))
         /\ low + (tag % (high - low)) < high
<1> DEFINE d == high - low
           r == tag % d
<1>1. d \in Nat /\ d > 0 /\ low + d = high
  BY SMTT(60)
<1> HIDE DEF d
<1>2. r \in Nat /\ r < d
  BY <1>1, Remainder
<1> HIDE DEF r
<1>3. low + r \in Nat /\ low <= low + r /\ low + r < high
  BY <1>1, <1>2, SMTT(60)
<1> QED
  BY <1>3 DEF r, d

\* porttag.go:49, "an unprivileged UDP port in [1024, 65535]", for every tag.
THEOREM PortIsUnprivileged ==
  ASSUME NEW tag \in 0 .. Ports - 1
  PROVE  /\ PortFromTag(tag) \in Nat
         /\ FirstPort <= PortFromTag(tag)
         /\ PortFromTag(tag) < Ports
<1>1. FirstPort \in Nat /\ Ports \in Nat /\ FirstPort < Ports
  BY SMTT(60) DEF FirstPort, Ports
<1>2. tag \in Nat
  BY <1>1, SMTT(60)
<1> QED
  BY <1>1, <1>2, Shifted, SMTT(60) DEF PortFromTag

\* What Encode puts into a payload, Decode finds there, with a right tag and
\* the time that has passed since.
LEMMA DecodeInvertsEncode ==
  ASSUME NEW ip \in Word, NEW seconds \in Word, NEW nonce \in Word, NEW now \in Nat
  PROVE  DecodePayload(EncodePayload(ip, seconds, nonce), now) =
           [ip |-> ip, epoch |-> seconds, nonce |-> nonce, ageSec |-> now - seconds,
            validMAC |-> TRUE]
<1> DEFINE tag == Hmac[<<ip, seconds, nonce>>]
           p == <<ip, seconds, nonce, tag>>
<1>1. seconds % WordMod = seconds
  BY WordModAssumption DEF Word
<1>2. tag \in Word
  BY HmacAssumption DEF Signed
<1>3. p \in Payload
  BY <1>2 DEF Payload
<1>4. EncodePayload(ip, seconds, nonce) = AesEncrypt[p]
  BY <1>1 DEF EncodePayload
<1>5. AesDecrypt[AesEncrypt[p]] = p
  BY <1>3, AesAssumption
<1>6. DecodePayload(AesEncrypt[p], now) =
        [ip |-> ip, epoch |-> seconds, nonce |-> nonce, ageSec |-> now - seconds,
         validMAC |-> TRUE]
  <2>1. p[1] = ip /\ p[2] = seconds /\ p[3] = nonce /\ p[4] = tag
    OBVIOUS
  <2> QED
    BY <1>5, <2>1, Zenon DEF DecodePayload
<1> QED
  BY <1>4, <1>6

LEMMA EncodedIsPayload ==
  ASSUME NEW ip \in Word, NEW seconds \in Word, NEW nonce \in Word
  PROVE  EncodePayload(ip, seconds, nonce) \in Payload
<1>1. seconds % WordMod = seconds
  BY WordModAssumption DEF Word
<1>2. <<ip, seconds, nonce, Hmac[<<ip, seconds, nonce>>]>> \in Payload
  BY HmacAssumption DEF Signed, Payload
<1> QED
  BY <1>1, <1>2, AesAssumption DEF EncodePayload
------------------------------------------------------------------------------
(* The type invariant, with the state of the read loop: the goroutine of a   *)
(* datagram does not exist before the datagram is in the buffer.             *)

Copying ==
  /\ \A g \in Ids : pc[g] # "none" => g <= received
  /\ unwritten # {} => received > 0 /\ pc[received] = "none"

StunInv == TypeOK /\ Copying

LEMMA StunInit == Init => StunInv
<1> SUFFICES ASSUME Init PROVE StunInv
  OBVIOUS
<1>1. buffer \in [header : Headers, tidHigh : 0 .. MaxDatagrams,
                  tidLow : 0 .. MaxDatagrams]
  <2>1. (CHOOSE s \in Sizes : TRUE) \in Sizes
    BY SizesAssumption
  <2> QED
    BY <2>1, StunBoundsAssumption DEF Init, Headers, MessageTypes
<1>2. requests \in Seq(Request) /\ Len(requests) = received
  BY DEF Init
<1>3. tid \in [Ids -> [Halves96 -> 0 .. MaxDatagrams]]
  BY StunBoundsAssumption DEF Init
<1>4. report \in [Ids -> Reports]
  BY DEF Init, Reports
<1> QED
  BY <1>1, <1>2, <1>3, <1>4, StunBoundsAssumption DEF Init, StunInv, TypeOK, Copying

LEMMA ReadStep ==
  ASSUME StunInv, NEW c \in Clients, NEW type \in MessageTypes, NEW size \in Sizes,
         ReadBegins(c, type, size)
  PROVE  /\ StunInv'
         /\ received' = received + 1 /\ received' \in Ids
         /\ requests'[received'].from = c /\ requests'[received'].size = size
         /\ requests'[received'].at = clock /\ requests'[received'].type = type
         /\ \A g \in 1 .. received : requests'[g] = requests[g]
<1> USE StunBoundsAssumption DEF StunInv, TypeOK
<1> DEFINE q == [from |-> c, type |-> type, size |-> size, at |-> clock]
<1>1. q \in Request
  BY DEF Request
<1>2. q.from = c /\ q.type = type /\ q.size = size /\ q.at = clock
  OBVIOUS
<1> HIDE DEF q
<1>3. requests' = Append(requests, q) /\ received' = received + 1
  BY DEF ReadBegins, q
<1>4. requests' \in Seq(Request) /\ Len(requests') = received'
  BY <1>1, <1>3
<1>5. received' \in Ids
  BY DEF ReadBegins, Ids
<1>6. unwritten' \in SUBSET Fields /\ overlapped' \in SUBSET Ids
  BY DEF ReadBegins, Fields
<1>7. Copying'
  BY <1>3, <1>5 DEF ReadBegins, Copying, Ids
<1>8. TypeOK'
  <2>1. received' \in 0 .. MaxDatagrams
    BY <1>5 DEF Ids
  <2>2. UNCHANGED <<clock, buffer, pc, tid, report, responses>>
    BY DEF ReadBegins
  <2>3. /\ clock' \in 0 .. MaxTime
        /\ buffer' \in [header : Headers, tidHigh : 0 .. MaxDatagrams,
                        tidLow : 0 .. MaxDatagrams]
        /\ pc' \in [Ids -> {"none", "header", "tid", "report", "send", "over"}]
        /\ tid' \in [Ids -> [Halves96 -> 0 .. MaxDatagrams]]
        /\ report' \in [Ids -> Reports] /\ responses' \in SUBSET Response
    BY <2>2, Zenon
  <2> QED
    BY <1>4, <1>6, <2>1, <2>3, Zenon
<1>9. requests'[received'] = q
  BY <1>1, <1>3
<1>10. \A g \in 1 .. received : requests'[g] = requests[g]
  BY <1>1, <1>3
<1> QED
  BY <1>2, <1>3, <1>5, <1>7, <1>8, <1>9, <1>10

LEMMA CopyStep ==
  ASSUME StunInv, NEW f \in Fields, CopyField(f)
  PROVE  StunInv'
<1> USE StunBoundsAssumption DEF StunInv, TypeOK
<1>1. received \in Ids
  BY DEF CopyField, Copying, Ids
<1>2. requests[received] \in Request
  BY <1>1 DEF Ids
<1>3. buffer' \in [header : Headers, tidHigh : 0 .. MaxDatagrams,
                   tidLow : 0 .. MaxDatagrams]
  <2>1. CASE f = "header"
    <3> DEFINE h == [type |-> requests[received].type, size |-> requests[received].size]
    <3>1. h \in Headers
      BY <1>2 DEF Request, Headers
    <3>2. buffer' = [buffer EXCEPT !.header = h]
      BY <2>1 DEF CopyField
    <3> HIDE DEF h
    <3> QED
      BY <3>1, <3>2
  <2>2. CASE f = "tidHigh"
    <3>1. buffer' = [buffer EXCEPT !.tidHigh = received]
      BY <2>2 DEF CopyField
    <3> QED
      BY <3>1
  <2>3. CASE f = "tidLow"
    <3>1. buffer' = [buffer EXCEPT !.tidLow = received]
      BY <2>3 DEF CopyField
    <3> QED
      BY <3>1
  <2> QED
    BY <2>1, <2>2, <2>3 DEF Fields
<1>4. Copying' /\ unwritten' \in SUBSET Fields
  BY DEF CopyField, Copying
<1> QED
  BY <1>3, <1>4 DEF CopyField

\* The datagram a goroutine was started for.
LEMMA OwnRequest ==
  ASSUME StunInv, NEW g \in Ids, pc[g] # "none"
  PROVE  g \in 1 .. received /\ requests[g] \in Request
<1>1. g \in 1 .. received
  BY DEF StunInv, TypeOK, Copying, Ids
<1>2. requests \in Seq(Request) /\ Len(requests) = received
  BY DEF StunInv, TypeOK
<1> QED
  BY <1>1, <1>2

LEMMA ReportType ==
  ASSUME StunInv, NEW g \in Ids, ReportedAddress(g)
  PROVE  /\ g <= received
         /\ report' \in [Ids -> Reports]
         /\ \/ report'[g] = Plain(requests[g].from)
            \/ /\ requests[g].from.ip \in Word
               /\ \E nonce \in Word :
                    report'[g] = Attested(EncodePayload(requests[g].from.ip, clock, nonce))
<1> USE StunBoundsAssumption DEF StunInv, TypeOK
<1> DEFINE src == requests[g].from
<1>1. g \in 1 .. received /\ requests[g] \in Request
  BY OwnRequest DEF ReportedAddress, Source
<1>2. src \in Clients
  BY <1>1 DEF Request
<1> HIDE DEF src
<1>4. ASSUME src.ip \in V4, NEW nonce \in Nonces,
             report' = [report EXCEPT ![g] = Attested(EncodePayload(src.ip, clock, nonce))]
      PROVE  /\ report' \in [Ids -> Reports]
             /\ src.ip \in Word /\ nonce \in Word
             /\ report'[g] = Attested(EncodePayload(src.ip, clock, nonce))
  <2>1. src.ip \in Word /\ nonce \in Word /\ clock \in Word
    BY <1>2, <1>4, ClientsAssumption, NoncesAssumption, EpochAssumption,
       WordModAssumption DEF Word
  <2>2. EncodePayload(src.ip, clock, nonce) \in Payload
    BY <2>1, EncodedIsPayload
  <2>3. Attested(EncodePayload(src.ip, clock, nonce)) \in Reports
    BY <2>2 DEF Reports
  <2> QED
    BY <1>4, <2>1, <2>3
<1> QED
  <2>1. g <= received
    BY <1>1
  <2>2. \/ report' = [report EXCEPT ![g] = Plain(src)]
        \/ \E nonce \in Nonces :
             src.ip \in V4
             /\ report' = [report EXCEPT ![g] = Attested(EncodePayload(src.ip, clock, nonce))]
    BY DEF ReportedAddress, Source, src
  <2>3. CASE report' = [report EXCEPT ![g] = Plain(src)]
    <3>1. report' \in [Ids -> Reports] /\ report'[g] = Plain(src)
      BY <1>2, <2>3 DEF Reports
    <3> QED
      BY <2>1, <3>1 DEF src
  <2> QED
    BY <1>4, <2>1, <2>2, <2>3 DEF src

LEMMA GoroutineStep ==
  ASSUME StunInv, NEW g \in Ids, Goroutine(g)
  PROVE  StunInv'
<1> USE StunBoundsAssumption DEF StunInv, TypeOK
<1>1. CASE DecodeHeader(g)
  BY <1>1 DEF DecodeHeader, Decodes, Copying
<1>2. ASSUME NEW h \in Halves96, DecodeTransactionId(g, h) PROVE StunInv'
  <2>1. buffer[h] \in 0 .. MaxDatagrams
    BY DEF Halves96
  <2>2. tid' \in [Ids -> [Halves96 -> 0 .. MaxDatagrams]]
    BY <1>2, <2>1 DEF DecodeTransactionId
  <2> QED
    BY <1>2, <2>2 DEF DecodeTransactionId, Copying
<1>3. CASE ReportedAddress(g)
  <2>1. report' \in [Ids -> Reports]
    BY <1>3, ReportType
  <2> QED
    BY <1>3, <2>1 DEF ReportedAddress, Source, Copying
<1>4. CASE SendResponse(g)
  <2> DEFINE r == [request |-> g, to |-> requests[g].from, address |-> report[g],
                   tidHigh |-> tid[g].tidHigh, tidLow |-> tid[g].tidLow, at |-> clock]
  <2>1. requests[g] \in Request
    BY <1>4, OwnRequest DEF SendResponse
  <2>2. r \in Response
    BY <2>1 DEF Response, Request, Halves96
  <2> HIDE DEF r
  <2>3. responses' \in SUBSET Response
    BY <1>4, <2>2 DEF SendResponse, r
  <2> QED
    BY <1>4, <2>3 DEF SendResponse, Copying
<1> QED
  BY <1>1, <1>2, <1>3, <1>4 DEF Goroutine

LEMMA StunStep == StunInv /\ [Next]_vars => StunInv'
<1> SUFFICES ASSUME StunInv, [Next]_vars PROVE StunInv'
  OBVIOUS
<1> USE StunBoundsAssumption
<1>1. CASE Dispatch
  BY <1>1 DEF Dispatch, Copied, StunInv, TypeOK, Copying, Ids
<1>2. CASE Tick
  BY <1>2 DEF Tick, StunInv, TypeOK, Copying
<1>3. CASE Idle \/ UNCHANGED vars
  BY <1>3 DEF Idle, vars, StunInv, TypeOK, Copying
<1> QED
  BY <1>1, <1>2, <1>3, ReadStep, CopyStep, GoroutineStep DEF Next

\* The types of the server's state, for any number of datagrams.
THEOREM StunTypeCorrect == Spec => []TypeOK
<1>1. StunInv => TypeOK
  BY DEF StunInv
<1> QED
  BY <1>1, StunInit, StunStep, PTL DEF Spec

------------------------------------------------------------------------------
(* What responses attest. *)

\* What reportedAddress can return for a client between two times.
Reported(c, address, from, until) ==
  \/ address = Plain(c)
  \/ /\ c.ip \in Word
     /\ \E t \in from .. until, nonce \in Word :
          t \in Word /\ address = Attested(EncodePayload(c.ip, t, nonce))

AttestInv ==
  /\ \A g \in 1 .. received : requests[g].at \in 0 .. clock
  /\ \A g \in 1 .. received :
       pc[g] = "send" => Reported(requests[g].from, report[g], requests[g].at, clock)
  /\ \A r \in responses :
       /\ r.request \in 1 .. received
       /\ r.at \in 0 .. clock
       /\ Reported(r.to, r.address, requests[r.request].at, r.at)

LEMMA ReportedLater ==
  ASSUME NEW c, NEW address, NEW from \in Nat, NEW until \in Nat, NEW later \in Nat,
         until <= later, Reported(c, address, from, until)
  PROVE  Reported(c, address, from, later)
<1>1. \A t \in from .. until : t \in from .. later
  OBVIOUS
<1> QED
  BY <1>1 DEF Reported

LEMMA AttestStep == StunInv /\ AttestInv /\ [Next]_vars => AttestInv'
<1> SUFFICES ASSUME StunInv, AttestInv, [Next]_vars PROVE AttestInv'
  OBVIOUS
<1>0. /\ clock \in Nat /\ received \in 0 .. MaxDatagrams
      /\ pc \in [Ids -> {"none", "header", "tid", "report", "send", "over"}]
      /\ \A g \in 1 .. received : g \in Ids
  BY StunBoundsAssumption DEF StunInv, TypeOK, Ids
<1>1. ASSUME NEW c \in Clients, NEW type \in MessageTypes, NEW size \in Sizes,
             ReadBegins(c, type, size)
      PROVE  AttestInv'
  <2>1. /\ received' = received + 1 /\ requests'[received'].at = clock
        /\ \A g \in 1 .. received : requests'[g] = requests[g]
    BY <1>1, ReadStep
  <2>2. UNCHANGED <<clock, pc, report, responses>>
    BY <1>1 DEF ReadBegins
  <2>3. \A g \in 1 .. received' : g \in 1 .. received \/ g = received'
    BY <1>0, <2>1
  <2>4. pc[received + 1] # "send"
    BY <1>0, <1>1, <2>1, ReadStep DEF StunInv, Copying
  <2>5. \A g \in 1 .. received' : requests'[g].at \in 0 .. clock'
    BY <1>0, <2>1, <2>2, <2>3 DEF AttestInv
  <2>6. \A r \in responses : requests'[r.request] = requests[r.request]
                             /\ r.request \in 1 .. received'
    BY <1>0, <2>1 DEF AttestInv
  <2> QED
    BY <2>1, <2>2, <2>3, <2>4, <2>5, <2>6 DEF AttestInv
<1>2. ASSUME NEW f \in Fields, CopyField(f) PROVE AttestInv'
  BY <1>2 DEF CopyField, AttestInv
<1>3. CASE Dispatch
  <2>1. UNCHANGED <<clock, received, requests, report, responses>>
        /\ \A g \in Ids : pc'[g] = "send" => pc[g] = "send"
    BY <1>0, <1>3 DEF Dispatch, Copied
  <2> QED
    BY <1>0, <2>1 DEF AttestInv
<1>4. ASSUME NEW g \in Ids, Goroutine(g) PROVE AttestInv'
  <2>1. CASE DecodeHeader(g) \/ \E h \in Halves96 : DecodeTransactionId(g, h)
    <3>1. UNCHANGED <<clock, received, requests, report, responses>>
          /\ \A k \in Ids : pc'[k] = "send" => pc[k] = "send"
      BY <1>0, <2>1 DEF DecodeHeader, Decodes, DecodeTransactionId
    <3> QED
      BY <1>0, <3>1 DEF AttestInv
  <2>2. CASE ReportedAddress(g)
    <3>1. Reported(requests[g].from, report'[g], requests[g].at, clock)
      <4>1. g \in 1 .. received
        BY <2>2, OwnRequest DEF ReportedAddress, Source
      <4>2. clock \in requests[g].at .. clock /\ clock \in Word
        BY <1>0, <4>1, EpochAssumption, WordModAssumption, StunBoundsAssumption
           DEF AttestInv, Word, StunInv, TypeOK
      <4> QED
        BY <2>2, <4>2, ReportType DEF Reported
    <3>2. UNCHANGED <<clock, received, requests, responses>>
      BY <2>2 DEF ReportedAddress, Source
    <3>3. \A k \in Ids \ {g} : pc'[k] = pc[k] /\ report'[k] = report[k]
      <4>1. report \in [Ids -> Reports]
        BY DEF StunInv, TypeOK
      <4> QED
        BY <1>0, <2>2, <4>1 DEF ReportedAddress, Source
    <3> QED
      BY <1>0, <3>1, <3>2, <3>3 DEF AttestInv
  <2>3. CASE SendResponse(g)
    <3> DEFINE r == [request |-> g, to |-> requests[g].from, address |-> report[g],
                     tidHigh |-> tid[g].tidHigh, tidLow |-> tid[g].tidLow, at |-> clock]
    <3>1. g \in 1 .. received
      BY <2>3, OwnRequest DEF SendResponse
    <3>2. /\ r.request = g /\ r.at = clock
          /\ Reported(r.to, r.address, requests[g].at, clock)
      BY <2>3, <3>1 DEF SendResponse, AttestInv
    <3>3. responses' = responses \cup {r} \/ responses' = responses
      BY <2>3 DEF SendResponse
    <3> HIDE DEF r
    <3>4. UNCHANGED <<clock, received, requests, report>>
          /\ \A k \in Ids : pc'[k] = "send" => pc[k] = "send"
      BY <1>0, <2>3 DEF SendResponse
    <3>5. \A x \in responses' :
            /\ x.request \in 1 .. received /\ x.at \in 0 .. clock
            /\ Reported(x.to, x.address, requests[x.request].at, x.at)
      BY <1>0, <3>1, <3>2, <3>3 DEF AttestInv
    <3> QED
      BY <1>0, <3>4, <3>5 DEF AttestInv
  <2> QED
    BY <1>4, <2>1, <2>2, <2>3 DEF Goroutine
<1>5. CASE Tick
  <2>1. clock' = clock + 1 /\ UNCHANGED <<received, requests, pc, report, responses>>
    BY <1>5 DEF Tick
  <2>2. \A g \in 1 .. received :
          pc[g] = "send" => Reported(requests[g].from, report[g], requests[g].at, clock')
    BY <1>0, <2>1, ReportedLater DEF AttestInv
  <2>3. \A n \in 0 .. clock : n \in 0 .. clock'
    BY <1>0, <2>1
  <2> QED
    BY <2>1, <2>2, <2>3 DEF AttestInv
<1>6. CASE Idle \/ UNCHANGED vars
  BY <1>6 DEF Idle, vars, AttestInv
<1> QED
  BY <1>1, <1>2, <1>3, <1>4, <1>5, <1>6 DEF Next

LEMMA AttestInit == Init => AttestInv
  BY DEF Init, AttestInv

LEMMA ReportedDecodes ==
  ASSUME NEW c \in Clients, NEW address, NEW from \in Nat, NEW until \in Nat,
         Reported(c, address, from, until)
  PROVE  IF address.form = "v6"
           THEN LET d == DecodePayload(address.blob, until)
                IN /\ d.ip = c.ip /\ d.validMAC
                   /\ from <= d.epoch /\ d.ageSec \in 0 .. until
           ELSE address = Plain(c)
<1>1. CASE address = Plain(c)
  BY <1>1 DEF Plain
<1>2. ASSUME c.ip \in Word, NEW t \in from .. until, NEW nonce \in Word, t \in Word,
             address = Attested(EncodePayload(c.ip, t, nonce))
      PROVE  /\ address.form = "v6"
             /\ LET d == DecodePayload(address.blob, until)
                IN /\ d.ip = c.ip /\ d.validMAC
                   /\ from <= d.epoch /\ d.ageSec \in 0 .. until
  <2>1. address.form = "v6" /\ address.blob = EncodePayload(c.ip, t, nonce)
    BY <1>2 DEF Attested
  <2> DEFINE d == DecodePayload(address.blob, until)
  <2>2. d.ip = c.ip /\ d.epoch = t /\ d.ageSec = until - t /\ d.validMAC
    <3>1. DecodePayload(EncodePayload(c.ip, t, nonce), until) =
            [ip |-> c.ip, epoch |-> t, nonce |-> nonce, ageSec |-> until - t,
             validMAC |-> TRUE]
      BY <1>2, DecodeInvertsEncode
    <3>2. d = DecodePayload(EncodePayload(c.ip, t, nonce), until)
      BY <2>1
    <3> HIDE DEF d
    <3> QED
      BY <3>1, <3>2
  <2> HIDE DEF d
  <2>3. from <= d.epoch /\ d.ageSec \in 0 .. until
    BY <2>2
  <2> QED
    BY <2>1, <2>2, <2>3 DEF d
<1> QED
  BY <1>1, <1>2 DEF Reported

LEMMA AttestInvariant == Spec => [](StunInv /\ AttestInv)
  BY StunInit, StunStep, AttestInit, AttestStep, PTL DEF Spec

LEMMA ResponsesDecode ==
  ASSUME StunInv, AttestInv, NEW r \in responses
  PROVE  IF r.address.form = "v6"
           THEN LET d == DecodePayload(r.address.blob, r.at)
                IN /\ d.ip = r.to.ip /\ d.validMAC
                   /\ requests[r.request].at <= d.epoch /\ d.ageSec \in 0 .. r.at
           ELSE r.address = Plain(r.to)
<1>1. /\ r.to \in Clients /\ r.at \in Nat
      /\ requests[r.request].at \in Nat
      /\ Reported(r.to, r.address, requests[r.request].at, r.at)
  BY DEF StunInv, TypeOK, AttestInv, Response
<1> QED
  BY <1>1, ReportedDecodes

\* Every response attests its destination's own address, although all
\* goroutines share one buffer.
THEOREM AttestsDestinationHolds == Spec => []AttestsDestination
<1>1. StunInv /\ AttestInv => AttestsDestination
  BY ResponsesDecode DEF AttestsDestination
<1> QED
  BY <1>1, AttestInvariant, PTL

\* The epoch of an attestation lies between the arrival of its request and the
\* sending of its response.
THEOREM AttestedWhileHandledHolds == Spec => []AttestedWhileHandled
<1>1. StunInv /\ AttestInv => AttestedWhileHandled
  BY ResponsesDecode DEF AttestedWhileHandled
<1> QED
  BY <1>1, AttestInvariant, PTL

------------------------------------------------------------------------------
(* Transaction identifiers. *)

TidInv ==
  /\ \A g \in 1 .. received, h \in Halves96 :
       (requests[g].size >= HeaderSize /\ (g = received => h \notin unwritten))
         => buffer[h] >= g
  /\ \A g \in 1 .. received :
       pc[g] \in {"tid", "report", "send"} => requests[g].size >= HeaderSize
  /\ \A g \in Ids, h \in Halves96 :
       (tid[g][h] # 0 \/ pc[g] \in {"report", "send"}) => tid[g][h] >= g
  /\ TransactionIdsNotOlder

LEMMA TidInit == Init => TidInv
  BY DEF Init, TidInv, TransactionIdsNotOlder, Ids, Halves96

LEMMA TidStep == StunInv /\ TidInv /\ [Next]_vars => TidInv'
<1> SUFFICES ASSUME StunInv, TidInv, [Next]_vars PROVE TidInv'
  OBVIOUS
<1>0. /\ received \in 0 .. MaxDatagrams
      /\ pc \in [Ids -> {"none", "header", "tid", "report", "send", "over"}]
      /\ tid \in [Ids -> [Halves96 -> 0 .. MaxDatagrams]]
      /\ \A g \in 1 .. received : g \in Ids
      /\ MaxDatagrams \in Nat
      /\ \A h \in Halves96 : buffer[h] \in 0 .. MaxDatagrams
  BY StunBoundsAssumption DEF StunInv, TypeOK, Ids, Halves96
<1>1. ASSUME NEW c \in Clients, NEW type \in MessageTypes, NEW size \in Sizes,
             ReadBegins(c, type, size)
      PROVE  TidInv'
  <2>1. /\ received' = received + 1 /\ received' \in Ids
        /\ requests'[received'].size = size
        /\ \A g \in 1 .. received : requests'[g] = requests[g]
    BY <1>1, ReadStep
  <2>2. UNCHANGED <<buffer, pc, tid, responses>>
    BY <1>1 DEF ReadBegins
  <2>3. unwritten = {} /\ pc[received'] = "none"
    BY <1>0, <1>1, <2>1 DEF ReadBegins, StunInv, Copying
  <2>4. size >= HeaderSize => unwritten' = Fields
    BY <1>1, SizesAssumption DEF ReadBegins
  <2>5. \A g \in 1 .. received' : g \in 1 .. received \/ g = received'
    BY <1>0, <2>1
  <2>6. \A g \in 1 .. received', h \in Halves96 :
          (requests'[g].size >= HeaderSize /\ (g = received' => h \notin unwritten'))
            => buffer'[h] >= g
    BY <2>1, <2>2, <2>3, <2>4, <2>5 DEF TidInv, Halves96, Fields
  <2>7. \A g \in 1 .. received' :
          pc'[g] \in {"tid", "report", "send"} => requests'[g].size >= HeaderSize
    BY <2>1, <2>2, <2>3, <2>5 DEF TidInv
  <2> QED
    BY <2>2, <2>6, <2>7 DEF TidInv, TransactionIdsNotOlder
<1>2. ASSUME NEW f \in Fields, CopyField(f) PROVE TidInv'
  <2>1. /\ UNCHANGED <<received, requests, pc, tid, responses>>
        /\ unwritten' = unwritten \ {f} /\ f \in unwritten
    BY <1>2 DEF CopyField
  <2>2. buffer \in [header : Headers, tidHigh : 0 .. MaxDatagrams,
                    tidLow : 0 .. MaxDatagrams]
    BY DEF StunInv, TypeOK
  <2>3. \A h \in Halves96 :
          buffer'[h] = received \/ (h # f /\ buffer'[h] = buffer[h])
    BY <1>2, <2>2 DEF CopyField, Halves96, Fields
  <2>4. \A g \in 1 .. received, h \in Halves96 :
          (requests[g].size >= HeaderSize /\ (g = received => h \notin unwritten'))
            => buffer'[h] >= g
    BY <1>0, <2>1, <2>3 DEF TidInv
  <2> QED
    BY <2>1, <2>4 DEF TidInv, TransactionIdsNotOlder
<1>3. CASE Dispatch
  <2>1. /\ UNCHANGED <<received, requests, unwritten, buffer, tid, responses>>
        /\ \A g \in Ids : pc'[g] = pc[g] \/ pc'[g] = "header"
    BY <1>0, <1>3 DEF Dispatch, Copied
  <2> QED
    BY <1>0, <2>1 DEF TidInv, TransactionIdsNotOlder
<1>4. ASSUME NEW g \in Ids, Goroutine(g) PROVE TidInv'
  <2>0. g \in 1 .. received
    BY <1>4, OwnRequest
       DEF Goroutine, DecodeHeader, Decodes, DecodeTransactionId, ReportedAddress, Source, SendResponse
  <2>1. CASE DecodeHeader(g)
    <3>1. /\ UNCHANGED <<received, requests, unwritten, buffer, tid, responses>>
          /\ \A k \in Ids \ {g} : pc'[k] = pc[k]
          /\ pc'[g] \in {"tid", "over"}
          /\ pc'[g] = "tid" => requests[g].size >= HeaderSize
      BY <1>0, <2>1 DEF DecodeHeader, Decodes
    <3> QED
      BY <1>0, <3>1 DEF TidInv, TransactionIdsNotOlder
  <2>2. ASSUME NEW h \in Halves96, DecodeTransactionId(g, h) PROVE TidInv'
    <3>1. /\ UNCHANGED <<received, requests, unwritten, buffer, responses>>
          /\ pc[g] = "tid" /\ pc'[g] \in {"tid", "report"}
          /\ \A k \in Ids \ {g} : pc'[k] = pc[k] /\ tid'[k] = tid[k]
          /\ tid'[g][h] = buffer[h]
          /\ \A i \in Halves96 \ {h} : tid'[g][i] = tid[g][i]
          /\ pc'[g] = "report" => \A i \in Halves96 \ {h} : tid[g][i] # 0
      BY <1>0, <2>2 DEF DecodeTransactionId
    <3>2. buffer[h] >= g
      <4>1. g = received => unwritten = {}
        BY <3>1 DEF StunInv, Copying
      <4> QED
        BY <2>0, <3>1, <4>1 DEF TidInv
    <3>3. \A k \in Ids, i \in Halves96 :
            (tid'[k][i] # 0 \/ pc'[k] \in {"report", "send"}) => tid'[k][i] >= k
      BY <3>1, <3>2 DEF TidInv
    <3>4. \A k \in 1 .. received :
            pc'[k] \in {"tid", "report", "send"} => requests[k].size >= HeaderSize
      BY <1>0, <3>1 DEF TidInv
    <3> QED
      BY <3>1, <3>3, <3>4 DEF TidInv, TransactionIdsNotOlder
  <2>3. CASE ReportedAddress(g)
    <3>1. /\ UNCHANGED <<received, requests, unwritten, buffer, tid, responses>>
          /\ \A k \in Ids \ {g} : pc'[k] = pc[k]
          /\ pc[g] = "report" /\ pc'[g] = "send"
      BY <1>0, <2>3 DEF ReportedAddress, Source
    <3> QED
      BY <1>0, <3>1 DEF TidInv, TransactionIdsNotOlder
  <2>4. CASE SendResponse(g)
    <3> DEFINE r == [request |-> g, to |-> requests[g].from, address |-> report[g],
                     tidHigh |-> tid[g].tidHigh, tidLow |-> tid[g].tidLow, at |-> clock]
    <3>1. /\ UNCHANGED <<received, requests, unwritten, buffer, tid>>
          /\ \A k \in Ids \ {g} : pc'[k] = pc[k]
          /\ pc[g] = "send" /\ pc'[g] = "over"
      BY <1>0, <2>4 DEF SendResponse
    <3>2. r.tidHigh >= r.request /\ r.tidLow >= r.request
      BY <1>0, <3>1 DEF TidInv, Halves96
    <3>3. responses' = responses \cup {r} \/ responses' = responses
      BY <2>4 DEF SendResponse
    <3> HIDE DEF r
    <3>4. TransactionIdsNotOlder'
      BY <3>2, <3>3 DEF TidInv, TransactionIdsNotOlder
    <3> QED
      BY <1>0, <3>1, <3>4 DEF TidInv
  <2> QED
    BY <1>4, <2>1, <2>2, <2>3, <2>4 DEF Goroutine
<1>5. CASE Tick \/ Idle \/ UNCHANGED vars
  BY <1>5 DEF Tick, Idle, vars, TidInv, TransactionIdsNotOlder
<1> QED
  BY <1>1, <1>2, <1>3, <1>4, <1>5 DEF Next

\* A response never carries a part of the transaction identifier of a datagram
\* before its own.
THEOREM TransactionIdsNotOlderHolds == Spec => []TransactionIdsNotOlder
<1>1. TidInv => TransactionIdsNotOlder
  BY DEF TidInv
<1> QED
  BY <1>1, StunInit, StunStep, TidInit, TidStep, PTL DEF Spec

------------------------------------------------------------------------------
(* Undisturbed goroutines: what a goroutine that decodes before the next read *)
(* finds in the buffer is its own datagram.                                  *)

IsAnswered(g) == requests[g].type = "BindingRequest" /\ requests[g].size >= HeaderSize

\* What has been copied of the latest datagram is in the buffer.
BufferIsLatest ==
  received > 0 =>
    /\ "header" \notin unwritten =>
         buffer.header = [type |-> requests[received].type,
                          size |-> requests[received].size]
    /\ \A h \in Halves96 :
         (requests[received].size >= HeaderSize /\ h \notin unwritten)
           => buffer[h] = received

\* Of one goroutine: it decodes the latest datagram or was overlapped, and the
\* halves it has are its own.
Undisturbed(g) ==
  /\ pc[g] \in {"none", "header"} => \A h \in Halves96 : tid[g][h] = 0
  /\ g \notin overlapped =>
       /\ Decoding(g) => g = received
       /\ pc[g] = "tid" =>
            IsAnswered(g) /\ \A h \in Halves96 : tid[g][h] \in {0, g}
       /\ pc[g] \in {"report", "send", "over"} =>
            \A h \in Halves96 : tid[g][h] = IF IsAnswered(g) THEN g ELSE 0

UndisturbedInv == BufferIsLatest /\ \A g \in Ids : Undisturbed(g)

LEMMA UndisturbedInit == Init => UndisturbedInv
  BY DEF Init, UndisturbedInv, BufferIsLatest, Undisturbed, Decoding

\* A step that leaves a goroutine and its datagram alone.
LEMMA UndisturbedElsewhere ==
  ASSUME NEW g, Undisturbed(g), pc'[g] = pc[g], tid'[g] = tid[g],
         overlapped' = overlapped, received' = received, requests' = requests
  PROVE  Undisturbed(g)'
  BY DEF Undisturbed, IsAnswered, Decoding

LEMMA UndisturbedStep == StunInv /\ UndisturbedInv /\ [Next]_vars => UndisturbedInv'
<1> SUFFICES ASSUME StunInv, UndisturbedInv, [Next]_vars PROVE UndisturbedInv'
  OBVIOUS
<1>0. /\ received \in 0 .. MaxDatagrams
      /\ pc \in [Ids -> {"none", "header", "tid", "report", "send", "over"}]
      /\ tid \in [Ids -> [Halves96 -> 0 .. MaxDatagrams]]
      /\ MaxDatagrams \in Nat
      /\ received > 0 => requests[received] \in Request
      /\ \A n \in Sizes : n \in Nat
      /\ HeaderSize \in Nat
  BY StunBoundsAssumption, SizesAssumption DEF StunInv, TypeOK
<1>1. ASSUME NEW c \in Clients, NEW type \in MessageTypes, NEW size \in Sizes,
             ReadBegins(c, type, size)
      PROVE  UndisturbedInv'
  <2>1. /\ received' = received + 1 /\ received' \in Ids
        /\ requests'[received'].size = size
        /\ \A g \in 1 .. received : requests'[g] = requests[g]
    BY <1>1, ReadStep
  <2>2. UNCHANGED <<buffer, pc, tid>>
        /\ overlapped' = overlapped \cup {g \in Ids : Decoding(g)}
        /\ unwritten' = IF size < HeaderSize THEN {"header"} ELSE Fields
    BY <1>1 DEF ReadBegins
  <2>3. BufferIsLatest'
    BY <1>0, <2>1, <2>2 DEF BufferIsLatest, Fields, Halves96
  <2>4. ASSUME NEW g \in Ids PROVE Undisturbed(g)'
    <3>1. CASE g \in 1 .. received
      <4>1. g \notin overlapped' => g \notin overlapped /\ ~Decoding(g) /\ ~Decoding(g)'
        BY <2>2 DEF Decoding
      <4>2. IsAnswered(g)' <=> IsAnswered(g)
        BY <2>1, <3>1 DEF IsAnswered
      <4>3. pc[g] # "tid" \/ g \in overlapped'
        BY <4>1 DEF Decoding
      <4> QED
        BY <2>2, <4>1, <4>2, <4>3 DEF UndisturbedInv, Undisturbed
    <3>2. CASE g \notin 1 .. received
      <4>1. pc[g] = "none"
        BY <1>0, <3>2 DEF StunInv, Copying, Ids
      <4> QED
        BY <2>2, <4>1 DEF UndisturbedInv, Undisturbed, Decoding
    <3> QED
      BY <3>1, <3>2
  <2> QED
    BY <2>3, <2>4 DEF UndisturbedInv
<1>2. ASSUME NEW f \in Fields, CopyField(f) PROVE UndisturbedInv'
  <2>1. /\ UNCHANGED <<received, requests, pc, tid, overlapped>>
        /\ unwritten' = unwritten \ {f} /\ f \in unwritten
    BY <1>2 DEF CopyField
  <2>2. buffer \in [header : Headers, tidHigh : 0 .. MaxDatagrams,
                    tidLow : 0 .. MaxDatagrams]
    BY DEF StunInv, TypeOK
  <2>3. f = "header" \/ "header" \in unwritten' \/ buffer'.header = buffer.header
    BY <1>2, <2>2 DEF CopyField
  <2>4. f = "header" => buffer'.header = [type |-> requests[received].type,
                                          size |-> requests[received].size]
    BY <1>2, <2>2 DEF CopyField
  <2>5. \A h \in Halves96 :
          buffer'[h] = received \/ (h # f /\ buffer'[h] = buffer[h])
    BY <1>2, <2>2 DEF CopyField, Halves96, Fields
  <2>6. BufferIsLatest'
    BY <2>1, <2>3, <2>4, <2>5 DEF BufferIsLatest, UndisturbedInv
  <2> QED
    BY <2>1, <2>6, UndisturbedElsewhere DEF UndisturbedInv
<1>3. CASE Dispatch
  <2>1. /\ UNCHANGED <<received, requests, unwritten, buffer, tid, overlapped>>
        /\ pc[received] = "none" /\ pc'[received] = "header" /\ received \in Ids
        /\ \A g \in Ids \ {received} : pc'[g] = pc[g]
    BY <1>0, <1>3 DEF Dispatch, Copied, Ids
  <2>2. BufferIsLatest'
    BY <2>1 DEF BufferIsLatest, UndisturbedInv
  <2>3. Undisturbed(received)'
    BY <2>1 DEF UndisturbedInv, Undisturbed
  <2> QED
    BY <2>1, <2>2, <2>3, UndisturbedElsewhere DEF UndisturbedInv
<1>4. ASSUME NEW g \in Ids, Goroutine(g) PROVE UndisturbedInv'
  <2>1. UNCHANGED <<received, requests, unwritten, buffer, overlapped>>
    BY <1>4 DEF Goroutine, DecodeHeader, DecodeTransactionId, ReportedAddress, SendResponse
  <2>2. \A k \in Ids \ {g} : pc'[k] = pc[k] /\ tid'[k] = tid[k]
    BY <1>0, <1>4 DEF Goroutine, DecodeHeader, DecodeTransactionId, ReportedAddress, SendResponse
  <2>3. BufferIsLatest'
    BY <2>1 DEF BufferIsLatest, UndisturbedInv
  <2>4. ASSUME Decoding(g), g \notin overlapped
        PROVE  /\ g = received /\ unwritten = {} /\ requests[g] \in Request
               /\ buffer.header = [type |-> requests[g].type, size |-> requests[g].size]
               /\ requests[g].size >= HeaderSize => \A h \in Halves96 : buffer[h] = g
    <3>1. g = received /\ unwritten = {} /\ received > 0
      BY <2>4 DEF UndisturbedInv, Undisturbed, Decoding, StunInv, Copying, Ids
    <3> QED
      BY <1>0, <3>1 DEF UndisturbedInv, BufferIsLatest
  <2>5. CASE DecodeHeader(g)
    <3>1. pc[g] = "header" /\ tid' = tid
          /\ pc'[g] = IF Decodes(g) THEN "tid" ELSE "over"
      BY <1>0, <2>5 DEF DecodeHeader
    <3>2. \A h \in Halves96 : tid[g][h] = 0
      BY <3>1 DEF UndisturbedInv, Undisturbed
    <3>3. g \notin overlapped => g = received /\ (Decodes(g) <=> IsAnswered(g))
      BY <1>0, <2>4, <3>1 DEF Decoding, Decodes, IsAnswered, Request
    <3>4. IsAnswered(g)' <=> IsAnswered(g)
      BY <2>1 DEF IsAnswered
    <3>5. Undisturbed(g)'
      BY <2>1, <3>1, <3>2, <3>3, <3>4 DEF Undisturbed, Decoding
    <3> QED
      BY <2>1, <2>2, <2>3, <3>5, UndisturbedElsewhere DEF UndisturbedInv
  <2>6. ASSUME NEW h \in Halves96, DecodeTransactionId(g, h) PROVE UndisturbedInv'
    <3>1. /\ pc[g] = "tid" /\ pc'[g] \in {"tid", "report"}
          /\ tid'[g][h] = buffer[h]
          /\ \A i \in Halves96 \ {h} : tid'[g][i] = tid[g][i]
          /\ pc'[g] = "report" => \A i \in Halves96 \ {h} : tid[g][i] # 0
      BY <1>0, <2>6 DEF DecodeTransactionId
    <3>2. g \notin overlapped =>
            /\ g = received /\ IsAnswered(g) /\ buffer[h] = g
            /\ \A i \in Halves96 : tid[g][i] \in {0, g}
      BY <2>4, <3>1 DEF Decoding, UndisturbedInv, Undisturbed, IsAnswered
    <3>3. IsAnswered(g)' <=> IsAnswered(g)
      BY <2>1 DEF IsAnswered
    <3>4. Undisturbed(g)'
      BY <2>1, <3>1, <3>2, <3>3 DEF Undisturbed, Decoding
    <3> QED
      BY <2>1, <2>2, <2>3, <3>4, UndisturbedElsewhere DEF UndisturbedInv
  <2>7. CASE ReportedAddress(g) \/ SendResponse(g)
    <3>1. tid' = tid /\ pc[g] \in {"report", "send"} /\ pc'[g] \in {"send", "over"}
      BY <1>0, <2>7 DEF ReportedAddress, SendResponse
    <3>2. IsAnswered(g)' <=> IsAnswered(g)
      BY <2>1 DEF IsAnswered
    <3>3. Undisturbed(g)'
      BY <2>1, <3>1, <3>2 DEF UndisturbedInv, Undisturbed, Decoding
    <3> QED
      BY <2>1, <2>2, <2>3, <3>3, UndisturbedElsewhere DEF UndisturbedInv
  <2> QED
    BY <1>4, <2>5, <2>6, <2>7 DEF Goroutine
<1>5. CASE Tick \/ Idle \/ UNCHANGED vars
  <2>1. UNCHANGED <<received, requests, unwritten, buffer, pc, tid, overlapped>>
    BY <1>5 DEF Tick, Idle, vars
  <2>2. BufferIsLatest'
    BY <2>1 DEF BufferIsLatest, UndisturbedInv
  <2> QED
    BY <2>1, <2>2, UndisturbedElsewhere DEF UndisturbedInv
<1> QED
  BY <1>1, <1>2, <1>3, <1>4, <1>5 DEF Next

\* A datagram decoded before the next read is answered exactly if it is a
\* binding request, with its own transaction identifier in both halves.
THEOREM UndisturbedIsAnsweredHolds == Spec => []UndisturbedIsAnswered
<1>1. StunInv /\ UndisturbedInv => UndisturbedIsAnswered
  <2> SUFFICES ASSUME StunInv, UndisturbedInv, NEW g \in 1 .. received,
                      pc[g] \in {"report", "send", "over"}, g \notin overlapped
               PROVE  tid[g] = [h \in Halves96 |-> IF IsAnswered(g) THEN g ELSE 0]
    BY DEF UndisturbedIsAnswered, IsAnswered
  <2>1. g \in Ids /\ tid[g] \in [Halves96 -> 0 .. MaxDatagrams]
    BY StunBoundsAssumption DEF StunInv, TypeOK, Ids
  <2>2. \A h \in Halves96 : tid[g][h] = IF IsAnswered(g) THEN g ELSE 0
    BY <2>1 DEF UndisturbedInv, Undisturbed
  <2> QED
    BY <2>1, <2>2
<1> QED
  BY <1>1, StunInit, StunStep, UndisturbedInit, UndisturbedStep, PTL DEF Spec
===============================================================================
