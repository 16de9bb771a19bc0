---------------------------- MODULE TcpProbeProofs ----------------------------
(***************************************************************************)
(* Proofs about TcpProbe: the type invariant; that a token leads to a      *)
(* fingerprint, and to one of the connection that asked for it; and that   *)
(* the response time read without the lock gives a time since a response.  *)
(***************************************************************************)
EXTENDS TcpProbe, TLAPS

\* The listener holds the connection it is busy with.
Serving ==
  listener \in {"hello", "handshake"} =>
    accepting \in Conns /\ tcp[accepting] = "accepting"

\* Requests run only where the handshake was completed.
Begun == \A r \in Requests : pc[r] # "none" => tcp[ConnOf[r]] \in {"open", "closed"}

\* Responses are recorded only in entries that were found.
Recording ==
  \A r \in Requests : pc[r] \in {"recordWall", "recordExt"} => timing[r] \in Conns

TcpInv == TypeOK /\ Serving /\ Begun /\ Recording

LEMMA TcpInit == Init => TcpInv
<1> SUFFICES ASSUME Init PROVE TcpInv
  OBVIOUS
<1>1. clock \in 1 .. MaxTime + 1 /\ 0 \in 0 .. MaxTime + 1
  BY TcpBoundsAssumption DEF Init
<1> QED
  BY <1>1 DEF Init, TcpInv, TypeOK, Serving, Begun, Recording

\* The steps of clients, of the kernel and of the clock.
LEMMA OutsideStep ==
  ASSUME TcpInv,
         \/ Tick
         \/ \E c \in Conns : Connect(c) \/ Disconnect(c)
  PROVE  TcpInv'
<1>1. CASE Tick
  BY <1>1, TcpBoundsAssumption DEF Tick, TcpInv, TypeOK, accept, response, handler,
     outcome, Serving, Begun, Recording
<1>2. ASSUME NEW c \in Conns, Connect(c) PROVE TcpInv'
  BY <1>2, RequestsAssumption, NoConnAssumption DEF Connect, TcpInv, TypeOK, accept,
     response, handler, outcome, Serving, Begun, Recording
<1>3. ASSUME NEW c \in Conns, Disconnect(c) PROVE TcpInv'
  BY <1>3, RequestsAssumption, NoConnAssumption DEF Disconnect, Closes, TcpInv, TypeOK,
     accept, response, handler, outcome, Serving, Begun, Recording
<1> QED
  BY <1>1, <1>2, <1>3

\* The steps of the listener and of systemd.
LEMMA ListenerStep ==
  ASSUME TcpInv,
         \/ CaptureClientHello \/ Handshake \/ HandshakeFails \/ Restart
         \/ \E c \in Conns : AcceptTcp(c)
  PROVE  TcpInv'
<1>1. ASSUME NEW c \in Conns, AcceptTcp(c) PROVE TcpInv'
  BY <1>1, RequestsAssumption DEF AcceptTcp, TcpInv, TypeOK, response, handler, outcome,
     Serving, Begun, Recording
<1>2. CASE CaptureClientHello
  BY <1>2 DEF CaptureClientHello, TcpInv, TypeOK, response, handler, outcome,
     Serving, Begun, Recording
<1>3. CASE Handshake
  <2>1. accepting \in Conns /\ tcp[accepting] = "accepting"
    BY <1>3 DEF Handshake, TcpInv, Serving
  <2>2. AddressOf[accepting] \in Addresses
    BY <2>1 DEF Addresses
  <2> QED
    BY <1>3, <2>1, <2>2, RequestsAssumption DEF Handshake, StoreTiming, TcpInv, TypeOK,
       response, handler, outcome, Serving, Begun, Recording
<1>4. CASE HandshakeFails
  <2>1. accepting \in Conns /\ tcp[accepting] = "accepting"
    BY <1>4 DEF HandshakeFails, TcpInv, Serving
  <2>2. TypeOK'
    BY <1>4, <2>1 DEF HandshakeFails, TcpInv, TypeOK, response, outcome, Working
  <2>3. Serving' /\ Begun'
    BY <1>4, <2>1, RequestsAssumption DEF HandshakeFails, TcpInv, TypeOK, Serving, Begun
  <2>4. Recording'
    BY <1>4 DEF HandshakeFails, TcpInv, TypeOK, Recording
  <2> QED
    BY <2>2, <2>3, <2>4 DEF TcpInv
<1>5. CASE Restart
  BY <1>5 DEF Restart, TcpInv, TypeOK, response, handler, outcome, Serving, Begun,
     Recording
<1> QED
  BY <1>1, <1>2, <1>3, <1>4, <1>5

\* The steps that close connections and remove entries.
LEMMA RemovalStep ==
  ASSUME TcpInv,
         \/ Sweep
         \/ \E c \in Conns : CleanupTiming(c) \/ DelayedClose(c)
  PROVE  TcpInv'
<1>1. CASE Sweep
  BY <1>1 DEF Sweep, TcpInv, TypeOK, accept, response, handler, outcome, Serving,
     Begun, Recording
<1>2. ASSUME NEW c \in Conns, CleanupTiming(c) PROVE TcpInv'
  BY <1>2 DEF CleanupTiming, DeleteEntry, TcpInv, TypeOK, accept, response, handler,
     outcome, Serving, Begun, Recording
<1>3. ASSUME NEW c \in Conns, DelayedClose(c) PROVE TcpInv'
  BY <1>3, RequestsAssumption DEF DelayedClose, Closes, TcpInv, TypeOK, accept, response,
     handler, outcome, Serving, Begun, Recording
<1> QED
  BY <1>1, <1>2, <1>3

\* The steps of the handlers of requests.
LEMMA RequestStep ==
  ASSUME TcpInv, NEW r \in Requests, RequestArrives(r) \/ HandlerStep(r)
  PROVE  TcpInv'
<1> USE RequestsAssumption, NoConnAssumption, TcpBoundsAssumption
<1>1. CASE RequestArrives(r)
  BY <1>1 DEF RequestArrives, Others, TcpInv, TypeOK, Working, accept, response,
     Serving, Begun, Recording
<1>2. CASE GetAndRecordHttpTime(r)
  <2>1. AddressOf[ConnOf[r]] \in Addresses
    BY DEF Addresses
  <2> QED
    BY <1>2, <2>1 DEF GetAndRecordHttpTime, TcpInv, TypeOK, Working, accept, response,
       outcome, Serving, Begun, Recording
<1>3. CASE MeasureAppRtt(r)
  <2>1. appRtt'[r] \in Int
    BY <1>3 DEF MeasureAppRtt, Elapsed, TcpInv, TypeOK
  <2>2. TypeOK'
    BY <1>3, <2>1 DEF MeasureAppRtt, AfterResponse, TcpInv, TypeOK, Working, accept,
       response, outcome
  <2> QED
    BY <1>3, <2>2 DEF MeasureAppRtt, AfterResponse, TcpInv, TypeOK, accept, Serving,
       Begun, Recording
<1>4. CASE StoreFingerprint(r)
  BY <1>4 DEF StoreFingerprint, TcpInv, TypeOK, Working, accept, response, Serving,
     Begun, Recording
<1>5. CASE WriteToken(r)
  BY <1>5 DEF WriteToken, AfterResponse, TcpInv, TypeOK, Working, accept, response,
     Serving, Begun, Recording
<1>6. CASE RecordWall(r)
  BY <1>6 DEF RecordWall, TcpInv, TypeOK, Working, accept, outcome, Serving, Begun,
     Recording
<1>7. CASE RecordExt(r)
  BY <1>7 DEF RecordExt, TcpInv, TypeOK, Working, accept, outcome, Serving, Begun,
     Recording
<1> QED
  BY <1>1, <1>2, <1>3, <1>4, <1>5, <1>6, <1>7 DEF HandlerStep

LEMMA TcpStep == TcpInv /\ [Next]_vars => TcpInv'
<1> SUFFICES ASSUME TcpInv, [Next]_vars PROVE TcpInv'
  OBVIOUS
<1>1. CASE Quiet \/ UNCHANGED vars
  BY <1>1 DEF Quiet, vars, accept, response, handler, outcome, TcpInv, TypeOK, Serving,
     Begun, Recording
<1> QED
  BY <1>1, OutsideStep, ListenerStep, RemovalStep, RequestStep DEF Next

LEMMA TcpInvariant == Spec => []TcpInv
  BY TcpInit, TcpStep, PTL DEF Spec

\* The types of the probe's state, for any connections, addresses and requests.
THEOREM TcpTypeCorrect == Spec => []TypeOK
<1>1. TcpInv => TypeOK
  BY DEF TcpInv
<1> QED
  BY <1>1, TcpInvariant, PTL

------------------------------------------------------------------------------
(* What a token leads to. *)

\* A token is written only after its fingerprint was stored.
StoredFirst == \A r \in Requests : pc[r] = "write" => r \in stored

LEMMA StoredStep ==
  ASSUME TcpInv, StoredFirst, TokenResolves, [Next]_vars
  PROVE  StoredFirst' /\ TokenResolves'
<1>1. CASE \E r \in Requests : StoreFingerprint(r)
  BY <1>1 DEF StoreFingerprint, TcpInv, TypeOK, StoredFirst, TokenResolves
<1>2. CASE \E r \in Requests : WriteToken(r)
  BY <1>2 DEF WriteToken, AfterResponse, TcpInv, TypeOK, StoredFirst, TokenResolves
<1>3. CASE HandshakeFails
  BY <1>3 DEF HandshakeFails, outcome, TcpInv, TypeOK, StoredFirst, TokenResolves
<1>4. CASE \E r \in Requests : \/ RequestArrives(r) \/ GetAndRecordHttpTime(r)
                               \/ MeasureAppRtt(r) \/ RecordWall(r) \/ RecordExt(r)
  BY <1>4 DEF RequestArrives, GetAndRecordHttpTime, MeasureAppRtt, AfterResponse,
     RecordWall, RecordExt, outcome, TcpInv, TypeOK, StoredFirst, TokenResolves
<1>5. CASE UNCHANGED <<pc, stored, tokens>>
  BY <1>5 DEF StoredFirst, TokenResolves
<1> QED
  BY <1>1, <1>2, <1>3, <1>4, <1>5 DEF Next, HandlerStep, Connect, Disconnect, Closes,
     AcceptTcp, CleanupTiming, DelayedClose, CaptureClientHello, Handshake, Restart,
     Sweep, Tick, Quiet, vars, handler, outcome

\* A client that has a token finds its fingerprint, whatever fails.
THEOREM TokenResolvesHolds == Spec => []TokenResolves
<1>1. Init => StoredFirst /\ TokenResolves
  BY DEF Init, StoredFirst, TokenResolves
<1> QED
  BY <1>1, StoredStep, TcpInvariant, PTL DEF Spec

------------------------------------------------------------------------------
(* Whose measurements they are. *)

\* The kernel lets one connection at a time use an address.
OneAlive ==
  \A c, d \in Conns : AddressOf[c] = AddressOf[d] /\ Alive(c) /\ Alive(d) => c = d

\* The entry at the address of an open connection is its own.
EntryOfOpen == \A c \in Conns : tcp[c] = "open" => timingMap[AddressOf[c]] \in {c, None}

\* What a handler found is its connection's own, while that is open.
FoundOwn ==
  \A r \in Requests :
    pc[r] \in {"measure", "store", "write"} /\ tcp[ConnOf[r]] = "open"
      => timing[r] \in {ConnOf[r], None}

\* After its token a handler looks nothing up.
Answered == \A r \in tokens : pc[r] \in {"recordWall", "recordExt", "over"}

OwnInv == OneAlive /\ EntryOfOpen /\ FoundOwn /\ Answered /\ TokensAreOwn

LEMMA ConnectionsStep ==
  ASSUME TcpInv, OwnInv,
         \/ CaptureClientHello \/ Handshake \/ HandshakeFails \/ Restart
         \/ \E c \in Conns : \/ Connect(c) \/ Disconnect(c) \/ AcceptTcp(c)
                             \/ DelayedClose(c)
  PROVE  OwnInv'
<1>1. ASSUME NEW c \in Conns, Connect(c) PROVE OwnInv'
  <2>1. OneAlive'
    BY <1>1 DEF Connect, TcpInv, TypeOK, OwnInv, OneAlive, Alive
  <2>2. EntryOfOpen' /\ FoundOwn' /\ Answered' /\ TokensAreOwn'
    BY <1>1, RequestsAssumption DEF Connect, TcpInv, TypeOK, OwnInv, EntryOfOpen,
       FoundOwn, Answered, TokensAreOwn, handler, outcome
  <2> QED
    BY <2>1, <2>2 DEF OwnInv
<1>2. ASSUME NEW c \in Conns, Disconnect(c) \/ DelayedClose(c) PROVE OwnInv'
  BY <1>2, RequestsAssumption, SMTT(40) DEF Disconnect, DelayedClose, Closes, TcpInv, TypeOK,
     OwnInv, OneAlive, Alive, EntryOfOpen, FoundOwn, Answered, TokensAreOwn, handler,
     outcome
<1>3. ASSUME NEW c \in Conns, AcceptTcp(c) PROVE OwnInv'
  BY <1>3, RequestsAssumption DEF AcceptTcp, TcpInv, TypeOK, OwnInv, OneAlive, Alive,
     EntryOfOpen, FoundOwn, Answered, TokensAreOwn, handler, outcome
<1>4. CASE CaptureClientHello \/ Restart
  BY <1>4 DEF CaptureClientHello, Restart, OwnInv, OneAlive, Alive, EntryOfOpen,
     FoundOwn, Answered, TokensAreOwn, handler, outcome
<1>5. CASE Handshake
  <2>1. accepting \in Conns /\ tcp[accepting] = "accepting"
    BY <1>5 DEF Handshake, TcpInv, Serving
  <2>2. OneAlive'
    BY <1>5, <2>1 DEF Handshake, TcpInv, TypeOK, OwnInv, OneAlive, Alive
  <2>3. EntryOfOpen'
    <3> SUFFICES ASSUME NEW c \in Conns, tcp'[c] = "open"
                 PROVE  timingMap'[AddressOf[c]] \in {c, None}
      BY DEF EntryOfOpen
    <3>1. c # accepting => AddressOf[c] # AddressOf[accepting] /\ tcp[c] = "open"
      BY <1>5, <2>1 DEF Handshake, TcpInv, TypeOK, OwnInv, OneAlive, Alive
    <3>2. AddressOf[c] \in Addresses /\ AddressOf[accepting] \in Addresses
      BY <2>1 DEF Addresses
    <3> QED
      BY <1>5, <2>1, <3>1, <3>2 DEF Handshake, StoreTiming, TcpInv, TypeOK, OwnInv,
         EntryOfOpen
  <2>4. \A r \in Requests : pc[r] # "none" => ConnOf[r] # accepting
    BY <2>1 DEF TcpInv, Begun
  <2>5. FoundOwn' /\ Answered' /\ TokensAreOwn'
    BY <1>5, <2>1, <2>4, RequestsAssumption DEF Handshake, TcpInv, TypeOK, OwnInv,
       FoundOwn, Answered, TokensAreOwn, handler, outcome
  <2> QED
    BY <2>2, <2>3, <2>5 DEF OwnInv
<1>6. CASE HandshakeFails
  <2>1. \A c \in Conns : tcp'[c] \in {tcp[c], "closed"}
    BY <1>6 DEF HandshakeFails
  <2>2. OneAlive' /\ EntryOfOpen'
    BY <1>6, <2>1 DEF HandshakeFails, TcpInv, TypeOK, OwnInv, OneAlive, Alive,
       EntryOfOpen, Addresses
  <2>3. FoundOwn' /\ Answered' /\ TokensAreOwn'
    BY <1>6, <2>1, RequestsAssumption DEF HandshakeFails, TcpInv, TypeOK, OwnInv,
       FoundOwn, Answered, TokensAreOwn, outcome
  <2> QED
    BY <2>2, <2>3 DEF OwnInv
<1> QED
  BY <1>1, <1>2, <1>3, <1>4, <1>5, <1>6

LEMMA HandlersStep ==
  ASSUME TcpInv, OwnInv, NEW r \in Requests, RequestArrives(r) \/ HandlerStep(r)
  PROVE  OwnInv'
<1> USE RequestsAssumption
<1>1. OneAlive' /\ EntryOfOpen'
  BY DEF RequestArrives, HandlerStep, GetAndRecordHttpTime, MeasureAppRtt,
     StoreFingerprint, WriteToken, RecordWall, RecordExt, OwnInv, OneAlive, Alive,
     EntryOfOpen
<1>2. CASE GetAndRecordHttpTime(r)
  <2>1. r \notin tokens
    BY <1>2 DEF GetAndRecordHttpTime, OwnInv, Answered
  <2>2. tcp[ConnOf[r]] = "open" => timing'[r] \in {ConnOf[r], None}
    BY <1>2 DEF GetAndRecordHttpTime, TcpInv, TypeOK, OwnInv, EntryOfOpen
  <2> QED
    BY <1>1, <1>2, <2>1, <2>2 DEF GetAndRecordHttpTime, TcpInv, TypeOK, OwnInv, FoundOwn,
       Answered, TokensAreOwn, outcome
<1>3. CASE WriteToken(r)
  BY <1>1, <1>3 DEF WriteToken, AfterResponse, TcpInv, TypeOK, OwnInv, FoundOwn,
     Answered, TokensAreOwn
<1>4. CASE RequestArrives(r) \/ MeasureAppRtt(r) \/ StoreFingerprint(r)
           \/ RecordWall(r) \/ RecordExt(r)
  BY <1>1, <1>4 DEF RequestArrives, MeasureAppRtt, AfterResponse, StoreFingerprint,
     RecordWall, RecordExt, TcpInv, TypeOK, OwnInv, FoundOwn, Answered, TokensAreOwn,
     outcome
<1> QED
  BY <1>2, <1>3, <1>4 DEF HandlerStep

LEMMA OwnStep == TcpInv /\ OwnInv /\ [Next]_vars => OwnInv'
<1> SUFFICES ASSUME TcpInv, OwnInv, [Next]_vars PROVE OwnInv'
  OBVIOUS
<1>1. CASE Sweep \/ \E c \in Conns : CleanupTiming(c)
  <2>1. \A a \in Addresses : timingMap'[a] \in {timingMap[a], None}
    BY <1>1 DEF Sweep, CleanupTiming, DeleteEntry, TcpInv, TypeOK
  <2>2. UNCHANGED <<tcp, pc, timing, tokens>>
    BY <1>1 DEF Sweep, CleanupTiming, handler, outcome
  <2>3. EntryOfOpen'
    BY <2>1, <2>2 DEF OwnInv, EntryOfOpen, Addresses
  <2> QED
    BY <2>2, <2>3 DEF OwnInv, OneAlive, Alive, FoundOwn, Answered, TokensAreOwn
<1>2. CASE Tick \/ Quiet \/ UNCHANGED vars
  BY <1>2 DEF Tick, Quiet, vars, OwnInv, OneAlive, Alive, EntryOfOpen, FoundOwn,
     Answered, TokensAreOwn, handler, outcome
<1> QED
  BY <1>1, <1>2, ConnectionsStep, HandlersStep DEF Next

\* Although addresses are used again, a token leads to measurements of the
\* connection that asked for it, or to none.
THEOREM TokensAreOwnHolds == Spec => []TokensAreOwn
<1>1. Init => OwnInv
  BY DEF Init, OwnInv, OneAlive, Alive, EntryOfOpen, FoundOwn, Answered, TokensAreOwn
<1>2. OwnInv => TokensAreOwn
  BY DEF OwnInv
<1> QED
  BY <1>1, <1>2, OwnStep, TcpInvariant, PTL DEF Spec

------------------------------------------------------------------------------
(* What is measured. *)

Found(r) == pc[r] \in Working \ {"lookup"} /\ timing[r] # None

\* Entries, and what handlers found, belong to connections of their address
\* whose handshake was completed; so do recorded responses.
EntryServed ==
  \A a \in Addresses : timingMap[a] # None =>
    AddressOf[timingMap[a]] = a /\ tcp[timingMap[a]] \in {"open", "closed"}
FoundServed ==
  \A r \in Requests : Found(r) =>
    /\ AddressOf[timing[r]] = AddressOf[ConnOf[r]]
    /\ tcp[timing[r]] \in {"open", "closed"}
ResponseServed == \A c \in Conns : wall[c] => tcp[c] \in {"open", "closed"}

\* Connections are accepted before their requests arrive.
AcceptedFirst ==
  /\ \A c \in Conns : accepted[c] <= clock
  /\ \A r \in Requests : pc[r] # "none" =>
       accepted[ConnOf[r]] <= arrived[r] /\ arrived[r] <= clock

\* Two requests from one address in flight are remembered.
CrowdRemembered ==
  \A q, r \in Requests :
    /\ q # r /\ AddressOf[ConnOf[q]] = AddressOf[ConnOf[r]]
    /\ pc[q] \in Working /\ pc[r] \in Working
    => q \in crowded

ServedInv ==
  /\ EntryServed /\ FoundServed /\ ResponseServed /\ AcceptedFirst /\ CrowdRemembered

LEMMA ServedListenerStep ==
  ASSUME TcpInv, ServedInv,
         \/ CaptureClientHello \/ Handshake \/ HandshakeFails \/ Restart
         \/ \E c \in Conns : AcceptTcp(c)
  PROVE  ServedInv'
<1> USE RequestsAssumption, NoConnAssumption
<1>1. ASSUME NEW c \in Conns, AcceptTcp(c) PROVE ServedInv'
  <2>1. EntryServed' /\ FoundServed' /\ ResponseServed'
    BY <1>1 DEF AcceptTcp, response, handler, TcpInv, TypeOK, ServedInv, EntryServed,
       FoundServed, Found, ResponseServed
  <2>2. AcceptedFirst' /\ CrowdRemembered'
    BY <1>1 DEF AcceptTcp, handler, outcome, TcpInv, TypeOK, Begun, ServedInv,
       AcceptedFirst, CrowdRemembered
  <2> QED
    BY <2>1, <2>2 DEF ServedInv
<1>2. CASE CaptureClientHello \/ Restart
  BY <1>2 DEF CaptureClientHello, Restart, response, handler, outcome, ServedInv,
     EntryServed, FoundServed, Found, ResponseServed, AcceptedFirst, CrowdRemembered
<1>3. CASE Handshake
  <2>1. accepting \in Conns /\ tcp[accepting] = "accepting"
    BY <1>3 DEF Handshake, TcpInv, Serving
  <2>2. EntryServed'
    BY <1>3, <2>1 DEF Handshake, StoreTiming, TcpInv, TypeOK, ServedInv, EntryServed
  <2>3. FoundServed' /\ ResponseServed' /\ AcceptedFirst' /\ CrowdRemembered'
    BY <1>3, <2>1 DEF Handshake, response, handler, outcome, TcpInv, TypeOK, ServedInv,
       FoundServed, Found, ResponseServed, AcceptedFirst, CrowdRemembered
  <2> QED
    BY <2>2, <2>3 DEF ServedInv
<1>4. CASE HandshakeFails
  <2>1. /\ \A c \in Conns : tcp'[c] \in {tcp[c], "closed"}
        /\ \A r \in Requests : pc'[r] = pc[r] \/ (pc'[r] = "over" /\ pc[r] # "none")
        /\ \A a \in Addresses : timingMap'[a] \in {timingMap[a], None}
        /\ UNCHANGED <<clock, accepted, wall, arrived, timing, crowded>>
    BY <1>4 DEF HandshakeFails, response, outcome, TcpInv, TypeOK
  <2>2. EntryServed' /\ ResponseServed' /\ AcceptedFirst' /\ CrowdRemembered'
    BY <2>1 DEF TcpInv, TypeOK, ServedInv, EntryServed, ResponseServed, AcceptedFirst,
       CrowdRemembered, Working
  <2>3. FoundServed'
    BY <2>1 DEF TcpInv, TypeOK, ServedInv, FoundServed, Found, Working
  <2> QED
    BY <2>2, <2>3 DEF ServedInv
<1> QED
  BY <1>1, <1>2, <1>3, <1>4

LEMMA ServedOutsideStep ==
  ASSUME TcpInv, ServedInv,
         \/ Sweep \/ Tick
         \/ \E c \in Conns : \/ Connect(c) \/ Disconnect(c) \/ CleanupTiming(c)
                             \/ DelayedClose(c)
  PROVE  ServedInv'
<1>1. /\ \A c \in Conns : tcp'[c] = tcp[c] \/ tcp[c] = "unborn" \/ tcp'[c] = "closed"
      /\ \A a \in Addresses : timingMap'[a] \in {timingMap[a], None}
      /\ clock' \in {clock, clock + 1}
      /\ UNCHANGED <<accepted, wall, pc, arrived, timing, crowded>>
  BY DEF Sweep, Tick, Connect, Disconnect, Closes, CleanupTiming, DeleteEntry,
     DelayedClose, accept, response, handler, outcome, TcpInv, TypeOK
<1>2. EntryServed' /\ ResponseServed'
  BY <1>1 DEF TcpInv, TypeOK, ServedInv, EntryServed, ResponseServed
<1>3. FoundServed' /\ CrowdRemembered'
  BY <1>1, RequestsAssumption DEF TcpInv, TypeOK, ServedInv, FoundServed, Found,
     CrowdRemembered
<1>4. AcceptedFirst'
  BY <1>1, RequestsAssumption, TcpBoundsAssumption DEF TcpInv, TypeOK, ServedInv,
     AcceptedFirst
<1> QED
  BY <1>2, <1>3, <1>4 DEF ServedInv

LEMMA ServedRequestStep ==
  ASSUME TcpInv, ServedInv, NEW r \in Requests, RequestArrives(r) \/ HandlerStep(r)
  PROVE  ServedInv'
<1> USE RequestsAssumption, NoConnAssumption
<1> USE DEF HandlerStep, GetAndRecordHttpTime, MeasureAppRtt, AfterResponse,
        StoreFingerprint, WriteToken, RecordWall, RecordExt, accept, response, outcome
<1>1. EntryServed'
  BY DEF RequestArrives, ServedInv, EntryServed
<1>2. FoundServed'
  <2>1. CASE GetAndRecordHttpTime(r)
    <3>1. AddressOf[ConnOf[r]] \in Addresses
      BY DEF Addresses
    <3> QED
      BY <2>1, <3>1 DEF TcpInv, TypeOK, ServedInv, EntryServed, FoundServed, Found
  <2>2. CASE ~GetAndRecordHttpTime(r)
    BY <2>2 DEF RequestArrives, TcpInv, TypeOK, ServedInv, FoundServed, Found, Working
  <2> QED
    BY <2>1, <2>2
<1>3. ResponseServed'
  BY DEF RequestArrives, TcpInv, TypeOK, Recording, ServedInv, FoundServed, Found,
     ResponseServed, Working
<1>4. AcceptedFirst'
  BY DEF RequestArrives, TcpInv, TypeOK, ServedInv, AcceptedFirst
<1>5. CrowdRemembered'
  <2>1. CASE RequestArrives(r)
    BY <2>1 DEF RequestArrives, Others, TcpInv, TypeOK, ServedInv, CrowdRemembered
  <2>2. CASE HandlerStep(r)
    BY <2>2, SMTT(40) DEF TcpInv, TypeOK, ServedInv, CrowdRemembered, Working
  <2> QED
    BY <2>1, <2>2
<1> QED
  BY <1>1, <1>2, <1>3, <1>4, <1>5 DEF ServedInv

LEMMA ServedStep == TcpInv /\ ServedInv /\ [Next]_vars => ServedInv'
<1> SUFFICES ASSUME TcpInv, ServedInv, [Next]_vars PROVE ServedInv'
  OBVIOUS
<1>1. CASE Quiet \/ UNCHANGED vars
  BY <1>1 DEF Quiet, vars, accept, response, handler, outcome, ServedInv, EntryServed,
     FoundServed, Found, ResponseServed, AcceptedFirst, CrowdRemembered
<1> QED
  BY <1>1, ServedListenerStep, ServedOutsideStep, ServedRequestStep DEF Next

\* The entry of the connection is in the map or in the hands of a handler.
Reachable(c) ==
  \/ timingMap[AddressOf[c]] = c
  \/ \E r \in Requests : Found(r) /\ timing[r] = c

\* A recorded response is of the connection's time, unless half of it is still
\* to be stored.
Recorded ==
  \A c \in Conns :
    /\ wall[c] /\ Reachable(c)
    /\ \A q \in Requests : pc[q] = "recordExt" => timing[q] # c
    => accepted[c] <= ext[c] /\ ext[c] <= clock

\* What a handler alone at its address may read was stored before it arrived.
Earlier ==
  \A r \in Requests \ crowded : pc[r] \in {"lookup", "measure"} =>
    \A c \in Conns :
      AddressOf[c] = AddressOf[ConnOf[r]] /\ Reachable(c) /\ wall[c]
        => accepted[c] <= ext[c] /\ ext[c] <= arrived[r]

Measured ==
  \A r \in Requests \ crowded :
    pc[r] \in {"store", "write"} /\ timing[r] \in {ConnOf[r], None}
      => appRtt[r] \in 0 .. arrived[r] - accepted[ConnOf[r]]

RttInv == Recorded /\ Earlier /\ Measured /\ AppRttIsElapsed

\* Steps that make no recorded response reachable and record none keep RttInv.
LEMMA RttKept ==
  ASSUME TcpInv, TcpInv', OwnInv, RttInv,
         \A c \in Conns : wall[c] /\ Reachable(c)' => Reachable(c),
         \A c \in Conns : accepted'[c] = accepted[c] \/ tcp[c] = "queued",
         \A c \in Conns : wall[c] => tcp[c] # "queued",
         clock <= clock', crowded \subseteq crowded',
         UNCHANGED <<wall, ext, arrived, appRtt, tokens>>,
         \A r \in Requests :
           /\ pc'[r] \in {"lookup", "measure"} => pc[r] \in {"lookup", "measure"}
           /\ pc'[r] \in {"store", "write"} =>
                pc[r] \in {"store", "write"} /\ timing'[r] = timing[r]
           /\ pc[r] = "recordExt" => pc'[r] = "recordExt" /\ timing'[r] = timing[r]
  PROVE  RttInv'
<1> USE RequestsAssumption
<1>1. \A r \in Requests : pc[r] # "none" => accepted'[ConnOf[r]] = accepted[ConnOf[r]]
  BY DEF TcpInv, Begun
<1>2. Recorded'
  BY DEF TcpInv, TypeOK, RttInv, Recorded
<1>3. Earlier'
  BY DEF TcpInv, TypeOK, RttInv, Earlier
<1>4. Measured'
  BY <1>1, SMTT(40) DEF TcpInv, TypeOK, RttInv, Measured
<1>5. AppRttIsElapsed'
  BY <1>1 DEF TcpInv, TypeOK, OwnInv, Answered, RttInv, AppRttIsElapsed
<1> QED
  BY <1>2, <1>3, <1>4, <1>5 DEF RttInv

LEMMA RttListenerStep ==
  ASSUME TcpInv, TcpInv', OwnInv, ServedInv, RttInv,
         \/ CaptureClientHello \/ Handshake \/ Restart \/ Sweep \/ Tick
         \/ \E c \in Conns : \/ AcceptTcp(c) \/ Connect(c) \/ Disconnect(c)
                             \/ CleanupTiming(c) \/ DelayedClose(c)
  PROVE  RttInv'
<1> USE RequestsAssumption, NoConnAssumption
<1>1. \A c \in Conns : wall[c] => tcp[c] \notin {"queued", "accepting"}
  BY DEF ServedInv, ResponseServed
<1>2. UNCHANGED <<wall, ext, pc, arrived, timing, appRtt, tokens, crowded>>
  BY DEF CaptureClientHello, Handshake, Restart, Sweep, Tick, AcceptTcp, Connect,
     Disconnect, Closes, CleanupTiming, DelayedClose, response, handler, outcome
<1>3. \A c \in Conns : accepted'[c] = accepted[c] \/ tcp[c] = "queued"
  BY DEF CaptureClientHello, Handshake, Restart, Sweep, Tick, AcceptTcp, Connect,
     Disconnect, Closes, CleanupTiming, DelayedClose, accept, TcpInv, TypeOK
<1>4. clock <= clock'
  BY TcpBoundsAssumption DEF CaptureClientHello, Handshake, Restart, Sweep, Tick,
     AcceptTcp, Connect, Disconnect, Closes, CleanupTiming, DelayedClose, TcpInv, TypeOK
<1>5. \A c \in Conns : wall[c] /\ timingMap'[AddressOf[c]] = c
                         => timingMap[AddressOf[c]] = c
  <2>1. \A c \in Conns : AddressOf[c] \in Addresses
    BY DEF Addresses
  <2>2. CASE Handshake
    BY <1>1, <2>1, <2>2 DEF Handshake, StoreTiming, TcpInv, TypeOK, Serving
  <2>3. CASE Sweep
    BY <2>1, <2>3 DEF Sweep
  <2>4. CASE \E d \in Conns : CleanupTiming(d)
    BY <2>1, <2>4 DEF CleanupTiming, DeleteEntry, TcpInv, TypeOK
  <2>5. CASE UNCHANGED timingMap
    BY <2>5
  <2> QED
    BY <2>2, <2>3, <2>4, <2>5 DEF CaptureClientHello, Restart, Tick, AcceptTcp, Connect,
       Disconnect, DelayedClose
<1>6. \A c \in Conns : wall[c] /\ Reachable(c)' => Reachable(c)
  BY <1>2, <1>5 DEF Reachable, Found
<1> QED
  BY <1>1, <1>2, <1>3, <1>4, <1>6, RttKept

LEMMA RttFailureStep ==
  ASSUME TcpInv, TcpInv', OwnInv, ServedInv, RttInv, HandshakeFails
  PROVE  RttInv'
<1> USE RequestsAssumption, NoConnAssumption
<1>1. UNCHANGED <<clock, accepted, wall, ext, arrived, timing, appRtt, tokens, crowded>>
  BY DEF HandshakeFails, response, outcome
<1>2. CASE listener' = "down"
  <2>1. \A r \in Requests : pc'[r] \in {"none", "over"}
    BY <1>2 DEF HandshakeFails
  <2>2. \A c \in Conns : ~Reachable(c)'
    BY <1>2, <2>1 DEF HandshakeFails, Reachable, Found, Working, Addresses
  <2> QED
    BY <1>1, <2>1, <2>2 DEF RttInv, Recorded, Earlier, Measured, AppRttIsElapsed
<1>3. CASE listener' # "down"
  <2>1. UNCHANGED <<timingMap, pc>>
    BY <1>3 DEF HandshakeFails
  <2>2. \A c \in Conns : Reachable(c)' => Reachable(c)
    BY <1>1, <2>1 DEF Reachable, Found
  <2> QED
    BY <1>1, <2>1, <2>2 DEF RttInv, Recorded, Earlier, Measured, AppRttIsElapsed,
       Reachable, Found
<1> QED
  BY <1>2, <1>3

LEMMA RttArrivalStep ==
  ASSUME TcpInv, TcpInv', OwnInv, ServedInv, RttInv, NEW r \in Requests,
         RequestArrives(r)
  PROVE  RttInv'
<1> USE RequestsAssumption, NoConnAssumption
<1>1. /\ UNCHANGED <<clock, accepted, timingMap, wall, ext, timing, appRtt, tokens>>
      /\ pc[r] = "none" /\ crowded \subseteq crowded'
      /\ pc' = [pc EXCEPT ![r] = "lookup"]
      /\ arrived' = [arrived EXCEPT ![r] = clock]
  BY DEF RequestArrives, accept, response
<1>2. \A c \in Conns : Reachable(c)' => Reachable(c)
  BY <1>1 DEF Reachable, Found, Working, TcpInv, TypeOK
<1>3. Recorded'
  BY <1>1, <1>2 DEF TcpInv, TypeOK, RttInv, Recorded
<1>4. ASSUME r \notin crowded', NEW c \in Conns,
             AddressOf[c] = AddressOf[ConnOf[r]], Reachable(c), wall[c]
      PROVE  accepted[c] <= ext[c] /\ ext[c] <= clock
  <2>1. Others(r) = {}
    BY <1>4 DEF RequestArrives
  <2>2. ASSUME NEW q \in Requests, pc[q] = "recordExt", timing[q] = c PROVE FALSE
    <3>1. AddressOf[ConnOf[q]] = AddressOf[c] /\ q # r
      BY <1>1, <2>2 DEF ServedInv, FoundServed, Found, Working
    <3> QED
      BY <1>4, <2>1, <2>2, <3>1 DEF Others, Working
  <2> QED
    BY <1>4, <2>2 DEF RttInv, Recorded
<1>5. Earlier'
  BY <1>1, <1>2, <1>4 DEF TcpInv, TypeOK, RttInv, Earlier
<1>6. Measured'
  BY <1>1 DEF TcpInv, TypeOK, RttInv, Measured
<1>7. AppRttIsElapsed'
  BY <1>1 DEF TcpInv, TypeOK, OwnInv, Answered, RttInv, AppRttIsElapsed
<1> QED
  BY <1>3, <1>5, <1>6, <1>7 DEF RttInv

LEMMA RttMeasureStep ==
  ASSUME TcpInv, TcpInv', OwnInv, ServedInv, RttInv, NEW r \in Requests,
         MeasureAppRtt(r)
  PROVE  RttInv'
<1> USE RequestsAssumption, NoConnAssumption
<1>1. /\ UNCHANGED <<clock, accepted, timingMap, wall, ext, arrived, timing, tokens,
                     crowded>>
      /\ pc[r] = "measure" /\ pc'[r] \in {"store", "over", "recordWall"}
      /\ pc'[r] = "recordWall" => timing[r] # None
      /\ \A q \in Requests \ {r} : pc'[q] = pc[q] /\ appRtt'[q] = appRtt[q]
  BY DEF MeasureAppRtt, AfterResponse, accept, response, outcome, TcpInv, TypeOK
<1>2. \A c \in Conns : Reachable(c)' => Reachable(c)
  BY <1>1 DEF Reachable, Found, Working
<1>3. Recorded' /\ Earlier'
  BY <1>1, <1>2 DEF RttInv, Recorded, Earlier
<1>4. ASSUME r \notin crowded, timing[r] \in {ConnOf[r], None}
      PROVE  appRtt'[r] \in 0 .. arrived[r] - accepted[ConnOf[r]]
  <2>1. accepted[ConnOf[r]] <= arrived[r]
    BY <1>1 DEF ServedInv, AcceptedFirst
  <2>2. appRtt'[r] = IF timing[r] # None /\ wall[timing[r]] THEN Elapsed(r) ELSE 0
    BY DEF MeasureAppRtt, TcpInv, TypeOK
  <2>3. /\ accepted[ConnOf[r]] \in Nat /\ arrived[r] \in Nat
        /\ ConnOf[r] \in Conns /\ ext[ConnOf[r]] \in Nat
    BY TcpBoundsAssumption DEF TcpInv, TypeOK
  <2>4. CASE timing[r] = ConnOf[r] /\ wall[ConnOf[r]]
    <3>1. Reachable(ConnOf[r])
      BY <1>1, <2>4 DEF Reachable, Found, Working
    <3>2. accepted[ConnOf[r]] <= ext[ConnOf[r]] /\ ext[ConnOf[r]] <= arrived[r]
      BY <1>1, <1>4, <2>4, <3>1 DEF RttInv, Earlier
    <3>3. appRtt'[r] = arrived[r] - ext[ConnOf[r]]
      BY <2>2, <2>3, <2>4 DEF Elapsed
    <3> QED
      BY <2>3, <3>2, <3>3
  <2>5. CASE timing[r] = None \/ ~wall[ConnOf[r]]
    BY <1>4, <2>1, <2>2, <2>3, <2>5
  <2> QED
    BY <1>4, <2>4, <2>5
<1>5. Measured'
  BY <1>1, <1>4 DEF RttInv, Measured
<1>6. AppRttIsElapsed'
  BY <1>1 DEF TcpInv, TypeOK, OwnInv, Answered, RttInv, AppRttIsElapsed
<1> QED
  BY <1>3, <1>5, <1>6 DEF RttInv

LEMMA RttWriteStep ==
  ASSUME TcpInv, TcpInv', OwnInv, ServedInv, RttInv, NEW r \in Requests,
         GetAndRecordHttpTime(r) \/ StoreFingerprint(r) \/ WriteToken(r)
  PROVE  RttInv'
<1> USE RequestsAssumption, NoConnAssumption
<1>1. /\ UNCHANGED <<clock, accepted, timingMap, wall, ext, arrived, appRtt, crowded>>
      /\ \A q \in Requests \ {r} : pc'[q] = pc[q] /\ timing'[q] = timing[q]
      /\ pc[r] \in {"lookup", "store", "write"}
      /\ pc'[r] \in {"measure", "write", "over", "recordWall"}
      /\ pc'[r] = "measure" => pc[r] = "lookup"
      /\ pc'[r] = "write" => pc[r] = "store" /\ timing'[r] = timing[r]
      /\ pc'[r] # "measure" => pc[r] # "lookup" /\ timing'[r] = timing[r]
  BY DEF GetAndRecordHttpTime, StoreFingerprint, WriteToken, AfterResponse, accept,
     response, outcome, TcpInv, TypeOK
<1>2. pc'[r] = "measure" /\ timing'[r] # None => timingMap[AddressOf[timing'[r]]] = timing'[r]
  <2>1. CASE GetAndRecordHttpTime(r)
    BY <2>1 DEF GetAndRecordHttpTime, TcpInv, TypeOK, Addresses, ServedInv, EntryServed
  <2>2. CASE StoreFingerprint(r) \/ WriteToken(r)
    BY <1>1, <2>2 DEF StoreFingerprint, WriteToken
  <2> QED
    BY <2>1, <2>2
<1>3. \A c \in Conns : Reachable(c)' => Reachable(c)
  BY <1>1, <1>2 DEF Reachable, Found, Working
<1>4. Recorded' /\ Earlier'
  BY <1>1, <1>3 DEF RttInv, Recorded, Earlier
<1>5. Measured'
  BY <1>1 DEF RttInv, Measured
<1>6. AppRttIsElapsed'
  <2>1. tokens' \subseteq tokens \cup {r}
    BY DEF GetAndRecordHttpTime, StoreFingerprint, WriteToken, outcome
  <2>2. r \in tokens' \ tokens =>
          pc[r] = "write" /\ timing[r] \in {ConnOf[r], None}
    BY DEF GetAndRecordHttpTime, StoreFingerprint, WriteToken, outcome, OwnInv, FoundOwn
  <2> QED
    BY <1>1, <2>1, <2>2 DEF RttInv, Measured, AppRttIsElapsed
<1> QED
  BY <1>4, <1>5, <1>6 DEF RttInv

LEMMA RttRecordStep ==
  ASSUME TcpInv, TcpInv', OwnInv, ServedInv, RttInv, NEW r \in Requests,
         RecordWall(r) \/ RecordExt(r)
  PROVE  RttInv'
<1> USE RequestsAssumption, NoConnAssumption
<1>1. /\ UNCHANGED <<clock, accepted, timingMap, arrived, timing, appRtt, tokens,
                     crowded>>
      /\ \A q \in Requests \ {r} : pc'[q] = pc[q]
      /\ pc[r] \in {"recordWall", "recordExt"} /\ pc'[r] \in {"recordExt", "over"}
      /\ \A c \in Conns : c # timing[r] => wall'[c] = wall[c] /\ ext'[c] = ext[c]
      /\ pc'[r] = "over" => ext'[timing[r]] = clock
  BY DEF RecordWall, RecordExt, accept, outcome, TcpInv, TypeOK, Recording
<1>2. /\ timing[r] \in Conns /\ AddressOf[timing[r]] = AddressOf[ConnOf[r]]
  BY <1>1 DEF TcpInv, Recording, ServedInv, FoundServed, Found, Working
<1>3. \A c \in Conns : Reachable(c)' => Reachable(c)
  BY <1>1 DEF Reachable, Found, Working
<1>4. Recorded'
  <2> SUFFICES ASSUME NEW c \in Conns, wall'[c], Reachable(c)',
                      \A q \in Requests : pc'[q] = "recordExt" => timing[q] # c
               PROVE  accepted[c] <= ext'[c] /\ ext'[c] <= clock
    BY <1>1 DEF Recorded
  <2>1. CASE c = timing[r]
    BY <1>1, <2>1 DEF ServedInv, AcceptedFirst, TcpInv, TypeOK
  <2>2. CASE c # timing[r]
    BY <1>1, <1>3, <2>2 DEF RttInv, Recorded
  <2> QED
    BY <2>1, <2>2
<1>5. Earlier'
  <2> SUFFICES ASSUME NEW q \in Requests \ crowded, pc'[q] \in {"lookup", "measure"},
                      NEW c \in Conns, AddressOf[c] = AddressOf[ConnOf[q]],
                      Reachable(c)', wall'[c]
               PROVE  accepted[c] <= ext'[c] /\ ext'[c] <= arrived[q]
    BY <1>1 DEF Earlier
  <2>1. q # r /\ pc[q] \in {"lookup", "measure"}
    BY <1>1
  <2>2. c # timing[r]
    BY <1>1, <1>2, <2>1 DEF ServedInv, CrowdRemembered, Working
  <2> QED
    BY <1>1, <1>3, <2>1, <2>2 DEF RttInv, Earlier
<1>6. Measured'
  BY <1>1 DEF RttInv, Measured
<1>7. AppRttIsElapsed'
  BY <1>1 DEF RttInv, AppRttIsElapsed
<1> QED
  BY <1>4, <1>5, <1>6, <1>7 DEF RttInv

LEMMA RttStep ==
  ASSUME TcpInv, TcpInv', OwnInv, ServedInv, RttInv, [Next]_vars
  PROVE  RttInv'
<1>1. CASE Quiet \/ UNCHANGED vars
  BY <1>1 DEF Quiet, vars, accept, response, handler, outcome, RttInv, Recorded, Earlier,
     Measured, AppRttIsElapsed, Reachable, Found
<1> QED
  BY <1>1, RttListenerStep, RttFailureStep, RttArrivalStep, RttMeasureStep,
     RttWriteStep, RttRecordStep DEF Next, HandlerStep

\* From an address with one request at a time, the time since the last response
\* is not negative and began no earlier than the connection, although it is
\* read without the lock.
THEOREM AppRttIsElapsedHolds == Spec => []AppRttIsElapsed
<1>1. Init => OwnInv
  BY DEF Init, OwnInv, OneAlive, Alive, EntryOfOpen, FoundOwn, Answered, TokensAreOwn
<1>2. Init => ServedInv
  BY RequestsAssumption DEF Init, ServedInv, EntryServed, FoundServed, Found, Working,
     ResponseServed, AcceptedFirst, CrowdRemembered
<1>3. Init => RttInv
  BY DEF Init, RttInv, Recorded, Earlier, Measured, AppRttIsElapsed
<1>4. RttInv => AppRttIsElapsed
  BY DEF RttInv
<1> QED
  BY <1>1, <1>2, <1>3, <1>4, OwnStep, ServedStep, RttStep, TcpInvariant, PTL DEF Spec
==============================================================================
