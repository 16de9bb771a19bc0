---------------------------- MODULE H2ProbeProofs -----------------------------
(***************************************************************************)
(* Proofs about H2Probe: the type invariant; that an HTTP/2 client with a  *)
(* token finds its fingerprint; that exactly those are answered whose      *)
(* HEADERS came within the limit of frames; and that the fingerprint       *)
(* stored is what the frames said, in the order they came.                 *)
(***************************************************************************)
EXTENDS H2Probe, SequenceTheorems, WellFoundedInduction, TLAPS

\* Frames have the fields the loop reads of their type.
LEMMA FrameTypes ==
  ASSUME NEW frame \in Frames
  PROVE  /\ frame.type = "settings" => frame.list \in Seq(Settings)
         /\ frame.type = "windowUpdate" => frame.increment \in Increments
         /\ frame.type = "priority" => frame.param \in Priorities
         /\ frame.type = "headers" => frame.order \in PseudoOrders \cup {None}
<1>1. \A list \in SettingLists : list \in Seq(Settings)
  <2> SUFFICES ASSUME NEW list \in SettingLists PROVE list \in Seq(Settings)
    OBVIOUS
  <2>1. PICK m \in 0 .. MaxSettings : list \in [1 .. m -> Settings]
    BY DEF SettingLists, BoundedSeq, SeqOf
  <2> QED
    BY <2>1, FramesAssumption
<1>2. <<>> \in Seq(Settings)
  OBVIOUS
<1> QED
  BY <1>1, <1>2 DEF Frames

\* A frame changes what was captured, and leaves the protocol alone.
LEMMA CapturedTypes ==
  ASSUME NEW f \in Fingerprints, NEW frame \in Frames
  PROVE  Captured(f, frame) \in Fingerprints /\ Captured(f, frame).protocol = f.protocol
<1>1. CASE frame.type = "settings"
  <2>1. Captured(f, frame) = [f EXCEPT !.settings = SettingsAfter(f, frame)]
    BY <1>1 DEF Captured
  <2>2. SettingsAfter(f, frame) \in Seq(Settings)
    BY <1>1, FrameTypes DEF SettingsAfter, Fingerprints
  <2> QED
    BY <2>1, <2>2 DEF Fingerprints
<1>2. CASE frame.type = "windowUpdate"
  <2>1. Captured(f, frame) = [f EXCEPT !.window = WindowAfter(f, frame)]
    BY <1>2 DEF Captured
  <2>2. WindowAfter(f, frame) \in Increments \cup {0}
    BY <1>2, FrameTypes DEF WindowAfter, Fingerprints
  <2> QED
    BY <2>1, <2>2 DEF Fingerprints
<1>3. CASE frame.type = "priority"
  <2>1. Captured(f, frame) = [f EXCEPT !.priorities = Append(@, frame.param)]
    BY <1>3 DEF Captured
  <2>2. Append(f.priorities, frame.param) \in Seq(Priorities)
    BY <1>3, FrameTypes DEF Fingerprints
  <2> QED
    BY <2>1, <2>2 DEF Fingerprints
<1>4. CASE frame.type = "headers"
  <2>1. Captured(f, frame) = [f EXCEPT !.order = frame.order]
    BY <1>4 DEF Captured
  <2>2. frame.order \in PseudoOrders \cup {None}
    BY <1>4, FrameTypes
  <2> QED
    BY <2>1, <2>2 DEF Fingerprints
<1>5. CASE frame.type \notin {"settings", "windowUpdate", "priority", "headers"}
  BY <1>5 DEF Captured
<1> QED
  BY <1>1, <1>2, <1>3, <1>4, <1>5

------------------------------------------------------------------------------
(* The invariant, in parts. *)

\* The protocol is known once the client has shown it.
Spoken(c) ==
  /\ pc[c] \in {"none", "hello", "handshake", "preface", "fallback"} => fp[c].protocol = ""
  /\ pc[c] = "best effort" => fp[c].protocol \in {"h1", "h1-proxy"}
  /\ pc[c] \in {"settings", "frames", "ack", "answer"} => fp[c].protocol = "h2"

\* The fingerprint is stored at the end, and before an HTTP/2 client is answered.
StoredLast(c) ==
  /\ stored[c] # None => pc[c] \in {"respond", "closed"}
  /\ pc[c] = "respond" /\ fp[c].protocol = "h2" => stored[c] = fp[c]
  /\ c \in tokens => pc[c] = "closed"

HeadersRead(c) == \E n \in DOMAIN read[c] : read[c][n].type = "headers"
HeadersLast(c) == read[c] # <<>> /\ Last(read[c]).type = "headers"

\* The loop goes on until it has read HEADERS or as many frames as it may.
Reading(c) ==
  /\ pc[c] \in {"none", "hello", "handshake", "preface", "settings"} => read[c] = <<>>
  /\ pc[c] \in {"frames", "ack"} => ~HeadersRead(c)
  /\ pc[c] = "frames" => Len(read[c]) < MaxFrames
  /\ pc[c] = "answer" => HeadersLast(c)
  /\ pc[c] = "respond" /\ fp[c].protocol = "h2" => HeadersLast(c)

\* How an HTTP/2 exchange without a failed call ended.
Ended(c) ==
  (pc[c] = "closed" /\ fp[c].protocol = "h2" /\ c \notin failed) =>
    IF c \in tokens THEN HeadersLast(c)
    ELSE ~HeadersRead(c) /\ Len(read[c]) = MaxFrames

Progress(c) == Spoken(c) /\ StoredLast(c) /\ Reading(c) /\ Ended(c)

H2Inv == TypeOK /\ Http2TokensResolve /\ \A c \in Conns : Progress(c)

LEMMA H2Init == Init => H2Inv
<1> SUFFICES ASSUME Init PROVE H2Inv
  OBVIOUS
<1>1. EmptyFp \in Fingerprints
  BY DEF EmptyFp, Fingerprints, Protocols
<1>2. TypeOK
  BY <1>1, FramesAssumption DEF Init, TypeOK
<1>3. ASSUME NEW c \in Conns PROVE Progress(c)
  BY <1>3 DEF Init, Progress, Spoken, StoredLast, Reading, Ended, EmptyFp
<1> QED
  BY <1>2, <1>3 DEF H2Inv, Http2TokensResolve, Init

------------------------------------------------------------------------------
(* Every step is of one connection; the others keep what they had. *)

Others(c) ==
  \A d \in Conns \ {c} :
    /\ pc'[d] = pc[d] /\ fp'[d] = fp[d] /\ stored'[d] = stored[d] /\ read'[d] = read[d]
    /\ d \in tokens' <=> d \in tokens
    /\ d \in failed' <=> d \in failed

LEMMA OneConnection ==
  ASSUME H2Inv, NEW c \in Conns, Others(c), TypeOK', Progress(c)',
         c \in tokens' => (fp'[c].protocol = "h2" => stored'[c] = fp'[c])
  PROVE  H2Inv'
<1>1. ASSUME NEW d \in Conns PROVE Progress(d)'
  <2>1. CASE d = c
    BY <2>1
  <2>2. CASE d # c
    <3>1. Progress(d)
      BY DEF H2Inv
    <3>2. /\ pc'[d] = pc[d] /\ fp'[d] = fp[d] /\ stored'[d] = stored[d] /\ read'[d] = read[d]
          /\ d \in tokens' <=> d \in tokens
          /\ d \in failed' <=> d \in failed
      BY <2>2 DEF Others
    <3> QED
      BY <3>1, <3>2 DEF Progress, Spoken, StoredLast, Reading, Ended, HeadersRead, HeadersLast
  <2> QED
    BY <2>1, <2>2
<1>2. Http2TokensResolve'
  <2> SUFFICES ASSUME NEW d \in tokens', fp'[d].protocol = "h2" PROVE stored'[d] = fp'[d]
    BY DEF Http2TokensResolve
  <2>1. d \in Conns
    BY DEF TypeOK
  <2> QED
    BY <2>1 DEF Others, H2Inv, Http2TokensResolve
<1> QED
  BY <1>1, <1>2 DEF H2Inv

\* Where a call fails, the connection is closed.
LEMMA FailsStep ==
  ASSUME H2Inv, NEW c \in Conns, Fails(c), pc[c] # "closed"
  PROVE  H2Inv'
<1> USE DEF H2Inv, Goto
<1>1. TypeOK'
  BY DEF Fails, TypeOK, Working, Timed
<1>2. Others(c)
  BY DEF Fails, TypeOK, Others
<1>3. Progress(c)' /\ (c \in tokens' => (fp'[c].protocol = "h2" => stored'[c] = fp'[c]))
  BY DEF Fails, TypeOK, Progress, Spoken, StoredLast, Reading, Ended, Http2TokensResolve
<1> QED
  BY <1>1, <1>2, <1>3, OneConnection

\* The client shows its protocol.
LEMMA ProtocolShown ==
  ASSUME H2Inv, NEW c \in Conns, pc[c] \in {"preface", "fallback"},
         NEW p \in Protocols \ {""}, fp' = [fp EXCEPT ![c].protocol = p],
         \/ p # "h2" /\ Goto(c, "best effort")
         \/ p = "h2" /\ pc[c] = "preface" /\ Goto(c, "settings"),
         UNCHANGED <<stored, tokens, read, failed>>
  PROVE  H2Inv'
<1> USE DEF H2Inv, Goto
<1>1. fp'[c] \in Fingerprints /\ fp'[c].protocol = p
  <2>1. fp \in [Conns -> Fingerprints] /\ fp[c] \in Fingerprints
    BY DEF TypeOK
  <2>2. fp'[c] = [fp[c] EXCEPT !.protocol = p]
    BY <2>1
  <2> QED
    BY <2>1, <2>2 DEF Fingerprints
<1>2. fp' \in [Conns -> Fingerprints] /\ pc' \in [Conns -> {"none", "closed"} \cup Working]
  BY <1>1 DEF TypeOK, Working, Timed
<1>3. stored[c] = None /\ c \notin tokens
  BY DEF Progress, StoredLast
<1>4. Others(c)
  BY DEF TypeOK, Others
<1>5. TypeOK'
  BY <1>2, <1>3, <1>4 DEF TypeOK, Others
<1>6. Progress(c)'
  <2>1. pc'[c] = (IF p = "h2" THEN "settings" ELSE "best effort")
    BY DEF TypeOK
  <2>2. p = "h2" => read[c] = <<>>
    BY DEF Progress, Reading
  <2> QED
    BY <1>1, <1>3, <2>1, <2>2 DEF Protocols, Progress, Spoken, StoredLast, Reading, Ended
<1> QED
  BY <1>3, <1>4, <1>5, <1>6, OneConnection

\* From the accepted connection to the frames.
LEMMA OpeningStep ==
  ASSUME H2Inv, NEW c \in Conns,
         \/ Accept(c) \/ CaptureClientHello(c) \/ Handshake(c)
         \/ FallbackRequest(c) \/ Preface(c) \/ WriteSettings(c)
  PROVE  H2Inv'
<1> USE DEF H2Inv, Goto
<1>1. CASE Accept(c)
  <2>1. TypeOK'
    BY <1>1 DEF Accept, TypeOK, Working, Timed
  <2>2. Others(c)
    BY <1>1 DEF Accept, TypeOK, Others
  <2>3. Progress(c)' /\ (c \in tokens' => (fp'[c].protocol = "h2" => stored'[c] = fp'[c]))
    BY <1>1 DEF Accept, TypeOK, Progress, Spoken, StoredLast, Reading, Ended,
       HeadersRead, HeadersLast, Http2TokensResolve
  <2> QED
    BY <2>1, <2>2, <2>3, OneConnection
<1>2. CASE CaptureClientHello(c)
  <2>1. TypeOK'
    BY <1>2 DEF CaptureClientHello, TypeOK, Working, Timed
  <2>2. Others(c)
    BY <1>2 DEF CaptureClientHello, TypeOK, Others
  <2>3. Progress(c)' /\ (c \in tokens' => (fp'[c].protocol = "h2" => stored'[c] = fp'[c]))
    BY <1>2 DEF CaptureClientHello, TypeOK, Progress, Spoken, StoredLast, Reading, Ended,
       HeadersRead, HeadersLast, Http2TokensResolve
  <2> QED
    BY <2>1, <2>2, <2>3, OneConnection
<1>3. CASE Handshake(c)
  <2>1. TypeOK'
    BY <1>3 DEF Handshake, TypeOK, Working, Timed
  <2>2. Others(c)
    BY <1>3 DEF Handshake, TypeOK, Others
  <2>3. Progress(c)' /\ (c \in tokens' => (fp'[c].protocol = "h2" => stored'[c] = fp'[c]))
    BY <1>3 DEF Handshake, TypeOK, Progress, Spoken, StoredLast, Reading, Ended,
       HeadersRead, HeadersLast, Http2TokensResolve
  <2> QED
    BY <2>1, <2>2, <2>3, OneConnection
<1>4. CASE FallbackRequest(c)
  BY <1>4, ProtocolShown DEF FallbackRequest, Protocols
<1>5. CASE Preface(c)
  BY <1>5, ProtocolShown DEF Preface, Protocols
<1>6. CASE WriteSettings(c)
  <2>1. TypeOK'
    BY <1>6 DEF WriteSettings, TypeOK, Working, Timed
  <2>2. Others(c)
    BY <1>6 DEF WriteSettings, TypeOK, Others
  <2>3. read[c] = <<>> /\ fp[c].protocol = "h2" /\ stored[c] = None /\ c \notin tokens
    BY <1>6 DEF WriteSettings, Progress, Spoken, StoredLast, Reading
  <2>4. pc'[c] = "frames" /\ read'[c] = <<>> /\ UNCHANGED <<fp, stored, tokens>>
    BY <1>6, <2>3 DEF WriteSettings, TypeOK
  <2>5. Len(read'[c]) < MaxFrames /\ ~HeadersRead(c)'
    BY <2>4, FramesAssumption DEF HeadersRead
  <2>6. Progress(c)'
    BY <2>3, <2>4, <2>5 DEF Progress, Spoken, StoredLast, Reading, Ended
  <2> QED
    BY <2>1, <2>2, <2>3, <2>4, <2>6, OneConnection
<1> QED
  BY <1>1, <1>2, <1>3, <1>4, <1>5, <1>6

\* The loop over the client's frames.
LEMMA LoopStep ==
  ASSUME H2Inv, NEW c \in Conns,
         (\E frame \in Frames : ReadFrame(c, frame)) \/ WriteSettingsAck(c)
  PROVE  H2Inv'
<1> USE DEF H2Inv, Goto
<1>1. ASSUME NEW frame \in Frames, ReadFrame(c, frame) PROVE H2Inv'
  <2> DEFINE next == CASE frame.type = "headers" -> "answer"
                       [] frame.type = "settings" /\ ~frame.ack -> "ack"
                       [] OTHER -> NextTurn(Len(read[c]) + 1)
  <2>1. pc[c] = "frames" /\ pc'[c] = next /\ UNCHANGED <<stored, tokens, failed>>
    BY <1>1 DEF ReadFrame, TypeOK
  <2>2. read'[c] = Append(read[c], frame) /\ read[c] \in Seq(Frames)
    BY <1>1 DEF ReadFrame, TypeOK
  <2>3. fp'[c] = Captured(fp[c], frame) /\ fp[c] \in Fingerprints
    BY <1>1 DEF ReadFrame, TypeOK
  <2>4. fp'[c] \in Fingerprints /\ fp'[c].protocol = "h2"
    <3>1. Captured(fp[c], frame) \in Fingerprints
      BY <2>3, CapturedTypes
    <3>2. Captured(fp[c], frame).protocol = fp[c].protocol
      BY <2>3, CapturedTypes
    <3>3. fp[c].protocol = "h2"
      BY <2>1 DEF Progress, Spoken
    <3> QED
      BY <2>3, <3>1, <3>2, <3>3, Zenon
  <2>5. stored[c] = None /\ c \notin tokens /\ ~HeadersRead(c) /\ Len(read[c]) < MaxFrames
    BY <2>1 DEF Progress, StoredLast, Reading
  <2>6. next \in {"answer", "ack", "frames", "closed"}
    <3>1. NextTurn(Len(read[c]) + 1) \in {"frames", "closed"}
      BY DEF NextTurn
    <3>2. next \in {"answer", "ack", NextTurn(Len(read[c]) + 1)}
      BY Zenon
    <3> QED
      BY <3>1, <3>2
  <2>7. Others(c)
    BY <1>1 DEF ReadFrame, TypeOK, Others
  <2>8. Len(read'[c]) = Len(read[c]) + 1 /\ read'[c] \in Seq(Frames) /\ Last(read'[c]) = frame
    BY <2>2 DEF Last
  <2>9. TypeOK'
    <3>1. pc' \in [Conns -> {"none", "closed"} \cup Working]
      BY <1>1, <2>6 DEF ReadFrame, TypeOK, Working, Timed
    <3>2. fp' \in [Conns -> Fingerprints] /\ read' \in [Conns -> Seq(Frames)]
      BY <1>1, <2>4, <2>8 DEF ReadFrame, TypeOK
    <3>3. Len(read'[c]) <= MaxFrames
      BY <2>2, <2>5, <2>8, FramesAssumption
    <3> QED
      BY <2>1, <2>5, <2>7, <3>1, <3>2, <3>3 DEF TypeOK, Others
  <2>10. CASE frame.type = "headers"
    <3>1. pc'[c] = "answer" /\ HeadersLast(c)'
      BY <2>1, <2>2, <2>8, <2>10 DEF HeadersLast
    <3>2. Progress(c)'
      BY <2>1, <2>4, <2>5, <3>1 DEF Progress, Spoken, StoredLast, Reading, Ended
    <3> QED
      BY <2>1, <2>5, <2>7, <2>9, <3>2, OneConnection
  <2>11. CASE frame.type # "headers"
    <3>1. ~HeadersRead(c)'
      BY <2>2, <2>5, <2>8, <2>11 DEF HeadersRead
    <3>2. /\ pc'[c] \in {"ack", "frames", "closed"}
          /\ pc'[c] = "frames" => Len(read'[c]) < MaxFrames
          /\ pc'[c] = "closed" => Len(read'[c]) = MaxFrames
      BY <2>1, <2>2, <2>5, <2>8, <2>11, FramesAssumption DEF NextTurn
    <3>3. Progress(c)'
      BY <2>1, <2>4, <2>5, <3>1, <3>2 DEF Progress, Spoken, StoredLast, Reading, Ended
    <3> QED
      BY <2>1, <2>5, <2>7, <2>9, <3>3, OneConnection
  <2> QED
    BY <2>10, <2>11
<1>2. CASE WriteSettingsAck(c)
  <2>1. /\ pc[c] = "ack" /\ pc'[c] = NextTurn(Len(read[c]))
        /\ UNCHANGED <<fp, stored, tokens, read, failed>>
    BY <1>2 DEF WriteSettingsAck, TypeOK
  <2>2. /\ stored[c] = None /\ c \notin tokens /\ ~HeadersRead(c)
        /\ fp[c].protocol = "h2"
    BY <2>1 DEF Progress, Spoken, StoredLast, Reading
  <2>3. Len(read[c]) \in Nat /\ Len(read[c]) <= MaxFrames
    BY DEF TypeOK
  <2>4. /\ pc'[c] \in {"frames", "closed"}
        /\ pc'[c] = "frames" => Len(read[c]) < MaxFrames
        /\ pc'[c] = "closed" => Len(read[c]) = MaxFrames
    BY <2>1, <2>3, FramesAssumption DEF NextTurn
  <2>5. TypeOK' /\ Others(c)
    BY <1>2, <2>4 DEF WriteSettingsAck, NextTurn, TypeOK, Others, Working, Timed
  <2>6. Progress(c)'
    BY <2>1, <2>2, <2>4 DEF Progress, Spoken, StoredLast, Reading, Ended, HeadersRead
  <2> QED
    BY <2>1, <2>2, <2>5, <2>6, OneConnection
<1> QED
  BY <1>1, <1>2

\* Storing and answering.
LEMMA ClosingStep ==
  ASSUME H2Inv, NEW c \in Conns,
         BestEffort(c) \/ StoreFingerprint(c) \/ StoreFails(c) \/ Respond(c)
  PROVE  H2Inv'
<1> USE DEF H2Inv, Goto
<1>1. ASSUME BestEffort(c) \/ StoreFingerprint(c) \/ StoreFails(c)
      PROVE  H2Inv'
  <2>1. pc[c] \in {"best effort", "answer"} /\ UNCHANGED <<fp, tokens, read>>
    BY <1>1 DEF BestEffort, StoreFingerprint, StoreFails
  <2>2. stored' \in {stored, [stored EXCEPT ![c] = fp[c]]}
    BY <1>1 DEF BestEffort, StoreFingerprint, StoreFails
  <2>3. failed' \in {failed, failed \cup {c}}
    BY <1>1 DEF BestEffort, StoreFingerprint, StoreFails
  <2>4. pc' \in {[pc EXCEPT ![c] = "respond"], [pc EXCEPT ![c] = "closed"]}
    BY <1>1 DEF BestEffort, StoreFingerprint, StoreFails
  <2>5. /\ pc'[c] \in {"respond", "closed"}
        /\ pc'[c] = "closed" => c \in failed'
        /\ pc[c] = "answer" /\ pc'[c] = "respond" => stored'[c] = fp[c]
    BY <1>1 DEF BestEffort, StoreFingerprint, StoreFails, TypeOK
  <2>6. c \notin tokens /\ stored[c] = None
    BY <2>1 DEF Progress, StoredLast
  <2>7. Others(c)
    BY <2>1, <2>2, <2>3, <2>4 DEF TypeOK, Others
  <2>8. TypeOK'
    <3>1. stored' \in [Conns -> Fingerprints \cup {None}] /\ failed' \in SUBSET Conns
      BY <2>2, <2>3 DEF TypeOK
    <3>2. pc' \in [Conns -> {"none", "closed"} \cup Working]
      BY <2>4 DEF TypeOK, Working, Timed
    <3>3. stored'[c] \in {None, fp[c]}
      BY <2>2, <2>6 DEF TypeOK
    <3> QED
      BY <2>1, <2>7, <3>1, <3>2, <3>3 DEF TypeOK, Others
  <2>9. Progress(c)'
    <3>1. CASE pc[c] = "best effort"
      BY <2>1, <2>5, <2>6, <3>1 DEF Progress, Spoken, StoredLast, Reading, Ended
    <3>2. CASE pc[c] = "answer"
      BY <2>1, <2>5, <2>6, <3>2 DEF Progress, Spoken, StoredLast, Reading, Ended, HeadersLast
    <3> QED
      BY <2>1, <3>1, <3>2
  <2> QED
    BY <2>1, <2>6, <2>7, <2>8, <2>9, OneConnection
<1>2. CASE Respond(c)
  <2>1. /\ pc[c] = "respond" /\ pc'[c] = "closed" /\ c \in tokens'
        /\ UNCHANGED <<fp, stored, read, failed>>
    BY <1>2 DEF Respond, TypeOK
  <2>2. fp[c].protocol = "h2" => HeadersLast(c) /\ stored[c] = fp[c]
    BY <2>1 DEF Progress, StoredLast, Reading
  <2>3. TypeOK' /\ Others(c)
    BY <1>2 DEF Respond, TypeOK, Others, Working, Timed
  <2>4. Progress(c)'
    BY <2>1, <2>2 DEF Progress, Spoken, StoredLast, Reading, Ended, HeadersLast
  <2> QED
    BY <2>1, <2>2, <2>3, <2>4, OneConnection
<1> QED
  BY <1>1, <1>2

\* The invariant is inductive.
LEMMA H2Invariant == Spec => []H2Inv
<1>1. H2Inv /\ [Next]_vars => H2Inv'
  <2> SUFFICES ASSUME H2Inv, [Next]_vars PROVE H2Inv'
    OBVIOUS
  <2>1. ASSUME NEW c \in Conns, OwnStep(c) PROVE H2Inv'
    BY <2>1, OpeningStep, LoopStep, ClosingStep DEF OwnStep
  <2>2. ASSUME NEW c \in Conns, ClientStep(c) PROVE H2Inv'
    BY <2>2, OpeningStep, LoopStep DEF ClientStep
  <2>3. ASSUME NEW c \in Conns, Trouble(c) PROVE H2Inv'
    BY <2>3, FailsStep, ClosingStep DEF Trouble, HandshakeFails, GenerateTokenFails, IoFails
  <2>4. ASSUME NEW c \in Conns, Deadline(c) PROVE H2Inv'
    BY <2>4, FailsStep, OpeningStep DEF Deadline, Timed
  <2>5. CASE UNCHANGED vars
    BY <2>5 DEF vars, H2Inv, TypeOK, Http2TokensResolve, Progress, Spoken, StoredLast,
       Reading, Ended, HeadersRead, HeadersLast
  <2> QED
    BY <2>1, <2>2, <2>3, <2>4, <2>5 DEF Next, AllClosed
<1> QED
  BY <1>1, H2Init, PTL DEF Spec

------------------------------------------------------------------------------
(* The theorems. *)

\* The variables have their types, and no more frames are read than allowed.
THEOREM H2TypeCorrect == Spec => []TypeOK
<1>1. H2Inv => TypeOK
  BY DEF H2Inv
<1> QED
  BY <1>1, H2Invariant, PTL

\* An HTTP/2 client that has a token finds its fingerprint, whatever fails.
THEOREM Http2TokensResolveHolds == Spec => []Http2TokensResolve
<1>1. H2Inv => Http2TokensResolve
  BY DEF H2Inv
<1> QED
  BY <1>1, H2Invariant, PTL

\* The loop answers exactly the clients whose HEADERS came within the limit,
\* for any limit and any frames before them.
THEOREM AnsweredWithinLimitHolds == Spec => []AnsweredWithinLimit
<1>1. H2Inv => AnsweredWithinLimit
  <2> SUFFICES ASSUME H2Inv, NEW c \in Conns, pc[c] = "closed", c \notin failed,
                      fp[c].protocol = "h2"
               PROVE  /\ c \in tokens <=> \E n \in DOMAIN read[c] : read[c][n].type = "headers"
                      /\ c \in tokens => Last(read[c]).type = "headers"
                      /\ c \notin tokens => Len(read[c]) = MaxFrames
    BY DEF AnsweredWithinLimit
  <2>1. Ended(c) /\ read[c] \in Seq(Frames)
    BY DEF H2Inv, Progress, TypeOK
  <2>2. HeadersLast(c) => HeadersRead(c)
    BY <2>1 DEF HeadersLast, HeadersRead, Last
  <2> QED
    BY <2>1, <2>2 DEF Ended, HeadersRead, HeadersLast
<1> QED
  BY <1>1, H2Invariant, PTL

------------------------------------------------------------------------------
(* Induction over numbers, and the concatenation of lists. *)

LEMMA Least ==
  ASSUME NEW T \in SUBSET Nat, T # {}
  PROVE  \E x \in T : \A y \in T : ~(y < x)
<1>1. IsWellFoundedOn(OpToRel(<, Nat), Nat)
  BY NatLessThanWellFounded
<1>2. \E x \in T : \A y \in T : <<y, x>> \notin OpToRel(<, Nat)
  BY <1>1, WFMin
<1> QED
  BY <1>2 DEF OpToRel

\* Induction, for a set of numbers in place of a predicate.
LEMMA SetInduction ==
  ASSUME NEW S \in SUBSET Nat, 0 \in S, \A n \in S : n + 1 \in S
  PROVE  S = Nat
<1>1. SUFFICES ASSUME Nat \ S # {} PROVE FALSE
  OBVIOUS
<1>2. PICK x \in Nat \ S : \A y \in Nat \ S : ~(y < x)
  BY <1>1, Least
<1>3. x - 1 \in S
  BY <1>2
<1> QED
  BY <1>2, <1>3

LEMMA MaxIsGreatest ==
  ASSUME NEW n \in Nat, NEW S \in SUBSET (1 .. n), S # {}
  PROVE  Max(S) \in S /\ \A x \in S : x <= Max(S)
<1> DEFINE T == {n - x : x \in S}
<1>1. T \in SUBSET Nat /\ T # {}
  <2>1. \A x \in S : x \in Nat /\ n - x \in Nat
    OBVIOUS
  <2>2. PICK x \in S : TRUE
    OBVIOUS
  <2>3. n - x \in T
    BY <2>2
  <2> QED
    BY <2>1, <2>3
<1>2. PICK t \in T : \A y \in T : ~(y < t)
  BY <1>1, Least
<1>3. PICK m \in S : t = n - m
  BY <1>2
<1>4. ASSUME NEW x \in S PROVE m >= x
  <2>1. n - x \in T /\ x \in 1 .. n /\ m \in 1 .. n
    BY <1>4
  <2> HIDE DEF T
  <2> QED
    BY <1>2, <1>3, <2>1
<1>5. Max(S) \in S /\ \A x \in S : Max(S) >= x
  BY <1>4 DEF Max
<1> QED
  BY <1>5

Joined(s, t) == s \o t

\* The recursion of FlattenSeq: g[i] is the concatenation of the first i lists.
Concatenates(g, lists, n) ==
  \A i \in 1 .. n : g[i] = IF i = 1 THEN lists[i] ELSE Joined(g[i - 1], lists[i])

LEMMA ConcatenationGrows ==
  ASSUME NEW S, NEW m \in Nat, NEW lists, lists[m + 1] \in Seq(S),
         NEW g \in [1 .. m -> Seq(S)], Concatenates(g, lists, m)
  PROVE  \E h \in [1 .. m + 1 -> Seq(S)] : Concatenates(h, lists, m + 1)
<1> DEFINE next == IF m = 0 THEN lists[m + 1] ELSE Joined(g[m], lists[m + 1])
           h == [i \in 1 .. m + 1 |-> IF i <= m THEN g[i] ELSE next]
<1>1. next \in Seq(S)
  <2>1. m # 0 => g[m] \in Seq(S)
    OBVIOUS
  <2> QED
    BY <2>1 DEF Joined
<1>2. h \in [1 .. m + 1 -> Seq(S)]
  <2> HIDE DEF next
  <2> QED
    BY <1>1
<1>3. ASSUME NEW i \in 1 .. m + 1
      PROVE  h[i] = IF i = 1 THEN lists[i] ELSE Joined(h[i - 1], lists[i])
  <2>1. CASE i <= m
    <3>1. h[i] = g[i] /\ (i # 1 => h[i - 1] = g[i - 1])
      BY <2>1
    <3>2. i \in 1 .. m
      BY <2>1
    <3>3. g[i] = IF i = 1 THEN lists[i] ELSE Joined(g[i - 1], lists[i])
      BY <3>2, Zenon DEF Concatenates
    <3> HIDE DEF h
    <3> QED
      BY <3>1, <3>3
  <2>2. CASE i = m + 1
    <3>1. h[i] = next /\ (i # 1 => h[i - 1] = g[m])
      BY <2>2
    <3> HIDE DEF h
    <3> QED
      BY <2>2, <3>1
  <2> QED
    BY <2>1, <2>2
<1>4. Concatenates(h, lists, m + 1)
  <2> HIDE DEF h
  <2> QED
    BY <1>3 DEF Concatenates
<1> QED
  BY <1>2, <1>4

LEMMA ConcatenationExists ==
  ASSUME NEW S, NEW lists \in Seq(Seq(S))
  PROVE  \E g \in [1 .. Len(lists) -> Seq(S)] : Concatenates(g, lists, Len(lists))
<1> DEFINE Has(m) == \E g \in [1 .. m -> Seq(S)] : Concatenates(g, lists, m)
           T == {m \in Nat : m <= Len(lists) => Has(m)}
<1>1. 0 \in T
  <2>1. [i \in 1 .. 0 |-> <<>>] \in [1 .. 0 -> Seq(S)]
    OBVIOUS
  <2>2. Concatenates([i \in 1 .. 0 |-> <<>>], lists, 0)
    BY DEF Concatenates
  <2> QED
    BY <2>1, <2>2
<1>2. ASSUME NEW m \in T PROVE m + 1 \in T
  <2> SUFFICES ASSUME m + 1 <= Len(lists) PROVE Has(m + 1)
    BY <1>2
  <2>1. m \in Nat /\ lists[m + 1] \in Seq(S) /\ m <= Len(lists)
    BY <1>2
  <2>2. PICK g \in [1 .. m -> Seq(S)] : Concatenates(g, lists, m)
    BY <1>2, <2>1
  <2> QED
    BY <2>1, <2>2, ConcatenationGrows
<1> HIDE DEF Has
<1>3. T = Nat
  BY <1>1, <1>2, SetInduction
<1>4. Has(Len(lists))
  BY <1>3
<1> QED
  BY <1>4 DEF Has

LEMMA FlattenIsLast ==
  ASSUME NEW S, NEW lists \in Seq(Seq(S)), lists # <<>>,
         NEW g \in [1 .. Len(lists) -> Seq(S)], Concatenates(g, lists, Len(lists))
  PROVE  FlattenSeq(lists) = g[Len(lists)]
<1> DEFINE Unfold(f) == [i \in 1 .. Len(lists) |-> IF i = 1 THEN lists[i] ELSE Joined(f[i - 1], lists[i])]
           flat == CHOOSE f : f = Unfold(f)
<1>1. FlattenSeq(lists) = flat[Len(lists)] /\ Len(lists) \in Nat /\ Len(lists) >= 1
  BY DEF FlattenSeq, Joined
<1>2. g = Unfold(g)
  BY DEF Concatenates
<1>3. flat = Unfold(flat)
  <2> HIDE DEF Unfold
  <2> QED
    BY <1>2
<1> HIDE DEF flat
<1>4. Concatenates(flat, lists, Len(lists))
  <2> SUFFICES ASSUME NEW i \in 1 .. Len(lists)
               PROVE  flat[i] = IF i = 1 THEN lists[i] ELSE Joined(flat[i - 1], lists[i])
    BY DEF Concatenates
  <2>1. flat[i] = Unfold(flat)[i]
    BY <1>3
  <2>2. Unfold(flat)[i] = IF i = 1 THEN lists[i] ELSE Joined(flat[i - 1], lists[i])
    OBVIOUS
  <2> HIDE DEF Unfold
  <2> QED
    BY <2>1, <2>2
<1> HIDE DEF Unfold
<1> DEFINE T == {m \in Nat : m + 1 <= Len(lists) => flat[m + 1] = g[m + 1]}
<1>5. 0 \in T
  <2>1. 1 \in 1 .. Len(lists)
    BY <1>1
  <2>2. flat[1] = lists[1] /\ g[1] = lists[1]
    BY <1>4, <2>1 DEF Concatenates
  <2> QED
    BY <2>2
<1>6. ASSUME NEW m \in T PROVE m + 1 \in T
  <2> SUFFICES ASSUME m + 2 <= Len(lists) PROVE flat[m + 2] = g[m + 2]
    BY <1>6
  <2>1. m \in Nat /\ flat[m + 1] = g[m + 1]
    BY <1>6
  <2>2. PICK k \in 1 .. Len(lists) : k = m + 2
    BY <1>1, <2>1
  <2>3. k # 1 /\ k - 1 = m + 1
    BY <2>1, <2>2
  <2>4. ASSUME NEW f, Concatenates(f, lists, Len(lists))
        PROVE  f[k] = Joined(f[k - 1], lists[k])
    <3>1. f[k] = IF k = 1 THEN lists[k] ELSE Joined(f[k - 1], lists[k])
      BY <2>4, Zenon DEF Concatenates
    <3> QED
      BY <2>3, <3>1
  <2>5. /\ flat[k] = Joined(flat[k - 1], lists[k])
        /\ g[k] = Joined(g[k - 1], lists[k])
    BY <1>4, <2>4
  <2> QED
    BY <2>1, <2>2, <2>3, <2>4, <2>5
<1>7. T = Nat
  BY <1>5, <1>6, SetInduction
<1>8. PICK k \in Nat : k + 1 = Len(lists)
  <2>1. Len(lists) - 1 \in Nat /\ (Len(lists) - 1) + 1 = Len(lists)
    BY <1>1
  <2> QED
    BY <2>1
<1>9. k + 1 <= Len(lists) => flat[k + 1] = g[k + 1]
  BY <1>7
<1>10. flat[k + 1] = g[k + 1]
  BY <1>8, <1>9
<1> QED
  BY <1>1, <1>8, <1>10

\* FlattenSeq takes in one list after the other.
LEMMA FlattenAppend ==
  ASSUME NEW S, NEW lists \in Seq(Seq(S)), NEW list \in Seq(S)
  PROVE  FlattenSeq(Append(lists, list)) = FlattenSeq(lists) \o list
<1> DEFINE more == Append(lists, list)
           n == Len(lists)
<1>1. more \in Seq(Seq(S)) /\ more # <<>> /\ Len(more) = n + 1 /\ n \in Nat
  <2>1. more \in Seq(Seq(S)) /\ Len(more) = Len(lists) + 1 /\ Len(lists) \in Nat
    OBVIOUS
  <2> HIDE DEF more
  <2> QED
    BY <2>1
<1>2. more[n + 1] = list /\ \A i \in 1 .. n : more[i] = lists[i]
  OBVIOUS
<1> HIDE DEF more
<1>3. PICK h \in [1 .. n + 1 -> Seq(S)] : Concatenates(h, more, n + 1)
  BY <1>1, ConcatenationExists
<1>4. FlattenSeq(more) = h[n + 1]
  BY <1>1, <1>3, FlattenIsLast
<1>5. n + 1 \in 1 .. n + 1
  BY <1>1
<1>6. CASE n = 0
  <2>1. FlattenSeq(lists) = <<>>
    BY <1>6 DEF FlattenSeq
  <2>2. h[n + 1] = list
    BY <1>2, <1>3, <1>5, <1>6 DEF Concatenates
  <2> QED
    BY <1>4, <2>1, <2>2 DEF more
<1>7. CASE n # 0
  <2>1. h[n + 1] = Joined(h[n], list)
    <3>1. n + 1 # 1 /\ (n + 1) - 1 = n
      BY <1>1, <1>7
    <3>2. h[n + 1] = Joined(h[(n + 1) - 1], more[n + 1])
      <4>1. h[n + 1] = IF n + 1 = 1 THEN more[n + 1]
                       ELSE Joined(h[(n + 1) - 1], more[n + 1])
        BY <1>3, <1>5, Zenon DEF Concatenates
      <4> QED
        BY <3>1, <4>1
    <3> QED
      BY <1>2, <3>1, <3>2
  <2> DEFINE g == [i \in 1 .. n |-> h[i]]
  <2>2. g \in [1 .. n -> Seq(S)] /\ g[n] = h[n] /\ \A i \in 1 .. n : g[i] = h[i]
    BY <1>1, <1>3, <1>7
  <2> HIDE DEF g
  <2>3. ASSUME NEW i \in 1 .. n PROVE g[i] = IF i = 1 THEN lists[i] ELSE Joined(g[i - 1], lists[i])
    <3>1. i \in 1 .. n + 1
      BY <1>1
    <3>2. i # 1 => i - 1 \in 1 .. n
      BY <1>1
    <3>3. h[i] = IF i = 1 THEN more[i] ELSE Joined(h[i - 1], more[i])
      BY <1>3, <3>1, Zenon DEF Concatenates
    <3>4. CASE i = 1
      BY <1>2, <2>2, <3>3, <3>4
    <3>5. CASE i # 1
      <4>1. g[i] = h[i] /\ g[i - 1] = h[i - 1] /\ more[i] = lists[i]
        BY <1>2, <2>2, <3>2, <3>5, Zenon
      <4> QED
        BY <3>3, <3>5, <4>1, Zenon
    <3> QED
      BY <3>4, <3>5
  <2>4. Concatenates(g, lists, n)
    BY <2>3 DEF Concatenates
  <2>5. FlattenSeq(lists) = g[n]
    BY <1>7, <2>2, <2>4, FlattenIsLast
  <2> QED
    BY <1>4, <2>1, <2>2, <2>5 DEF more, Joined
<1> QED
  BY <1>6, <1>7

------------------------------------------------------------------------------
(* What is stored is what was sent. *)

\* What the frames hold, when one more was read.
LEMMA HeldOfMore ==
  ASSUME NEW frames \in Seq(Frames), NEW frame \in Frames
  PROVE  LET more == Append(frames, frame)
         IN /\ FlattenSeq([n \in DOMAIN more |-> SettingsOf(more[n])])
                 = FlattenSeq([n \in DOMAIN frames |-> SettingsOf(frames[n])]) \o SettingsOf(frame)
            /\ FlattenSeq([n \in DOMAIN more |-> PrioritiesOf(more[n])])
                 = FlattenSeq([n \in DOMAIN frames |-> PrioritiesOf(frames[n])]) \o PrioritiesOf(frame)
<1> DEFINE more == Append(frames, frame)
<1>1. ASSUME NEW f \in Frames
      PROVE  SettingsOf(f) \in Seq(Settings) /\ PrioritiesOf(f) \in Seq(Priorities)
  BY FrameTypes DEF SettingsOf, PrioritiesOf
<1>2. /\ DOMAIN frames = 1 .. Len(frames) /\ DOMAIN more = 1 .. Len(frames) + 1
      /\ \A n \in 1 .. Len(frames) : frames[n] \in Frames /\ more[n] = frames[n]
      /\ more[Len(frames) + 1] = frame
      /\ Len(frames) \in Nat
  OBVIOUS
<1> HIDE DEF more
<1>3. FlattenSeq([n \in DOMAIN more |-> SettingsOf(more[n])])
        = FlattenSeq([n \in DOMAIN frames |-> SettingsOf(frames[n])]) \o SettingsOf(frame)
  <2> DEFINE held == [n \in DOMAIN frames |-> SettingsOf(frames[n])]
             moreHeld == [n \in DOMAIN more |-> SettingsOf(more[n])]
  <2>1. held \in Seq(Seq(Settings)) /\ Len(held) = Len(frames)
    BY <1>1, <1>2
  <2>2. moreHeld = Append(held, SettingsOf(frame))
    BY <1>1, <1>2
  <2> HIDE DEF held, moreHeld
  <2>3. FlattenSeq(moreHeld) = FlattenSeq(held) \o SettingsOf(frame)
    BY <1>1, <2>1, <2>2, FlattenAppend
  <2> QED
    BY <2>3 DEF held, moreHeld
<1>4. FlattenSeq([n \in DOMAIN more |-> PrioritiesOf(more[n])])
        = FlattenSeq([n \in DOMAIN frames |-> PrioritiesOf(frames[n])]) \o PrioritiesOf(frame)
  <2> DEFINE held == [n \in DOMAIN frames |-> PrioritiesOf(frames[n])]
             moreHeld == [n \in DOMAIN more |-> PrioritiesOf(more[n])]
  <2>1. held \in Seq(Seq(Priorities)) /\ Len(held) = Len(frames)
    BY <1>1, <1>2
  <2>2. moreHeld = Append(held, PrioritiesOf(frame))
    BY <1>1, <1>2
  <2> HIDE DEF held, moreHeld
  <2>3. FlattenSeq(moreHeld) = FlattenSeq(held) \o PrioritiesOf(frame)
    BY <1>1, <2>1, <2>2, FlattenAppend
  <2> QED
    BY <2>3 DEF held, moreHeld
<1> QED
  BY <1>3, <1>4 DEF more

\* What the window is, by the frames read.
WindowRead(c) ==
  IF ConnectionUpdates(c) = {} THEN 0 ELSE Latest(c, ConnectionUpdates(c)).increment

\* At any time the fingerprint is what the frames read so far say.
Reflects(c) ==
  /\ fp[c].settings = AllOf(c, SettingsOf)
  /\ fp[c].priorities = AllOf(c, PrioritiesOf)
  /\ fp[c].window = WindowRead(c)
  /\ HeadersLast(c) => fp[c].order = Last(read[c]).order
  /\ stored[c] # None /\ fp[c].protocol = "h2" => HeadersLast(c)

LEMMA FrameReflected ==
  ASSUME H2Inv, NEW c \in Conns, Reflects(c), NEW frame \in Frames, ReadFrame(c, frame)
  PROVE  Reflects(c)'
<1>1. read'[c] = Append(read[c], frame) /\ read[c] \in Seq(Frames) /\ pc[c] = "frames"
  BY DEF ReadFrame, H2Inv, TypeOK
<1>2. fp'[c] = Captured(fp[c], frame) /\ fp[c] \in Fingerprints
  BY DEF ReadFrame, H2Inv, TypeOK
<1>3. stored'[c] = None
  BY <1>1 DEF ReadFrame, H2Inv, Progress, StoredLast
<1>4. /\ AllOf(c, SettingsOf)' = AllOf(c, SettingsOf) \o SettingsOf(frame)
      /\ AllOf(c, PrioritiesOf)' = AllOf(c, PrioritiesOf) \o PrioritiesOf(frame)
  BY <1>1, HeldOfMore DEF AllOf
<1>5. WindowRead(c)' = IF frame.type = "windowUpdate" /\ frame.stream = 0
                         THEN frame.increment ELSE WindowRead(c)
  <2> DEFINE n == Len(read[c])
             updates == ConnectionUpdates(c)
  <2>1. /\ n \in Nat /\ DOMAIN read[c] = 1 .. n /\ DOMAIN read'[c] = 1 .. n + 1
        /\ \A k \in 1 .. n : read'[c][k] = read[c][k]
        /\ read'[c][n + 1] = frame
    BY <1>1
  <2>2. updates \in SUBSET (1 .. n)
    BY <2>1 DEF ConnectionUpdates, Places
  <2> HIDE DEF n
  <2>3. CASE frame.type = "windowUpdate" /\ frame.stream = 0
    <3>1. n + 1 \in ConnectionUpdates(c)' /\ ConnectionUpdates(c)' \in SUBSET (1 .. n + 1)
      BY <2>1, <2>3 DEF ConnectionUpdates, Places
    <3>2. Max(ConnectionUpdates(c)') \in 1 .. n + 1 /\ n + 1 <= Max(ConnectionUpdates(c)')
      BY <2>1, <3>1, MaxIsGreatest
    <3>3. Max(ConnectionUpdates(c)') = n + 1
      BY <2>1, <3>2
    <3> QED
      BY <2>1, <2>3, <3>1, <3>3 DEF WindowRead, Latest
  <2>4. CASE ~(frame.type = "windowUpdate" /\ frame.stream = 0)
    <3>1. ConnectionUpdates(c)' = updates
      BY <2>1, <2>4 DEF ConnectionUpdates, Places
    <3>2. updates # {} => Max(updates) \in 1 .. n
      BY <2>1, <2>2, MaxIsGreatest
    <3> QED
      BY <2>1, <2>4, <3>1, <3>2 DEF WindowRead, Latest
  <2> QED
    BY <2>3, <2>4
<1>6. HeadersLast(c)' => frame.type = "headers" /\ Last(read[c])' = frame
  BY <1>1 DEF HeadersLast, Last
<1>7. /\ fp'[c].settings = fp[c].settings \o SettingsOf(frame)
      /\ fp'[c].priorities = fp[c].priorities \o PrioritiesOf(frame)
      /\ fp'[c].window = IF frame.type = "windowUpdate" /\ frame.stream = 0
                           THEN frame.increment ELSE fp[c].window
      /\ frame.type = "headers" => fp'[c].order = frame.order
  <2>1. fp[c].settings \in Seq(Settings) /\ fp[c].priorities \in Seq(Priorities)
    BY <1>2 DEF Fingerprints
  <2>2. fp[c].settings \o <<>> = fp[c].settings /\ fp[c].priorities \o <<>> = fp[c].priorities
    BY <2>1
  <2>3. CASE frame.type = "settings"
    BY <1>2, <2>2, <2>3 DEF Captured, SettingsOf, PrioritiesOf, SettingsAfter, Fingerprints
  <2>4. CASE frame.type = "windowUpdate"
    BY <1>2, <2>2, <2>4 DEF Captured, SettingsOf, PrioritiesOf, WindowAfter, Fingerprints
  <2>5. CASE frame.type = "priority"
    <3>1. Append(fp[c].priorities, frame.param) = fp[c].priorities \o <<frame.param>>
      <4>1. frame.param \in Priorities
        BY <2>5, FrameTypes
      <4> QED
        BY <2>1, <4>1, AppendIsConcat
    <3> QED
      BY <1>2, <2>2, <2>5, <3>1 DEF Captured, SettingsOf, PrioritiesOf, Fingerprints
  <2>6. CASE frame.type \notin {"settings", "windowUpdate", "priority"}
    BY <1>2, <2>2, <2>6 DEF Captured, SettingsOf, PrioritiesOf, Fingerprints
  <2> QED
    BY <2>3, <2>4, <2>5, <2>6
<1> QED
  BY <1>3, <1>4, <1>5, <1>6, <1>7 DEF Reflects

\* Steps that read nothing of the connection.
LEMMA StillReflects ==
  ASSUME NEW c, Reflects(c), read'[c] = read[c],
         fp'[c].settings = fp[c].settings, fp'[c].priorities = fp[c].priorities,
         fp'[c].window = fp[c].window, fp'[c].order = fp[c].order,
         stored'[c] # None /\ fp'[c].protocol = "h2" => HeadersLast(c)
  PROVE  Reflects(c)'
<1>1. /\ AllOf(c, SettingsOf)' = AllOf(c, SettingsOf)
      /\ AllOf(c, PrioritiesOf)' = AllOf(c, PrioritiesOf)
      /\ WindowRead(c)' = WindowRead(c)
      /\ HeadersLast(c)' <=> HeadersLast(c)
  BY DEF AllOf, WindowRead, ConnectionUpdates, Places, Latest, HeadersLast
<1> QED
  BY <1>1 DEF Reflects

LEMMA ReflectsStep ==
  ASSUME H2Inv, [Next]_vars, NEW c \in Conns, Reflects(c)
  PROVE  Reflects(c)'
<1> USE DEF H2Inv, TypeOK
<1>1. ASSUME NEW frame \in Frames, ReadFrame(c, frame) PROVE Reflects(c)'
  BY <1>1, FrameReflected
<1>2. fp[c] \in Fingerprints /\ stored[c] \in {None, fp[c]}
  OBVIOUS
<1>3. stored[c] # None => pc[c] \in {"respond", "closed"}
  BY DEF Progress, StoredLast
<1>4. stored[c] # None /\ fp[c].protocol = "h2" => HeadersLast(c)
  BY DEF Reflects
<1>5. pc[c] = "answer" => HeadersLast(c)
  BY DEF Progress, Reading
<1>6. ASSUME UNCHANGED <<fp, stored, read>> PROVE Reflects(c)'
  BY <1>4, <1>6, StillReflects
<1>7. ASSUME NEW d \in Conns, NEW p, fp' = [fp EXCEPT ![d].protocol = p],
             pc[d] \in {"preface", "fallback"}, UNCHANGED <<stored, read>>
      PROVE  Reflects(c)'
  <2>1. /\ fp'[c].settings = fp[c].settings /\ fp'[c].priorities = fp[c].priorities
        /\ fp'[c].window = fp[c].window /\ fp'[c].order = fp[c].order
        /\ c # d => fp'[c] = fp[c]
    BY <1>2, <1>7 DEF Fingerprints
  <2> QED
    BY <1>3, <1>4, <1>7, <2>1, StillReflects
<1>8. ASSUME NEW d \in Conns, BestEffort(d) \/ StoreFingerprint(d) \/ StoreFails(d)
      PROVE  Reflects(c)'
  <2>1. pc[d] \in {"best effort", "answer"} /\ UNCHANGED <<fp, read>>
    BY <1>8 DEF BestEffort, StoreFingerprint, StoreFails
  <2>2. stored' \in {stored, [stored EXCEPT ![d] = fp[d]]}
    BY <1>8 DEF BestEffort, StoreFingerprint, StoreFails
  <2>3. pc[c] = "best effort" => fp[c].protocol # "h2"
    BY DEF Progress, Spoken
  <2>4. stored'[c] # None /\ fp'[c].protocol = "h2" => HeadersLast(c)
    BY <1>4, <1>5, <2>1, <2>2, <2>3
  <2> QED
    BY <2>1, <2>4, StillReflects
<1>9. ASSUME NEW d \in Conns, NEW frame \in Frames, ReadFrame(d, frame), d # c PROVE Reflects(c)'
  <2>1. read'[c] = read[c] /\ fp'[c] = fp[c] /\ stored' = stored
    BY <1>9 DEF ReadFrame
  <2> QED
    BY <1>4, <2>1, StillReflects
<1>10. ASSUME NEW d \in Conns, OwnStep(d) \/ ClientStep(d) \/ Trouble(d) \/ Deadline(d)
       PROVE  Reflects(c)'
  <2>1. CASE FallbackRequest(d)
    BY <1>7, <1>10, <2>1 DEF FallbackRequest
  <2>2. CASE Preface(d)
    BY <1>7, <1>10, <2>2 DEF Preface
  <2>3. CASE BestEffort(d) \/ StoreFingerprint(d) \/ StoreFails(d)
    BY <1>8, <2>3
  <2>4. CASE \E frame \in Frames : ReadFrame(d, frame)
    BY <1>1, <1>9, <2>4
  <2>5. CASE CaptureClientHello(d) \/ WriteSettings(d) \/ WriteSettingsAck(d) \/ Respond(d)
    BY <1>6, <2>5 DEF CaptureClientHello, WriteSettings, WriteSettingsAck, Respond
  <2>6. CASE Accept(d) \/ Handshake(d)
    BY <1>6, <2>6 DEF Accept, Handshake
  <2>7. CASE Fails(d)
    BY <1>6, <2>7 DEF Fails
  <2> QED
    BY <1>10, <2>1, <2>2, <2>3, <2>4, <2>5, <2>6, <2>7
       DEF OwnStep, ClientStep, Trouble, HandshakeFails, GenerateTokenFails, IoFails, Deadline
<1>11. CASE UNCHANGED vars
  BY <1>6, <1>11 DEF vars
<1> QED
  BY <1>10, <1>11 DEF Next, AllClosed

\* What is stored for an HTTP/2 client is what its frames up to HEADERS hold
\* (main.go:454-563): all settings and priorities in the order of their frames,
\* the connection's last window update, and the order of the pseudo-headers.
THEOREM FingerprintOfFramesHolds == Spec => []FingerprintOfFrames
<1> DEFINE AllReflect == \A c \in Conns : Reflects(c)
<1>1. Init => AllReflect
  <2> SUFFICES ASSUME Init, NEW c \in Conns PROVE Reflects(c)
    OBVIOUS
  <2>1. read[c] = <<>> /\ fp[c] = EmptyFp /\ stored[c] = None
    BY DEF Init
  <2>2. AllOf(c, SettingsOf) = <<>> /\ AllOf(c, PrioritiesOf) = <<>>
    BY <2>1 DEF AllOf, FlattenSeq
  <2>3. WindowRead(c) = 0 /\ ~HeadersLast(c)
    BY <2>1 DEF WindowRead, ConnectionUpdates, Places, HeadersLast
  <2>4. fp[c].settings = <<>> /\ fp[c].priorities = <<>> /\ fp[c].window = 0
    <3>1. EmptyFp.settings = <<>> /\ EmptyFp.priorities = <<>> /\ EmptyFp.window = 0
      BY Zenon DEF EmptyFp
    <3> QED
      BY <2>1, <3>1
  <2> QED
    BY <2>1, <2>2, <2>3, <2>4 DEF Reflects
<1>2. H2Inv /\ AllReflect /\ [Next]_vars => AllReflect'
  BY ReflectsStep
<1>3. H2Inv /\ AllReflect => FingerprintOfFrames
  <2> SUFFICES ASSUME H2Inv, AllReflect, NEW c \in Conns, stored[c] # None, fp[c].protocol = "h2"
               PROVE  stored[c] =
                        [protocol   |-> "h2",
                         settings   |-> AllOf(c, SettingsOf),
                         window     |-> WindowRead(c),
                         priorities |-> AllOf(c, PrioritiesOf),
                         order      |-> Latest(c, Places(c, "headers")).order]
    BY DEF FingerprintOfFrames, WindowRead
  <2>1. stored[c] = fp[c] /\ fp[c] \in Fingerprints /\ read[c] \in Seq(Frames)
    BY DEF H2Inv, TypeOK
  <2>2. HeadersLast(c) /\ Reflects(c)
    BY DEF Reflects
  <2>3. Latest(c, Places(c, "headers")) = Last(read[c])
    <3> DEFINE n == Len(read[c])
    <3>1. n \in Nat /\ Places(c, "headers") \in SUBSET (1 .. n) /\ n \in Places(c, "headers")
      BY <2>1, <2>2 DEF Places, HeadersLast, Last
    <3>2. Max(Places(c, "headers")) \in 1 .. n /\ n <= Max(Places(c, "headers"))
      BY <3>1, MaxIsGreatest
    <3>3. Max(Places(c, "headers")) = n
      BY <3>1, <3>2
    <3> QED
      BY <3>3 DEF Latest, Last
  <2> QED
    BY <2>1, <2>2, <2>3 DEF Reflects, Fingerprints
<1> HIDE DEF AllReflect
<1> QED
  BY <1>1, <1>2, <1>3, H2Invariant, PTL DEF Spec
==============================================================================
