------------------------------- MODULE H2Probe --------------------------------
(***************************************************************************)
(* The HTTP/2 fingerprint probe (src-go/h2-probe/main.go).  Every accepted *)
(* connection has a goroutine of its own, which makes the handshake, reads *)
(* the client's frames up to its first HEADERS, stores what they tell      *)
(* about the client and answers with a token.  A client that does not      *)
(* speak HTTP/2 gets a token too, for what its TLS handshake told.         *)
(*                                                                         *)
(* The token of a connection is the connection.  What is measured of TLS,  *)
(* and the header list, is left out of the fingerprint; a setting is a     *)
(* model value that stands for its identifier and value.                   *)
(***************************************************************************)
EXTENDS Naturals, Sequences, SequencesExt

CONSTANTS
  Conns,       \* accepted connections
  Settings,    \* settings a client may send
  Increments,  \* increments of WINDOW_UPDATE frames
  Priorities,  \* contents of PRIORITY frames
  PseudoOrders,\* orders of the pseudo-headers a HEADERS frame may have
  None,        \* no pseudo-headers decoded, no fingerprint stored
  MaxFrames,   \* frames read before the goroutine gives up (20 in the code)
  MaxSettings  \* bound: settings in one frame

ASSUME FramesAssumption == MaxFrames \in Nat \ {0} /\ MaxSettings \in Nat
ASSUME IncrementsAssumption == Increments \subseteq Nat \ {0}

SettingLists == BoundedSeq(Settings, MaxSettings)

\* The frames that ReadFrame returns.  Of a WINDOW_UPDATE the stream matters;
\* "other" is any type the loop has no case for.
Frames ==
  [type : {"settings"}, ack : {FALSE}, list : SettingLists]
    \cup [type : {"settings"}, ack : {TRUE}, list : {<<>>}]
    \cup [type : {"windowUpdate"}, stream : {0, 1}, increment : Increments]
    \cup [type : {"priority"}, param : Priorities]
    \cup [type : {"headers"}, order : PseudoOrders \cup {None}]
    \cup [type : {"other"}]

VARIABLES
  pc,      \* of each connection: where its goroutine is
  fp,      \* of each connection: the fingerprint so far
  stored,  \* of each connection: the fingerprint in DynamoDB, or None
  tokens,  \* connections whose client has the token
  read,    \* history: the frames read on each connection
  failed   \* history: connections on which a call failed

vars == <<pc, fp, stored, tokens, read, failed>>

Protocols == {"", "h1", "h1-proxy", "h2"}
Fingerprints ==
  [protocol : Protocols, settings : Seq(Settings), window : Increments \cup {0},
   priorities : Seq(Priorities), order : PseudoOrders \cup {None}]
EmptyFp == [protocol |-> "", settings |-> <<>>, window |-> 0, priorities |-> <<>>,
            order |-> None]

\* The states in which conn.SetDeadline is in force.
Timed == {"fallback", "preface", "settings", "frames", "ack"}
Working == {"hello", "handshake", "answer", "best effort", "respond"} \cup Timed

TypeOK ==
  /\ pc \in [Conns -> {"none", "closed"} \cup Working]
  /\ fp \in [Conns -> Fingerprints]
  /\ stored \in [Conns -> Fingerprints \cup {None}]
  /\ read \in [Conns -> Seq(Frames)]
  /\ \A c \in Conns : Len(read[c]) <= MaxFrames /\ stored[c] \in {None, fp[c]}
  /\ tokens \in SUBSET Conns
  /\ failed \in SUBSET Conns

Init ==
  /\ pc = [c \in Conns |-> "none"]
  /\ fp = [c \in Conns |-> EmptyFp]
  /\ stored = [c \in Conns |-> None]
  /\ tokens = {}
  /\ read = [c \in Conns |-> <<>>]
  /\ failed = {}

Goto(c, next) == pc' = [pc EXCEPT ![c] = next]

\* The goroutine logs an error and returns; the deferred Close runs.
Fails(c) ==
  /\ Goto(c, "closed")
  /\ failed' = failed \cup {c}
  /\ UNCHANGED <<fp, stored, tokens, read>>

------------------------------------------------------------------------------
(* The goroutine of main. *)

Accept(c) ==
  /\ pc[c] = "none"
  /\ Goto(c, "hello")
  /\ UNCHANGED <<fp, stored, tokens, read, failed>>

\* Ends with the record, or five seconds later without it.
CaptureClientHello(c) ==
  /\ pc[c] = "hello"
  /\ Goto(c, "handshake")
  /\ UNCHANGED <<fp, stored, tokens, read, failed>>

\* Without a deadline; what comes next depends on the negotiated protocol.
Handshake(c) ==
  /\ pc[c] = "handshake"
  /\ Goto(c, "fallback") \/ Goto(c, "preface")
  /\ UNCHANGED <<fp, stored, tokens, read, failed>>

HandshakeFails(c) == pc[c] = "handshake" /\ Fails(c)

------------------------------------------------------------------------------
(* Clients without HTTP/2. *)

\* handleHTTP1Fallback reads the request; a read that fails changes nothing.
FallbackRequest(c) ==
  /\ pc[c] = "fallback"
  /\ fp' = [fp EXCEPT ![c].protocol = "h1"]
  /\ Goto(c, "best effort")
  /\ UNCHANGED <<stored, tokens, read, failed>>

\* The token is answered even if the fingerprint could not be stored.
BestEffort(c) ==
  /\ pc[c] = "best effort"
  /\ stored' \in {stored, [stored EXCEPT ![c] = fp[c]]}
  /\ failed' \in IF stored'[c] = None THEN {failed \cup {c}} ELSE {failed, failed \cup {c}}
  /\ Goto(c, "respond")
  /\ UNCHANGED <<fp, tokens, read>>

\* Without a token the answer is an error.
GenerateTokenFails(c) == pc[c] = "best effort" /\ Fails(c)

------------------------------------------------------------------------------
(* handleH2Connection. *)

Preface(c) ==
  /\ pc[c] = "preface"
  /\ \/ fp' = [fp EXCEPT ![c].protocol = "h2"] /\ Goto(c, "settings")
     \/ fp' = [fp EXCEPT ![c].protocol = "h1-proxy"] /\ Goto(c, "best effort")
  /\ UNCHANGED <<stored, tokens, read, failed>>

WriteSettings(c) ==
  /\ pc[c] = "settings"
  /\ Goto(c, "frames")
  /\ UNCHANGED <<fp, stored, tokens, read, failed>>

\* Faulty variant: overwrites the settings of an earlier frame.
LastSettings(f, frame) == frame.list

SettingsAfter(f, frame) == f.settings \o frame.list

\* Faulty variant: counts the updates of every stream, and adds them up.
WindowAddedUp(f, frame) == f.window + frame.increment

WindowAfter(f, frame) == IF frame.stream = 0 THEN frame.increment ELSE f.window

\* What a frame adds to the fingerprint.
Captured(f, frame) ==
  CASE frame.type = "settings" -> [f EXCEPT !.settings = SettingsAfter(f, frame)]
    [] frame.type = "windowUpdate" -> [f EXCEPT !.window = WindowAfter(f, frame)]
    [] frame.type = "priority" -> [f EXCEPT !.priorities = Append(@, frame.param)]
    [] frame.type = "headers" -> [f EXCEPT !.order = frame.order]
    [] OTHER -> f

\* Faulty variant: one frame too many.
ReadOn(n) == IF n <= MaxFrames THEN "frames" ELSE "closed"

\* The loop's condition, after n frames; without HEADERS there is no answer.
NextTurn(n) == IF n < MaxFrames THEN "frames" ELSE "closed"

ReadFrame(c, frame) ==
  /\ pc[c] = "frames"
  /\ read' = [read EXCEPT ![c] = Append(@, frame)]
  /\ fp' = [fp EXCEPT ![c] = Captured(@, frame)]
  /\ Goto(c, CASE frame.type = "headers" -> "answer"
              [] frame.type = "settings" /\ ~frame.ack -> "ack"
              [] OTHER -> NextTurn(Len(read[c]) + 1))
  /\ UNCHANGED <<stored, tokens, failed>>

WriteSettingsAck(c) ==
  /\ pc[c] = "ack"
  /\ Goto(c, NextTurn(Len(read[c])))
  /\ UNCHANGED <<fp, stored, tokens, read, failed>>

\* Faulty variant: as for clients without HTTP/2.
StoreBestEffort(c) ==
  /\ pc[c] = "answer"
  /\ \/ stored' = [stored EXCEPT ![c] = fp[c]]
     \/ UNCHANGED stored
  /\ Goto(c, "respond")
  /\ UNCHANGED <<fp, tokens, read, failed>>

\* Here the token is answered only after the fingerprint was stored.
StoreFingerprint(c) ==
  /\ pc[c] = "answer"
  /\ stored' = [stored EXCEPT ![c] = fp[c]]
  /\ Goto(c, "respond")
  /\ UNCHANGED <<fp, tokens, read, failed>>

\* generateToken or storeFingerprint fails, perhaps after the item was written.
StoreFails(c) ==
  /\ pc[c] = "answer"
  /\ stored' \in {stored, [stored EXCEPT ![c] = fp[c]]}
  /\ failed' = failed \cup {c}
  /\ Goto(c, "closed")
  /\ UNCHANGED <<fp, tokens, read>>

\* The response is written, and the connection closed after it.
Respond(c) ==
  /\ pc[c] = "respond"
  /\ tokens' = tokens \cup {c}
  /\ Goto(c, "closed")
  /\ UNCHANGED <<fp, stored, read, failed>>

\* A read or write fails: the client is gone or sent what is no frame.
IoFails(c) ==
  /\ pc[c] \in {"preface", "settings", "frames", "ack", "respond"}
  /\ Fails(c)

\* Faulty variant: the deadline covers the preface only.
DeadlineOfPreface(c) ==
  /\ pc[c] \in {"preface", "fallback"}
  /\ IF pc[c] = "fallback" THEN FallbackRequest(c) ELSE Fails(c)

\* The deadline of the exchange: a pending read returns with an error, which
\* the fallback ignores.
Deadline(c) ==
  /\ pc[c] \in Timed
  /\ IF pc[c] = "fallback" THEN FallbackRequest(c) ELSE Fails(c)

------------------------------------------------------------------------------
(* The specification. *)

\* What the goroutine does without waiting for its client.
OwnStep(c) ==
  \/ CaptureClientHello(c) \/ BestEffort(c) \/ WriteSettings(c)
  \/ WriteSettingsAck(c) \/ StoreFingerprint(c) \/ Respond(c)

\* What it does when its client has acted.
ClientStep(c) ==
  \/ Accept(c) \/ Handshake(c) \/ FallbackRequest(c) \/ Preface(c)
  \/ \E frame \in Frames : ReadFrame(c, frame)

Trouble(c) ==
  HandshakeFails(c) \/ GenerateTokenFails(c) \/ StoreFails(c) \/ IoFails(c)

AllClosed == (\A c \in Conns : pc[c] = "closed") /\ UNCHANGED vars

Next ==
  \/ \E c \in Conns : OwnStep(c) \/ ClientStep(c) \/ Trouble(c) \/ Deadline(c)
  \/ AllClosed

Spec == Init /\ [][Next]_vars

\* Goroutines run and deadlines expire; clients may be silent for ever.
Fairness == \A c \in Conns : WF_vars(OwnStep(c)) /\ WF_vars(Deadline(c))

FairSpec == Spec /\ Fairness

------------------------------------------------------------------------------
(* Properties. *)

\* A client that spoke HTTP/2 and has a token finds its fingerprint in the
\* table; the other clients may not, since storing theirs is best effort.
Http2TokensResolve ==
  \A c \in tokens : fp[c].protocol = "h2" => stored[c] = fp[c]

\* What a frame holds of the settings, and of the priorities.
SettingsOf(frame) == IF frame.type = "settings" THEN frame.list ELSE <<>>
PrioritiesOf(frame) == IF frame.type = "priority" THEN <<frame.param>> ELSE <<>>

AllOf(c, Held(_)) == FlattenSeq([n \in DOMAIN read[c] |-> Held(read[c][n])])

\* Where the frames of a type are among those read.
Places(c, type) == {n \in DOMAIN read[c] : read[c][n].type = type}
ConnectionUpdates(c) == {n \in Places(c, "windowUpdate") : read[c][n].stream = 0}
Latest(c, places) == read[c][Max(places)]

\* "SETTINGS in canonical Akamai format", then the window update, the PRIORITY
\* frames and the pseudo-headers: what is stored for an HTTP/2 client is all
\* its settings and priorities up to its HEADERS, in the order it sent them,
\* and its last update of the connection's window.
FingerprintOfFrames ==
  \A c \in Conns : (stored[c] # None /\ fp[c].protocol = "h2") =>
    LET updates == ConnectionUpdates(c)
    IN stored[c] =
         [protocol   |-> "h2",
          settings   |-> AllOf(c, SettingsOf),
          window     |-> IF updates = {} THEN 0 ELSE Latest(c, updates).increment,
          priorities |-> AllOf(c, PrioritiesOf),
          order      |-> Latest(c, Places(c, "headers")).order]

\* When no call failed, an HTTP/2 connection has a token in the end exactly if
\* HEADERS was among its first MaxFrames frames, and nothing was read after it.
AnsweredWithinLimit ==
  \A c \in Conns : (pc[c] = "closed" /\ c \notin failed /\ fp[c].protocol = "h2") =>
    /\ c \in tokens <=> \E n \in DOMAIN read[c] : read[c][n].type = "headers"
    /\ c \in tokens => Last(read[c]).type = "headers"
    /\ c \notin tokens => Len(read[c]) = MaxFrames

\* "Set deadline for the entire exchange": a connection whose handshake is done
\* is closed in the end, whatever the client does or fails to do.
ExchangesEnd ==
  \A c \in Conns : pc[c] \in Timed ~> pc[c] = "closed"
==============================================================================
