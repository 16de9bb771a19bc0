------------------------------- MODULE TcpProbe -------------------------------
(***************************************************************************)
(* The TCP/TLS probe (src-go/tcp-probe/main.go): a listener that performs  *)
(* each handshake inside Accept, a map from remote addresses to the timing *)
(* of their connections, the handler of warm-up and token requests, the    *)
(* hook that runs when a connection is closed, and the sweep of old        *)
(* entries.                                                                *)
(*                                                                         *)
(* A connection stands for everything measured on it; timingMap maps an    *)
(* address to the connection whose connTiming it holds.  Requests of one   *)
(* connection run concurrently (HTTP/2).  timingMu is held from the first  *)
(* to the second word that a handler stores of lastResponseTime, and for   *)
(* one step by everything else that takes it; the handler reads            *)
(* lastResponseTime without it.  A time.Time is two words: that it is set  *)
(* (wall) and the monotonic clock (ext).                                   *)
(*                                                                         *)
(* The contents of measurements and tokens are left out: the token of a    *)
(* request is the request itself.                                          *)
(***************************************************************************)
EXTENDS Integers, FiniteSets

CONSTANTS
  Conns,       \* connections
  AddressOf,   \* remote address of each: two may share it, not at one time
  Requests,    \* HTTP requests
  ConnOf,      \* the connection of each request
  Use,         \* does the request ask for a token (use=1)?
  None,        \* no connection
  SweepAge,    \* the age at which the sweep drops an entry (5 minutes)
  MaxTime      \* bound: the clock

Addresses == {AddressOf[c] : c \in Conns}

ASSUME RequestsAssumption ==
  /\ ConnOf \in [Requests -> Conns]
  /\ Use \in [Requests -> BOOLEAN]
ASSUME NoConnAssumption == None \notin Conns
ASSUME TcpBoundsAssumption == SweepAge \in Nat /\ MaxTime \in Nat

VARIABLES
  clock,      \* time.Now(); 0 is before the process accepts anything
  tcp,        \* of each connection: its state in the kernel
  listener,   \* where Accept is
  accepting,  \* the connection that Accept is busy with
  accepted,   \* of each connection: tcpAcceptTime
  timingMap,  \* of each address: the connection its entry is of, or None
  wall,       \* of each connection: the first word of lastResponseTime
  ext,        \* of each connection: the second word
  hook,       \* connections whose StateClosed hook is still to run
  closer,     \* connections whose delayed Close is still to run
  pc,         \* of each request: where its handler is
  arrived,    \* of each handler: requestArrived
  timing,     \* of each handler: the connection its entry is of, or None
  appRtt,     \* of each handler: appRttUs
  stored,     \* requests whose fingerprint is in DynamoDB
  tokens,     \* requests whose client has the token
  crowded     \* history: requests in flight together with one from their address

accept == <<listener, accepting, accepted>>
response == <<wall, ext>>
handler == <<pc, arrived, timing, appRtt>>
outcome == <<stored, tokens, crowded>>
vars == <<clock, tcp, accept, timingMap, response, hook, closer, handler, outcome>>

Working == {"lookup", "measure", "store", "write", "recordWall", "recordExt"}

TypeOK ==
  /\ clock \in 1 .. MaxTime + 1
  /\ tcp \in [Conns -> {"unborn", "queued", "accepting", "open", "closed"}]
  /\ listener \in {"accept", "hello", "handshake", "down"}
  /\ accepting \in Conns \cup {None}
  /\ accepted \in [Conns -> 0 .. MaxTime + 1]
  /\ timingMap \in [Addresses -> Conns \cup {None}]
  /\ wall \in [Conns -> BOOLEAN]
  /\ ext \in [Conns -> 0 .. MaxTime + 1]
  /\ hook \in SUBSET Conns
  /\ closer \in SUBSET Conns
  /\ pc \in [Requests -> {"none", "over"} \cup Working]
  /\ arrived \in [Requests -> 0 .. MaxTime + 1]
  /\ timing \in [Requests -> Conns \cup {None}]
  /\ appRtt \in [Requests -> Int]
  /\ stored \in SUBSET Requests
  /\ tokens \in SUBSET Requests
  /\ crowded \in SUBSET Requests

Init ==
  /\ clock = 1
  /\ tcp = [c \in Conns |-> "unborn"]
  /\ listener = "accept"
  /\ accepting = None
  /\ accepted = [c \in Conns |-> 0]
  /\ timingMap = [a \in Addresses |-> None]
  /\ wall = [c \in Conns |-> FALSE]
  /\ ext = [c \in Conns |-> 0]
  /\ hook = {}
  /\ closer = {}
  /\ pc = [r \in Requests |-> "none"]
  /\ arrived = [r \in Requests |-> 0]
  /\ timing = [r \in Requests |-> None]
  /\ appRtt = [r \in Requests |-> 0]
  /\ stored = {}
  /\ tokens = {}
  /\ crowded = {}

Unlocked == \A r \in Requests : pc[r] # "recordExt"

------------------------------------------------------------------------------
(* Clients and the kernel (external). *)

Alive(c) == tcp[c] \in {"queued", "accepting", "open"}

\* An address is used by one connection at a time.
Connect(c) ==
  /\ tcp[c] = "unborn" /\ listener # "down"
  /\ \A d \in Conns : AddressOf[d] = AddressOf[c] => ~Alive(d)
  /\ tcp' = [tcp EXCEPT ![c] = "queued"]
  /\ UNCHANGED <<clock, accept, timingMap, response, hook, closer, handler, outcome>>

\* The connection is over for either side; its serving goroutine will notice.
Closes(c) ==
  /\ tcp[c] = "open"
  /\ tcp' = [tcp EXCEPT ![c] = "closed"]
  /\ hook' = hook \cup {c}

Disconnect(c) ==
  /\ Closes(c)
  /\ UNCHANGED <<clock, accept, timingMap, response, closer, handler, outcome>>

Tick ==
  /\ clock <= MaxTime
  /\ clock' = clock + 1
  /\ UNCHANGED <<tcp, accept, timingMap, response, hook, closer, handler, outcome>>

------------------------------------------------------------------------------
(* timedTlsListener.Accept, one connection at a time. *)

AcceptTcp(c) ==
  /\ listener = "accept" /\ tcp[c] = "queued"
  /\ tcp' = [tcp EXCEPT ![c] = "accepting"]
  /\ listener' = "hello"
  /\ accepting' = c
  /\ accepted' = [accepted EXCEPT ![c] = clock]
  /\ UNCHANGED <<clock, timingMap, response, hook, closer, handler, outcome>>

\* The record arrives, or the read fails by the deadline of five seconds; then
\* there is no deadline, and the handshake begins with what was read.
CaptureClientHello ==
  /\ listener = "hello"
  /\ listener' = "handshake"
  /\ UNCHANGED <<clock, tcp, accepting, accepted, timingMap, response, hook, closer,
                 handler, outcome>>

\* Faulty variant: keeps an entry that is there.
KeepTiming(c) ==
  timingMap' = [timingMap EXCEPT ![AddressOf[c]] = IF @ = None THEN c ELSE @]

StoreTiming(c) == timingMap' = [timingMap EXCEPT ![AddressOf[c]] = c]

Handshake ==
  /\ listener = "handshake" /\ Unlocked
  /\ listener' = "accept" /\ accepting' = None
  /\ tcp' = [tcp EXCEPT ![accepting] = "open"]
  /\ StoreTiming(accepting)
  /\ UNCHANGED <<clock, accepted, response, hook, closer, handler, outcome>>

\* Accept returns the error.  http.Server.Serve goes on if it is temporary;
\* else it returns and log.Fatalf ends the process.
HandshakeFails ==
  /\ listener = "handshake"
  /\ listener' \in {"accept", "down"}
  /\ accepting' = None
  /\ tcp' = [c \in Conns |->
       IF c = accepting \/ (listener' = "down" /\ Alive(c)) THEN "closed" ELSE tcp[c]]
  /\ IF listener' = "down"
       THEN /\ timingMap' = [a \in Addresses |-> None]
            /\ hook' = {} /\ closer' = {}
            /\ pc' = [r \in Requests |-> IF pc[r] = "none" THEN "none" ELSE "over"]
       ELSE UNCHANGED <<timingMap, hook, closer, pc>>
  /\ UNCHANGED <<clock, accepted, response, arrived, timing, appRtt, outcome>>

\* systemd restarts the service.
Restart ==
  /\ listener = "down"
  /\ listener' = "accept"
  /\ UNCHANGED <<clock, tcp, accepting, accepted, timingMap, response, hook, closer,
                 handler, outcome>>

------------------------------------------------------------------------------
(* The entries of timingMap that go. *)

\* Faulty variant: leaves every entry to the sweep.
DeleteNothing(a) == UNCHANGED timingMap

DeleteEntry(a) == timingMap' = [timingMap EXCEPT ![a] = None]

\* cleanupTiming in the StateClosed hook: by address.
CleanupTiming(c) ==
  /\ c \in hook /\ Unlocked
  /\ hook' = hook \ {c}
  /\ DeleteEntry(AddressOf[c])
  /\ UNCHANGED <<clock, tcp, accept, response, closer, handler, outcome>>

Stale(a) == timingMap[a] # None /\ clock - accepted[timingMap[a]] > SweepAge

Sweep ==
  /\ Unlocked
  /\ \E a \in Addresses : Stale(a)
  /\ timingMap' = [a \in Addresses |-> IF Stale(a) THEN None ELSE timingMap[a]]
  /\ UNCHANGED <<clock, tcp, accept, response, hook, closer, handler, outcome>>

------------------------------------------------------------------------------
(* The handler of "/".  OPTIONS requests touch nothing and are left out. *)

Others(r) ==
  {q \in Requests \ {r} : /\ AddressOf[ConnOf[q]] = AddressOf[ConnOf[r]]
                          /\ pc[q] \in Working}

RequestArrives(r) ==
  /\ pc[r] = "none" /\ tcp[ConnOf[r]] = "open"
  /\ pc' = [pc EXCEPT ![r] = "lookup"]
  /\ arrived' = [arrived EXCEPT ![r] = clock]
  /\ crowded' = crowded \cup (IF Others(r) = {} THEN {} ELSE {r} \cup Others(r))
  /\ UNCHANGED <<clock, tcp, accept, timingMap, response, hook, closer, timing,
                 appRtt, stored, tokens>>

GetAndRecordHttpTime(r) ==
  /\ pc[r] = "lookup" /\ Unlocked
  /\ timing' = [timing EXCEPT ![r] = timingMap[AddressOf[ConnOf[r]]]]
  /\ pc' = [pc EXCEPT ![r] = "measure"]
  /\ UNCHANGED <<clock, tcp, accept, timingMap, response, hook, closer, arrived,
                 appRtt, outcome>>

\* Faulty variant: forgets that there may be no entry.
AfterResponseUnchecked(r) == "recordWall"

\* A response is recorded in the entry, if there is one.
AfterResponse(r) == IF timing[r] = None THEN "over" ELSE "recordWall"

\* Faulty variant: subtracts the other way round.
ElapsedBackwards(r) == ext[timing[r]] - arrived[r]

Elapsed(r) == arrived[r] - ext[timing[r]]

\* appRttUs, read without the lock; then a token request stores the fingerprint,
\* a warm-up has nothing but its response.
MeasureAppRtt(r) ==
  /\ pc[r] = "measure"
  /\ appRtt' = [appRtt EXCEPT ![r] =
       IF timing[r] # None /\ wall[timing[r]] THEN Elapsed(r) ELSE 0]
  /\ pc' = [pc EXCEPT ![r] = IF Use[r] THEN "store" ELSE AfterResponse(r)]
  /\ UNCHANGED <<clock, tcp, accept, timingMap, response, hook, closer, arrived,
                 timing, outcome>>

\* Faulty variant: a failing PutItem is logged only.
StoreOrIgnore(r) ==
  /\ pc[r] = "store"
  /\ \/ stored' = stored \cup {r}
     \/ UNCHANGED stored
  /\ pc' = [pc EXCEPT ![r] = "write"]
  /\ UNCHANGED <<clock, tcp, accept, timingMap, response, hook, closer, arrived,
                 timing, appRtt, tokens, crowded>>

\* generateToken and storeFingerprint; a failure of either answers 500, though
\* the item may have been written.
StoreFingerprint(r) ==
  /\ pc[r] = "store"
  /\ \/ stored' = stored \cup {r} /\ pc' = [pc EXCEPT ![r] = "write"]
     \/ stored' \in {stored, stored \cup {r}} /\ pc' = [pc EXCEPT ![r] = "over"]
  /\ UNCHANGED <<clock, tcp, accept, timingMap, response, hook, closer, arrived,
                 timing, appRtt, tokens, crowded>>

\* The token reaches the client if the connection is still there.
WriteToken(r) ==
  /\ pc[r] = "write"
  /\ tokens' = IF tcp[ConnOf[r]] = "open" THEN tokens \cup {r} ELSE tokens
  /\ pc' = [pc EXCEPT ![r] = AfterResponse(r)]
  /\ UNCHANGED <<clock, tcp, accept, timingMap, response, hook, closer, arrived,
                 timing, appRtt, stored, crowded>>

\* lastResponseTime = time.Now(), word by word, under the lock.
RecordWall(r) ==
  /\ pc[r] = "recordWall" /\ Unlocked
  /\ wall' = [wall EXCEPT ![timing[r]] = TRUE]
  /\ pc' = [pc EXCEPT ![r] = "recordExt"]
  /\ UNCHANGED <<clock, tcp, accept, timingMap, ext, hook, closer, arrived, timing,
                 appRtt, outcome>>

\* A token request leaves a goroutine that closes the connection of its entry.
RecordExt(r) ==
  /\ pc[r] = "recordExt"
  /\ ext' = [ext EXCEPT ![timing[r]] = clock]
  /\ closer' = IF Use[r] THEN closer \cup {timing[r]} ELSE closer
  /\ pc' = [pc EXCEPT ![r] = "over"]
  /\ UNCHANGED <<clock, tcp, accept, timingMap, wall, hook, arrived, timing, appRtt,
                 outcome>>

\* 150 ms later; closing a closed connection does nothing.
DelayedClose(c) ==
  /\ c \in closer
  /\ closer' = closer \ {c}
  /\ IF tcp[c] = "open" THEN Closes(c) ELSE UNCHANGED <<tcp, hook>>
  /\ UNCHANGED <<clock, accept, timingMap, response, handler, outcome>>

HandlerStep(r) ==
  \/ GetAndRecordHttpTime(r) \/ MeasureAppRtt(r) \/ StoreFingerprint(r)
  \/ WriteToken(r) \/ RecordWall(r) \/ RecordExt(r)

------------------------------------------------------------------------------
(* The specification. *)

\* Every client is done, and nothing is left to do.
Quiet ==
  /\ clock > MaxTime
  /\ \A c \in Conns : tcp[c] = "closed"
  /\ hook = {} /\ closer = {} /\ listener = "accept"
  /\ \A r \in Requests : pc[r] \in {"none", "over"}
  /\ UNCHANGED vars

Next ==
  \/ \E c \in Conns : \/ Connect(c) \/ Disconnect(c) \/ AcceptTcp(c)
                      \/ CleanupTiming(c) \/ DelayedClose(c)
  \/ \E r \in Requests : RequestArrives(r) \/ HandlerStep(r)
  \/ CaptureClientHello \/ Handshake \/ HandshakeFails \/ Restart
  \/ Sweep \/ Tick \/ Quiet

Spec == Init /\ [][Next]_vars

\* The process goes on with whatever does not wait for a client: the deadline
\* ends the capture, goroutines run, systemd restarts.
Fairness ==
  /\ \A c \in Conns : WF_vars(AcceptTcp(c)) /\ WF_vars(CleanupTiming(c))
                      /\ WF_vars(DelayedClose(c))
  /\ \A r \in Requests : WF_vars(HandlerStep(r))
  /\ WF_vars(CaptureClientHello) /\ WF_vars(Restart)

FairSpec == Spec /\ Fairness

------------------------------------------------------------------------------
(* Properties. *)

\* A client that has a token finds its fingerprint in the table, although
\* PutItem may fail and connections may end at any time.
TokenResolves == tokens \subseteq stored

\* Although entries are found by address and addresses are used again, what is
\* stored under a token that a client has was measured on the connection that
\* carried the request, or not at all.
TokensAreOwn == \A r \in tokens : timing[r] \in {ConnOf[r], None}

\* From an address with one request in flight at a time, the unlocked read of
\* lastResponseTime gives a time since a response on the same connection: it is
\* not negative and began no earlier than the connection.
AppRttIsElapsed ==
  \A r \in tokens \ crowded : appRtt[r] \in 0 .. arrived[r] - accepted[ConnOf[r]]

\* The entry of a connection that is closed goes, with the hook or with the
\* process.
EntriesGo ==
  \A c \in Conns :
    tcp[c] = "closed" ~> timingMap[AddressOf[c]] # c
==============================================================================
