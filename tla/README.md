# A verification of ms-argus-sigint

TLA+ models of the probe services of this repository and of the lambdas that
keep them in DNS, the TLC configurations that check small instances of them,
and theorems about them for instances of any size, checked by TLAPS.

- [The system](#the-system)
- [What is hard about it, and what makes it correct](#what-is-hard-about-it-and-what-makes-it-correct)
- [The modules](#the-modules)
- [The runs](#the-runs)
- [What the code does not keep](#what-the-code-does-not-keep)
- [What is proved](#what-is-proved)
- [What is not modelled](#what-is-not-modelled)
- [Plan](#plan)
- [Running it](#running-it)

## The system

Probe services run on EC2 instances of auto-scaling groups and observe their
clients: a TCP/TLS probe, an HTTP/2 probe and a STUN server, all in Go. A
client gets a token and nothing else; what was measured is stored in a DynamoDB
table under the token, where the API finds it. Lambdas keep the instances in
DNS. A CloudFront function gives browsers a visitor cookie and signs tokens at
the edge, with a key that a lambda copies there. A watchdog on each instance has
its group replace the instance when the service on it stays down. Several stacks
(the stages of the pipeline) live in one account and share a hosted zone.

| component | source | state it keeps | operations |
|---|---|---|---|
| `dns-register` | `src-lambda/handlers/dns-register.ts` | per invocation `healthCheckId`; the registry row, the A record and the health check outside | on `running`: read row, describe, read tags, create check, upsert, poll, verify, put row; undo on error |
| `dns-deregister` | `src-lambda/handlers/dns-deregister.ts` | the row it read | on `shutting-down` and `terminated`: delete record, check, row |
| `dns-cleanup` | `src-lambda/handlers/dns-cleanup.ts` | scanned rows, cursor of the listing | on stack deletion: rows, then records of the zone |
| registration policy | `src-lambda/dns-registration-policy.ts` | none | owner and zone comparison, caller reference |
| event rules, lambdas | `lib/constructs/` | queued events, attempts | deliver, retry, time out |
| STUN server | `src-go/stun/main.go` | one buffer, one goroutine per datagram | read, decode, attest, answer |
| cipher package | `src-go/stun/cipher/` | keys | Feistel network, port tag, attestation payload |
| TCP/TLS probe | `src-go/tcp-probe/main.go` | `timingMap`, one goroutine per connection and request, delayed closes | accept, handshake, measure, store, answer, clean up, sweep |
| HTTP/2 probe | `src-go/h2-probe/main.go` | per connection: the fingerprint so far | handshake, preface, frames, store, answer |
| JA4 parser, RTT analysis | `src-go/*/ja4.go`, `src-go/tcp-probe/main.go` | per connection: the captured record and how much of it was replayed | capture and parse a ClientHello, compute its JA4, compare the times of a connection |
| user data, service unit, watchdog | `lib/helpers/docker-service-init.ts` | the steps done at first boot, the service process, the failure count on disk | prepare, start, restart, probe, count, mark unhealthy, reset |
| instance launcher | `lib/helpers/asg-ec2-go-launcher.ts` | the group: which instances are in service, in grace, unhealthy | launch, end the grace period, replace |
| edge function | `lib/services/tls-fingerprint-edge.ts` | none; the browser has the cookie, the key-value store the key | read the key, find or mint the visitor, sign, answer; 503 without key |
| key synchronisation | `src-lambda/handlers/sync-kvs-key.ts` | the secret and the ETag it read | on each deployment: read secret, read ETag, put key if the ETag matches |
| stacks, pipeline | `lib/stacks`, `lib/pipeline`, `bin/`, `scripts/` | none at run time | declare infrastructure |

They interact in five ways. EC2 state changes reach the lambdas as events, at
least once, in any order, to every stack. The lambdas share Route 53 and, per
stack, one table. The probes share the token table with the API. The watchdog
asks `/health`, which for the TCP and HTTP/2 probes dials the probe's own port
443, and has the group replace the instance, which makes EC2 events. The edge
function reads what the key synchronisation wrote, through replicas that lag.

## What is hard about it, and what makes it correct

**Invocations interleave** at every awaited call: a registration polls up to ten
times, a second apart, while both deregistrations of the same instance come and
go.
*A row must be the last thing to go, since it is all that a later attempt or
the cleanup knows about the record and the check; a record or check that no row
tracks must belong to a registration under way.*

**Calls fail, and may have been applied all the same; lambdas time out; events
are retried and repeated.** *All attempts for one instance must name one health
check, because Route 53 deletes only a record that matches in full; a
deregistration must take up what the attempt before it left.*

**Stacks share the zone and see each other's events.** *Only the owner of an
instance may register it, and a cleanup should not reach what another stack has
registered.*

**Goroutines share a buffer, a map and a clock.** The STUN loop overwrites the
buffer that goroutines are decoding. *An attestation must be of, and go to, the
right client, and be as fresh as it claims.* The TCP probe finds the timing of a
connection by an address that is used again, and reads one field without the
lock. *What a token leads to must have been measured on the connection that
asked.*

**A ClientHello is read twice**, by the probe and, through `peekConn`, by the TLS
stack, while it arrives in pieces, perhaps damaged, against a deadline. *The TLS
stack must read what the client sent; the JA4 must be of what the client offers,
whatever the order and the GREASE values it mixes in; no length in the message
may lead the parser beyond it.*

**Storing fails while clients wait, and clients are silent.** *A token must not
reach its client before the fingerprint is stored; every exchange must end.*

**A shell script guards the service**, with its count on disk, under `set -e`,
while the service dies and hangs, the machine reboots or crashes before a count
is on the disk, the metadata service and the group fail to answer, and the group
ignores calls in its grace period. *No instance may be given up unless its
service missed three probes in a row, as far as a crash lets the machine know;
one whose service stays down must be replaced in the end.*

**A secret is copied by invocations that overlap, outlive themselves and fail,
and is rotated meanwhile.** *The copy must not go back to an older secret; a
rotation must reach the edge.* **The edge function has SipHash-2-4 written out in
halves of words**, and requests of a browser overlap. *Its tokens must verify; a
browser must keep its visitor.*

## The modules

`DnsPolicy` has the three pure functions of the registration policy. A zone
reference is a record of the identifier and whether it carries Route 53's path.

`DnsLifecycle` models register and deregister. A *delivery* is one event handed
to one lambda; `pc` says before which awaited call its invocation stands, and
each action is one call with all the code up to the next `await`, its error path
included. `Start`, `Throw` and `TimeOut` are the attempts of asynchronous
invocation. `Fault` counts what fails (a call, a reply lost after the call was
applied, a time-out, tags or an address that come late), bounded by `MaxFaults`.
Route 53 is external: a caller reference in use returns the existing check and a
reference of a deleted check is refused, an UPSERT that names a missing check is
refused, a DELETE needs an exact match, and listings are sorted by name, then by
set identifier.

`DnsTeardown` extends it with `dns-cleanup`: the scan of the rows, the three
deletions per row, the pages of the listing (the next page is asked for by name
only) and the two deletions per record, interleaved with everything above until
CloudFormation removes the lambdas.

`Cipher` has the Feistel network, the port of a tag and the attestation payload.
Keyed primitives are constants: the rounds and the tag are any functions, AES is
any permutation with its inverse, exclusive or is any operation that undoes
itself. Key derivation and bytes are left out.

`StunServer` models the read loop, and a goroutine per datagram. Reading copies
the fields of a datagram one by one into the buffer (`CopyField`), decoding
reads header and transaction identifier one by one out of it, in any order, so
that a goroutine may see the fields of different datagrams and the halves of
different transaction identifiers. A transaction identifier is the number of its
datagram, in two halves. The header is one field, never torn itself, and a runt
overwrites the header only, although one of 9 to 19 bytes also reaches into the
transaction identifier: these outcomes of the race are not in the model.

`TcpProbe` models the listener that performs handshakes inside `Accept`,
`timingMap` (of each address, the connection whose timing it holds), concurrent
requests of a connection, the two words of `lastResponseTime` that are written
under the lock and read without it, the closing hook, the delayed close, the
sweep, and the end of the process when `Accept` returns an error that
`http.Server` does not take for temporary, with the restart by systemd. The two
words are written in one order; a build that swaps them changes only what
concurrent requests read.

`H2Probe` models the goroutine of a connection: capture, handshake, the fallback
for clients without HTTP/2, the frames up to HEADERS, storing, answering, and the
deadline of the exchange.

`Ja4` has `parseClientHello` and `computeJA4` over sequences of bytes; the two
probes have the same file. The repeated `d = d[n:]` becomes one operator
per part of the message (`SessionPart`, `CipherPart`, ...), each taken from the
one before it, and `Parses` says when the parser returns an error. A loop is a
function of the number of rounds: one round takes an extension or a protocol from
what is left, or leaves the loop where it is (`NextExtension`, `NextProtocol`). The
text of a fingerprint is a record of what it is made of, and the hash of a list is
the list; `sort.Slice` is the list by rank, as equal numbers cannot be told apart.

`ClientHello` is not of this repository: it is the other side, an offer of a client
(`IsOffer`) and the message it is sent in (`Hello`), by which the parser is
measured. An offer has any version, cipher suites and extensions in any order, GREASE
or not, none of them twice, and a message that fits into one record; an offer of
which the client cuts the message into several records gets no JA4, which is one of
the streams of the run.

`Measurement` models what `Accept` measures on one connection: the client's bytes
arrive, `captureClientHello` reads header and body or runs into its deadline,
`peekConn` replays what was read while the TLS stack reads in pieces, and after
the first request `analyzeRttFingerprint` compares what the kernel and the clock
said. It refines the single steps `CaptureClientHello` and `Handshake` of
`TcpProbe`, which is about many connections. Of the RTT fingerprint, the fields
that are copied are left out, ratios are represented by the round-trip time they
divide by, and floating-point rounding is left out.

`Watchdog` models the instances of a group: user data as six steps of which the
first that fails ends the rest, the service process under systemd, and
`probe-watchdog.sh` with one action per command (`ReadCount`, `ProbeSucceeds`,
`ProbeFails`, `Metadata`, `SetInstanceHealth`, `ResetCount`), so that a reboot or
the group can come between any two. `count` is the file as it is read, `fails`
the variable of the shell, and `saved` what of the file is on the disk, where the
kernel puts it in its own time (`WriteBack`), since nothing in the script syncs.
`Reboot` is orderly, and keeps the file, or a crash, which brings back what was
on the disk (`Surviving`): an older count, smaller or larger, or a truncated file,
which counts as zero. `streak`, a history variable, is the number of failed
probes since the last successful one, of the probes that no crash made the
machine forget. What user data wrote is taken to be on the disk. `Replace`
terminates the machine, with its disk. `Grants` is
what the role of the instance allows, with and without runtime secrets.
`selfProbes` tells the probes whose `/health` dials port 443 from the STUN server,
whose does not. The group's side is external: its health check is EC2's, so that
only the watchdog's call makes an instance unhealthy.

`Supervision` is what the watchdog promises, with neither script nor file: an
instance is given up only when three probes in a row were missed, and replaced
only when given up. A `Crash` takes the misses back to what was `Record`ed of
them: it may forget failed and successful probes, and it makes up none.
`Watchdog` implements it with `misses` the `streak`, `recorded` that of `saved`,
`givenUp` the instances the group holds for unhealthy and `replaced` those it
replaced; every step of an instance is a step of it or a stutter.

`KeySync` models the lambda that copies the secret, one action per awaited call,
with invocations that overlap; a PutKey that was sent before the lambda was
stopped may arrive later (`StrayPut`); the store applies it if its ETag matches,
and replicates.

`SipHash` has the function's `_sip`, on halves of words as the code has it (`Sip`),
and SipHash-2-4 on whole words as it is defined (`SipHash24`); `Number` is the word
that two halves stand for. The size of a byte, the four rotations below half a
word and the exclusive or of two halves are constants, the last being an operator
of the language. Powers of two are a recursive function (`Pow2`).

`EdgeToken` composes the edge function with `KeySync`: requests and responses of
a browser overlap, responses set the cookie they carry, and the key the function
reads is the replica's. The function awaits once and is one action. A text is
what is signed, byte for byte in `CookieText` and `Canonical`; the fields of the
payload that are not signed are left out, and so is the encoding to base64 and to
UTF-8 beyond ASCII.

`MCDnsLifecycle`, `MCDnsTeardown`, `MCStunServer`, `MCTcpProbe`, `MCH2Probe`,
`MCMeasurement`, `MCWatchdog` and `MCEdgeToken` give the constants their values
for TLC; `MCMeasurement` also damages ClientHellos.
`DnsLifecycleProofs`, `DnsTeardownProofs`, `StunProofs`, `TcpProbeProofs`,
`H2ProbeProofs`, `MeasurementProofs`, `WatchdogProofs` and `EdgeProofs` have
the proofs. Operators called "faulty variant" are used by no specification:
each is a plausible mistake in the operator after it, and shows that a property
notices.

## The runs

Invariants and properties are defined at the end of the module they are about,
each with a comment.

| run | instance | what it shows |
|---|---|---|
| `dns_duplicates` | one stack, events twice, 2 attempts, 1 fault, 3 at a time | `OneCheckPerInstance` |
| `dns_once` | two stacks, 3 attempts, 2 faults, 2 polls, 2 at a time | `TypeOK`, `OwnedOnly`, `NoSilentOrphan`, `RowGoesLast`, and under fairness `DeregisteredInTheEnd`, `RegisteredInTheEnd` |
| `teardown` | two instances of one domain, pages of one record, 1 fault | `TeardownTypeOK`, `SettledAreCleaned`, `OneCheckPerInstance`, `CleanupRowGoesLast` |
| `stun` | 2 datagrams from 3 clients (one IPv6), words of 2 bits, 2 sizes, 3 types | `TypeOK`, `AttestsDestination`, `AttestedWhileHandled`, `TransactionIdsNotOlder`, `UndisturbedIsAnswered` |
| `tcp_probe` | two connections on one address, three requests | `TypeOK`, `TokenResolves`, `TokensAreOwn`, `AppRttIsElapsed`, under fairness `EntriesGo` |
| `h2_probe` | one connection, up to 4 frames, 2 settings, 2 increments | `TypeOK`, `Http2TokensResolve`, `FingerprintOfFrames`, `AnsweredWithinLimit`, under fairness `ExchangesEnd` |
| `measurement` | one connection; offers of up to 3 ciphers and 6 extensions, and one offer damaged or cut at every byte | `TypeOK`, `Transparent`, `Ja4IsOfTheOffer`, `RatiosArePlausible` |
| `watchdog` | a group of one instance and the one that replaces it, any two faults | `TypeOK`, `CountIsHonest`, `StartedPrepared`, `ReplacedAfterThree` (the refinement of `Supervision`), under fairness `DownIsReplaced` |
| `edge` | two synchronisations, one rotation, one fault, two requests, bytes of 2 bits | `EdgeTypeOK`, `KvsHoldsTheSecret`, `StableIdentity`, `TokensVerify`, under fairness `RotationReachesEdge` |
| `dns_terminated`, `teardown_foreign`, `stun_tid` | | counterexamples, see below |

Why the bounds are enough. An instance has three deliveries per stack and copy.
`dns_duplicates` runs three at a time; with the second stack of `dns_once`, whose
lambdas only look and return, there are two at a time, which is a registration
and a deregistration, or both deregistrations. One fault
reaches every single error path, two a fault in the path that handles a fault,
and three attempts outlast two faults, which is what the two liveness properties
are about. Two instances of one domain and pages of one record make the listing
go round its cursor. A race on the STUN buffer takes two datagrams, a reader and
a writer; the theorems cover any number. Two connections are what it takes to
use an address again, and three requests give two concurrent ones on the first
connection and one on the second. The limit of 20 frames is 4 in the run: it is
reached by frames that are acknowledged and frames that are not. HTTP/2
connections share nothing but the table, in which each has its own item, so one
is enough. In `measurement`, the bytes of the client may stop on their way inside
the header, at the start of the message and in the middle of it, and the TLS
stack reads 4 or 200 bytes at a time, fewer and more than the header and the
record. The offers have each extension that is parsed present, absent and in
another order, GREASE values in every list that may have them, and empty lists;
the damaged messages have every byte of a ClientHello replaced by a small and a
large one and every prefix of it, with and without the length it says it has: a
parser that read beyond the message would be an error of TLC. Times take few
values, with the limit of two seconds between them (`MaxRtt`), and both sides of
the bound of 0.8. Clocks stop at `MaxTime`; ages of the sweep are scaled to it.
In `watchdog` a service may die and hang without bound; two faults are a failed
call in the attempt after a failed call, a reboot in the middle of one, or a
crash that undoes a success and a slow answer after it, and the instance that
replaces another starts from nothing, so that a third would show nothing new.
`WriteBack` has no fairness: what is never written may be lost by any crash. In `edge`, two invocations around one rotation are an older
and a newer copy in every order, and the fault is a call that fails, a reply that
is lost or a lambda that is stopped with its PutKey under way; the theorems cover
any number of invocations, rotations and faults. Bytes of two bits
make halves of eight bits; the initial halves and rotations are scaled with them
and carries occur in every round. The signed texts have 10, 11, 15 and 16 bytes:
two blocks, a last block that is full, and one that is the length alone.

**Fairness.** DNS: EventBridge and Lambda start every delivery, and each awaited
call comes back, since the lambda's time-out bounds it. TCP probe: goroutines
that do not wait for a client run, the deadline ends the capture, systemd
restarts the service. HTTP/2 probe: goroutines run and deadlines expire.
Watchdog: systemd restarts the service (`Restart=always`) and starts the script
every minute, whose commands have time-outs; the grace period ends, and the group
replaces what is unhealthy. Edge: awaited calls come back, and the store
replicates. No browser, no client, and no EC2 instance, is ever assumed to do anything; nor does the TCP
handshake, which has no deadline, ever have to end.

**Deadlock** is checked in every run. The end of a behaviour in which nothing is
left to do is an explicit step (`AllHandled`, `TornDown`, `Idle`, `Quiet`,
`AllClosed`, `NothingLeft`, `AllServed`).

## What the code does not keep

Each of these runs checks one sentence of the documentation or of a comment, and
TLC finds a behaviour of the code that breaks it.

- `dns_terminated`: "EC2 terminate → DNS removal" (`README.md:59`). Both
  deregistrations can find no row and return while the registration is still
  polling; it then completes, and nothing is left that would remove the record of
  the terminated instance. No call fails.
- `teardown_foreign`: "Scanning Route53 for orphaned records"
  (`dns-cleanup.ts:169`). The scan takes every multivalue record of an instance
  in the zone for an orphan, also the registered ones of other stacks.
- `stun_tid`: "Use the request's transaction ID for the response"
  (`stun/main.go:238`). The buffer is read again while it is being decoded.

Other limits of the code shape what the passing properties say.

- DNS. A check that was created by a call whose identifier never reached the
  handler is named by nothing and cannot be found by any handler, so
  `NoSilentOrphan` speaks of the time before a call fails. A call that fails after
  the UPSERT makes the handler delete the check and leave the record that names
  it, which the retry cannot repair under the same reference: such an instance is
  served without a check, against `README.md:208`.
- TCP probe. The deadline is lifted before the handshake (`main.go:359`), so that
  a client that is silent in it blocks `Accept` against the comment at
  `main.go:357`; only the watchdog ends that, which is why `DownIsReplaced`
  matters. Concurrent requests of one connection may compute a negative or torn
  application RTT, so `AppRttIsElapsed` speaks of requests that were alone on
  their address. Any failed TLS handshake that `net/http` does not call temporary
  ends the process (`main.go:435`, `934`); nothing in the repository says that it
  should not, and the model has the restart.
- Capture. When the deadline passes inside a record, `captureClientHello` replays
  zeros for the bytes that did not come, or drops the part of the header that did
  (`main.go:378`, `364`), against "peekConn replays the captured bytes
  transparently" (`main.go:411`), so `Transparent` speaks of records that came in
  time; such a handshake fails anyway. `RttCorrected`, "True if kernel RTT was
  unreliable and corrected", is also set by the limit of two seconds, which
  corrects nothing (`main.go:583`), and "prefer highest non-GREASE value from
  supported_versions" (`ja4.go:208`) is the highest of these and the legacy
  version, so `Ja4Of` and `RatiosArePlausible` say what the code does.
- Watchdog. `/health` of the STUN server does not ask the STUN port, although
  `docker-service-init.ts:131` says that it probes the service itself, so
  `DownIsReplaced` speaks of the two probes that dial port 443. When a step of
  user data fails the instance stays without service or watchdog, and the group,
  which looks at EC2's checks, never notices: `DownIsReplaced` speaks of instances
  with a watchdog. The script never syncs: a crash soon after a successful probe
  may undo its reset (`docker-service-init.ts:139`) and bring back a count of two,
  and the next failed probe gives up an instance whose probes did not fail three
  times in a row, against "After 3 consecutive failures" (line 129). So
  `CountIsHonest` and `Supervision` speak of the probes no crash undid: the
  failures that are counted were all made, with no success between them that the
  machine still knows of.
- Edge. Two overlapping first requests of a browser mint two visitors, and the
  one that arrives later wins, so `StableIdentity` speaks of browsers that wait. A
  cookie's signature is not looked at, and cookies minted before a rotation keep
  their old one. Of two synchronisations that overlap, the one that read the older
  secret may write last with a fresh ETag, so `KvsHoldsTheSecret` speaks of a copy
  that no such invocation challenges.

## What is proved

TLAPS checks every theorem below for all values of the constants that satisfy the
named assumptions of the modules: any number of stacks, instances, attempts,
faults, clients and datagrams.

`DnsLifecycleProofs`:

- `TypeCorrect`, by cases on the actions; the lemmas `GotoType`, `LeaveType`,
  `ReturnType` and `ErrorType` say once what the shared ways of leaving a call
  preserve.
- `OneCheck`: the strengthening `OwnChecks` says that every check named by the
  record, a row or an invocation of an instance is *the* check of the instance's
  reference, of which `OneCheckPerInstance` is a consequence.
- `StacksKeepApart` (`OwnedOnly`), which is inductive with the type invariant.
- `RowGoesLastHolds`, assuming that no delivery is repeated. `KindInv` ties the
  calls of an invocation to the kind of its event, from which `OneRegistration`
  and `Exclusive` follow: of the invocations for one instance, at most one
  registers. `OrderInv` then says what a deregistration at each of its calls has
  already removed, and that no registration can be past its check of the row
  while the row exists, which is why nothing is put back.
- `NoSilentOrphanHolds`, assuming in addition that the listing of the
  verification is long enough for the instances (`Roomy`): until a call fails,
  every record and live check has a row or a registration, by induction over the
  order in which a registration creates and a deregistration deletes them.

`DnsTeardownProofs`:

- `TeardownTypeCorrect` and `TeardownOneCheck`: a step of the composition is a
  step of `DnsLifecycle`, whose lemmas then apply, or one of a cleanup, which only
  removes (`OnlyRemoves`, shown once for all calls in `CleanupEffect`); so what
  `DnsLifecycle` keeps is kept (`Kept`).
- `CleanupRowGoesLastHolds`, assuming that no delivery is repeated. Until a call
  fails, a row belongs to an instance whose registration has returned for good
  (`Over`, stable by `OverStays`), hence so does every row that a cleanup has
  scanned and every deregistration under way (`OverInv`): nothing that they delete
  is put back. `GoneInv` says what each of their calls finds already gone, and
  `ChecksExist` and `ItemsExist` that a check they are about to delete is one that
  Route 53 has or had, so that afterwards it is deleted.
- `SettledAreCleanedHolds`, for repeated deliveries too. `ComingInv` says that what
  a cleanup none of whose calls failed has still to delete of a settled instance it
  will come to: the row is among the scanned ones, the record in the page it has or
  on a page its cursor is not past, and no registration can add to either (`Quiet`).
  The first page is not empty as long as there is a record (`FirstOfListed`).

`StunProofs`:

- `FeistelRoundTrip`: decryption inverts encryption (`FeistelInverts`), whatever
  the rounds compute: one round is inverted (`RoundInverts`), hence four. It has
  no state, so the proof alone shows it.
- `PortIsUnprivileged`: the arithmetic of `PortFromTag`.
- `StunTypeCorrect`, with what is between the loop and the latest datagram.
- `AttestsDestinationHolds` and `AttestedWhileHandledHolds`: `AttestInv` says
  that what a goroutine holds, and every response, is either the plain address of
  its own datagram's source or an encoding of it with an epoch between arrival
  and now; `DecodeInvertsEncode` does the rest. It needs `EpochAssumption`: the
  seconds fit 32 bits.
- `UndisturbedIsAnsweredHolds`: `UndisturbedInv` says that between two reads the
  buffer holds the latest datagram (`BufferIsLatest`), so that what was decoded
  without a read in between is of that datagram.
- `TransactionIdsNotOlderHolds`: `TidInv` says that once a datagram with a
  header is copied, both halves in the buffer are at least its number, and the
  loop starts its goroutine only then.

`TcpProbeProofs`:

- `TcpTypeCorrect`, with `TcpInv`: the listener holds the connection it is busy
  with, requests run only after its handshake, responses are recorded only in
  entries that were found.
- `TokenResolvesHolds`: `StoredFirst` says that whoever is about to write a token
  has stored its fingerprint.
- `TokensAreOwnHolds`: `OwnInv` starts from the kernel's promise that an address
  has one live connection (`OneAlive`). Hence the entry at the address of an open
  connection is its own or gone (`EntryOfOpen`), although a hook removes by
  address and may remove a successor's; hence what a handler found is its own as
  long as the connection is open (`FoundOwn`), and only then is a token written.
- `AppRttIsElapsedHolds`: `ServedInv` says whose entries can be found, that
  connections are accepted before their requests arrive, and that two requests
  in flight from one address are remembered. `RttInv` adds that a recorded
  response which anybody can still reach is of the connection's time unless its
  second word is still to be stored (`Recorded`), that a handler alone at its
  address can therefore read only what was complete before it arrived
  (`Earlier`), and that what it computed is in range (`Measured`). A process that
  ends between the two words leaves a torn value, and nobody who can reach it.

`H2ProbeProofs`:

- `H2TypeCorrect`, and `Http2TokensResolveHolds` from `StoredLast`: a connection
  that is about to answer over HTTP/2 has stored what it collected. `Spoken` says
  which protocol a connection has shown when.
- `AnsweredWithinLimitHolds`: `Reading` says that a connection that still reads has
  met no HEADERS and is within the limit, `Ended` why one that stopped did. Each
  action changes one connection (`OneConnection`), so that the others are settled
  once.
- `FingerprintOfFramesHolds`: `Reflects` says that the fingerprint of a connection
  is, at every moment, what the frames read so far hold. A frame more is a frame
  more of what they hold (`HeldOfMore`), as `FlattenSeq` takes in one list after the
  other (`FlattenAppend`).

`MeasurementProofs`, from `MeasurementAssumption` and `OffersAssumption` (what a
client with an offer sends is the record of its ClientHello):

- `Ja4IsOfTheOfferHolds`: `OfferNoted` says of a client with an offer that what is
  noted is the JA4 of what the parser takes from a hello that arrived in time, and
  that is the client's, because `PeekInv` says that what was read is where it was in
  the stream (`RecordRead`). The rest is a statement about the parser, for every
  offer:
  - `HelloRead`: the fields taken from `Hello(o)` are those of `o`. A client puts
    parts one after the other (`Chain`), and each one, its length in front, is read
    from where it begins (`Vector8Reads`, `Vector16Reads`, `TwoEachReads`), of any
    bytes; `ExtensionsRead` and `ProtocolsRead` say where the loops are after n
    rounds, that they have come to the end after as many as there are, and that
    the remaining rounds change nothing. `HelloBodyRead` and `Fits` do the same for
    the fixed parts and for the lengths.
  - `Ja4IsRight`: `computeJA4` makes the JA4 of those fields. Leaving out values
    leaves the others, each as often (`WithoutCounts`), sorting by rank is a
    permutation in ascending order (`SortedOrders`), GREASE values by their bytes
    are those of RFC 8701 (`GreaseIs`), and the latest version is a maximum
    (`VersionIs`).

  The loops are functions defined by recursion; that such a function exists
  and what it comes to is proved without an induction theorem, from sets of numbers
  of rounds that have a least element (`Least`, `IterationExists`, `SameValues`).
- `MeasurementTypeCorrect`: of any bytes that parse, the fields are numbers in range
  and the JA4 is one (`FieldsTyped`, `Ja4Typed`), which holds because no
  position that the parser reads is outside the message.
- `TransparentHolds`: `Replaying` says that the TLS stack has the bytes before
  `pos` while `buf` is the prefix that was read, and all that was read afterwards.
  That prefixes grow by what follows them (`ReplayGrows`) does the rest.
- `RatiosArePlausibleHolds`: the arithmetic of the correction (`CorrectedRtt`), for
  any times.

`WatchdogProofs`:

- `WatchdogTypeCorrect`, and `CountIsHonestHolds`: `CountInv` adds to
  `CountIsHonest` that what the script has read before its probe is as honest as
  the file (`FailsAreHonest`), since the file is written from it, and that so is
  what is on the disk (`DiskIsHonest`), since a crash brings it back. Whichever
  file survives a reboot is honest then (`SurvivingIsHonest`).
- `SupervisionHolds`: `Spec => Supervised!Spec`, the refinement. Initial states
  map to initial states; a successful and a failed probe are `Answers` and
  `Misses`, marking is `GiveUp`, which `CountInv` enables, the kernel's write is
  `Record`, a reboot after which the older file is back is `Crash`, and the
  group's step is `Replace`; everything else stutters.
- `StartedPreparedHolds`, from the order in which the steps of user data end.

`EdgeProofs`, about `EdgeSpec`, whose steps are those of `KeySync`, those of the
function, and reads of the key that fail:

- `SyncTypeCorrect` and `KvsHoldsTheSecretHolds`: `SyncInv` says that no ETag is
  from the future (`EtagsSeen`), and that once the secret is copied whoever is about
  to read an ETag has the current secret, and whoever is about to write has it or
  an ETag that no longer matches (`Harmless`).
- `StableIdentityHolds`: `IdentityInv` says that until the browser has a visitor
  one request at most is out, and that from then on everything that is out carries
  the visitor of the jar and one response at most was new. What the function
  returns repeats what it was sent or is new (`ResponseRepeats`); the key plays no
  part, so rotations and refusals do not matter.
- `SipIsSipHash24`: the hash written out in halves is SipHash-2-4, for every message
  and every key of sixteen bytes or more. Each operation on two halves is that
  operation on the word: the sum with its carry (`AddNumber`), the rotation, for
  which the word is split at `P * Q` (`RotateNumber`), the swap, which rotates by a
  half (`SwapNumber`). Hence a round is a round (`RoundNumbers`), two are two, a
  block is a block (`CompressNumbers`), the loop over the blocks is the definition's
  (`AbsorbNumbers`), and the padding loop leaves the words the definition parses
  (`PaddedBytes`).
- `EdgeTypeCorrect` and `TokensVerifyHolds`: `TokenInv` says that every cookie in
  which a visitor is found has texts in it and every response is of a request that
  was answered; the rest is `SipIsSipHash24` on what is signed (`ResponseVerifies`).

Assumptions about primitives (`XorAssumption`, `AesAssumption`, `HmacAssumption`
and so on) and about values are checked by TLC for the instances of the runs.

Every invariant and every action property of the runs is proved. Only model-checked:

- all liveness (`DeregisteredInTheEnd`, `RegisteredInTheEnd`, `EntriesGo`,
  `ExchangesEnd`, `DownIsReplaced`, `RotationReachesEdge`), which TLAPS cannot
  prove from fairness.

## What is not modelled

- The texts: log lines, JSON, headers, the format of fingerprints and tokens.
- Client hints and fetch metadata, which are copied from headers.
- The distribution, favicon files and policies around the edge function, the
  fallback for a key that an operator puts by hand (no secret configured), and
  text beyond ASCII.
- A crash that loses what user data wrote: the script and the units are taken to be
  on the disk once their step is over.
- An `issuedAt` of 309 digits or more in a cookie that is well formed otherwise,
  which is `Infinity` in the canonical text of the token and `null` in the JSON;
  in the model it is one number in both.
- Rolling updates of a group, and the flags of `docker run`.
- `go-service-init.ts`, which nothing in `lib/` uses.
- Cryptography: keys are constants and primitives are functions.
- Stacks, security groups, repositories, the pipeline and the build scripts: they
  declare resources and have no behaviour of their own. What of them matters to
  the handlers (retries, time-outs, which states the rules match, that stages
  share a zone) is in the constants and actions of the DNS modules.
- The STUN tools, the information endpoints and the ACME servers, which keep no
  state; `isReservedIPv4` in `stun/main.go`, which nothing calls.

## Plan

In this order, the most important behaviour first; all but the last are done.

1. `DnsLifecycle` and its proofs: the longest-lived shared state, with the most
   ways to fail.
2. `DnsTeardown`, composed with it.
3. `Cipher` and `StunServer` with their proofs.
4. `TcpProbe` and `H2Probe`.
5. `Ja4`, `ClientHello` and `Measurement`.
6. `Watchdog` and the refinement of `Supervision`, with proofs.
7. `SipHash`, `KeySync` and `EdgeToken`, with `EdgeProofs`.
8. Proofs about `H2Probe`, `DnsTeardown` and `Measurement`, the parser last.
9. An abstract specification of "in DNS" (an instance is absent, entering, served
   or leaving, for its owner only) that `DnsLifecycle` implements under the
   conditions that hold, by a refinement mapping, checked and then proved.

## Running it

```
tlc -workers 2 -config stun.cfg MCStunServer      # any run: its cfg, its MC module
tlapm DnsLifecycleProofs.tla
tlapm DnsTeardownProofs.tla
tlapm StunProofs.tla
tlapm TcpProbeProofs.tla
tlapm H2ProbeProofs.tla
tlapm MeasurementProofs.tla
tlapm WatchdogProofs.tla
tlapm EdgeProofs.tla
```

`PROJECT.json` lists, for each module, the lines of the source that each
definition stands for; the runs with their properties; the faulty variants; the
hazards with the properties that watch them; and the theorems.
