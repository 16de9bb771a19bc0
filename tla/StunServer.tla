------------------------------ MODULE StunServer ------------------------------
(***************************************************************************)
(* The UDP STUN server (src-go/stun/main.go): one loop reads datagrams     *)
(* into one buffer and starts a goroutine for each, with a slice of that   *)
(* same buffer.  The goroutine decodes the slice while the loop may        *)
(* already be reading the next datagram into it: a data race, in which     *)
(* each word is read either before or after it is overwritten.             *)
(*                                                                         *)
(* Datagrams are numbered as they arrive, and the transaction identifier   *)
(* of a datagram is its number, in both halves (it is copied as one eight- *)
(* byte and one four-byte word).  A header is its type and the size it     *)
(* states.  Attributes are left out: the server uses none.                 *)
(***************************************************************************)
EXTENDS Cipher

CONSTANTS
  Clients,     \* sources of datagrams: records of ip and port
  V4,          \* the addresses that To4() turns into a word
  HasSecret,   \* is SIGINT_AES_KEY set?
  Sizes,       \* sizes of datagrams
  HeaderSize,  \* the size of a STUN header
  Nonces,      \* what the random source may return
  MaxDatagrams,\* bound: datagrams received
  MaxTime      \* bound: the clock, in seconds

ASSUME ClientsAssumption ==
  \A c \in Clients : c.ip \in V4 => c.ip \in Word
ASSUME SecretAssumption == HasSecret \in BOOLEAN
ASSUME SizesAssumption == Sizes \subseteq Nat /\ Sizes # {} /\ HeaderSize \in Nat
ASSUME NoncesAssumption == Nonces \subseteq Word
ASSUME StunBoundsAssumption == MaxDatagrams \in Nat /\ MaxTime \in Nat
\* The seconds fit the 32 bits of the payload until 2106.
ASSUME EpochAssumption == MaxTime < WordMod

Ids == 1 .. MaxDatagrams
MessageTypes == {"BindingRequest", "BindingIndication", "notStun"}
Headers == [type : MessageTypes, size : Sizes]
Fields == {"header", "tidHigh", "tidLow"}
Halves96 == {"tidHigh", "tidLow"}

VARIABLES
  clock,      \* time.Now().Unix()
  received,   \* datagrams received: the latest is number received
  requests,   \* of each datagram: source, type, size, and time of arrival
  unwritten,  \* fields of the latest datagram not yet copied to the buffer
  buffer,     \* buf: of each field, its value
  pc,         \* of each goroutine: where it is
  tid,        \* of each goroutine: the halves of msg.TransactionID so far
  report,     \* of each goroutine: what reportedAddress returned
  responses,  \* the responses written to the socket
  overlapped  \* history: goroutines that decoded while buf was overwritten

vars == <<clock, received, requests, unwritten, buffer, pc, tid, report,
          responses, overlapped>>

NoReport == [form |-> "none"]
Plain(c) == [form |-> "plain", ip |-> c.ip, port |-> c.port]
Attested(blob) == [form |-> "v6", blob |-> blob]
Reports == {NoReport} \cup {Plain(c) : c \in Clients}
                      \cup {Attested(blob) : blob \in Payload}

Decoding(g) == pc[g] \in {"header", "tid"}

Request == [from : Clients, type : MessageTypes, size : Sizes, at : 0 .. MaxTime]
Response == [request : Ids, to : Clients, address : Reports,
             tidHigh : 0 .. MaxDatagrams, tidLow : 0 .. MaxDatagrams,
             at : 0 .. MaxTime]

TypeOK ==
  /\ clock \in 0 .. MaxTime
  /\ received \in 0 .. MaxDatagrams
  /\ requests \in Seq(Request) /\ Len(requests) = received
  /\ unwritten \in SUBSET Fields
  /\ buffer \in [header : Headers, tidHigh : 0 .. MaxDatagrams,
                 tidLow : 0 .. MaxDatagrams]
  /\ pc \in [Ids -> {"none", "header", "tid", "report", "send", "over"}]
  /\ tid \in [Ids -> [Halves96 -> 0 .. MaxDatagrams]]
  /\ report \in [Ids -> Reports]
  /\ responses \in SUBSET Response
  /\ overlapped \in SUBSET Ids

Init ==
  /\ clock = 0
  /\ received = 0
  /\ requests = <<>>
  /\ unwritten = {}
  /\ buffer = [header |-> [type |-> "notStun", size |-> CHOOSE s \in Sizes : TRUE],
               tidHigh |-> 0, tidLow |-> 0]
  /\ pc = [g \in Ids |-> "none"]
  /\ tid = [g \in Ids |-> [h \in Halves96 |-> 0]]
  /\ report = [g \in Ids |-> NoReport]
  /\ responses = {}
  /\ overlapped = {}

------------------------------------------------------------------------------
(* The read loop. *)

\* Faulty variant: keeps no record of what is shorter than a header.
ReadBeginsWithoutRunts(from, type, size) ==
  /\ received < MaxDatagrams
  /\ received > 0 => pc[received] # "none"
  /\ received' = received + 1
  /\ requests' = IF size < HeaderSize THEN requests ELSE Append(requests,
       [from |-> from, type |-> type, size |-> size, at |-> clock])
  /\ unwritten' = Fields
  /\ overlapped' = overlapped \cup {g \in Ids : Decoding(g)}
  /\ UNCHANGED <<clock, buffer, pc, tid, report, responses>>

\* ReadFromUDP has a datagram and begins to copy it into the buffer.  What is
\* shorter than a header leaves the transaction identifier alone, as does what is
\* too short to reach it; one of 9 to 19 bytes overwrites part of it in the code.
ReadBegins(from, type, size) ==
  /\ received < MaxDatagrams
  /\ received > 0 => pc[received] # "none"
  /\ received' = received + 1
  /\ requests' = Append(requests,
       [from |-> from, type |-> type, size |-> size, at |-> clock])
  /\ unwritten' = IF size < HeaderSize THEN {"header"} ELSE Fields
  /\ overlapped' = overlapped \cup {g \in Ids : Decoding(g)}
  /\ UNCHANGED <<clock, buffer, pc, tid, report, responses>>

CopyField(f) ==
  /\ f \in unwritten
  /\ unwritten' = unwritten \ {f}
  /\ buffer' = [buffer EXCEPT ![f] =
       IF f = "header" THEN [type |-> requests[received].type,
                             size |-> requests[received].size]
                       ELSE received]
  /\ UNCHANGED <<clock, received, requests, pc, tid, report, responses, overlapped>>

\* Faulty variant: starts the goroutine before the datagram is in the buffer.
CopiedEnough == TRUE

\* ReadFromUDP has returned.
Copied == unwritten = {}

\* go handleUDPRequest(conn, remoteAddr, buf[:n])
Dispatch ==
  /\ received > 0 /\ Copied /\ pc[received] = "none"
  /\ pc' = [pc EXCEPT ![received] = "header"]
  /\ UNCHANGED <<clock, received, requests, unwritten, buffer, tid, report,
                 responses, overlapped>>

------------------------------------------------------------------------------
(* handleUDPRequest. *)

\* Faulty variant: refuses a message that fills its slice.
DecodesStrictly(g) ==
  /\ buffer.header.type = "BindingRequest"
  /\ buffer.header.size < requests[g].size

\* Decode refuses a slice shorter than a header or than the stated size, and
\* what is not STUN; other types are ignored, which has no other effect.
Decodes(g) ==
  /\ requests[g].size >= HeaderSize
  /\ buffer.header.type = "BindingRequest"
  /\ buffer.header.size <= requests[g].size

DecodeHeader(g) ==
  /\ pc[g] = "header"
  /\ pc' = [pc EXCEPT ![g] = IF Decodes(g) THEN "tid" ELSE "over"]
  /\ UNCHANGED <<clock, received, requests, unwritten, buffer, tid, report,
                 responses, overlapped>>

\* Decode copies the transaction identifier, half by half.
DecodeTransactionId(g, h) ==
  /\ pc[g] = "tid" /\ tid[g][h] = 0
  /\ tid' = [tid EXCEPT ![g][h] = buffer[h]]
  /\ pc' = [pc EXCEPT ![g] =
       IF \A k \in Halves96 \ {h} : tid[g][k] # 0 THEN "report" ELSE "tid"]
  /\ UNCHANGED <<clock, received, requests, unwritten, buffer, report, responses,
                 overlapped>>

\* Faulty variant: takes the source of the latest datagram.
LatestSource(g) == requests[received].from

\* remoteAddr
Source(g) == requests[g].from

\* reportedAddress: without a secret, for an IPv6 source, and when the random
\* source fails, the address as it is; else the attestation of it.
ReportedAddress(g) ==
  /\ pc[g] = "report"
  /\ \/ /\ HasSecret /\ Source(g).ip \in V4
        /\ \E nonce \in Nonces :
             report' = [report EXCEPT ![g] =
                          Attested(EncodePayload(Source(g).ip, clock, nonce))]
     \/ report' = [report EXCEPT ![g] = Plain(Source(g))]
  /\ pc' = [pc EXCEPT ![g] = "send"]
  /\ UNCHANGED <<clock, received, requests, unwritten, buffer, tid, responses,
                 overlapped>>

\* WriteToUDP; an error is logged only.
SendResponse(g) ==
  /\ pc[g] = "send"
  /\ pc' = [pc EXCEPT ![g] = "over"]
  /\ \/ responses' = responses \cup
          {[request |-> g, to |-> requests[g].from, address |-> report[g],
            tidHigh |-> tid[g].tidHigh, tidLow |-> tid[g].tidLow, at |-> clock]}
     \/ UNCHANGED responses
  /\ UNCHANGED <<clock, received, requests, unwritten, buffer, tid, report, overlapped>>

Tick ==
  /\ clock < MaxTime
  /\ clock' = clock + 1
  /\ UNCHANGED <<received, requests, unwritten, buffer, pc, tid, report, responses,
                 overlapped>>

Goroutine(g) ==
  \/ DecodeHeader(g)
  \/ \E h \in Halves96 : DecodeTransactionId(g, h)
  \/ ReportedAddress(g) \/ SendResponse(g)

\* The bounds are used up: the server would wait for a datagram.
Idle ==
  /\ received = MaxDatagrams /\ clock = MaxTime
  /\ \A g \in Ids : pc[g] = "over"
  /\ UNCHANGED vars

Next ==
  \/ \E c \in Clients, type \in MessageTypes, size \in Sizes : ReadBegins(c, type, size)
  \/ \E f \in Fields : CopyField(f)
  \/ Dispatch
  \/ \E g \in Ids : Goroutine(g)
  \/ Tick
  \/ Idle

Spec == Init /\ [][Next]_vars

------------------------------------------------------------------------------
(* Properties. *)

\* Whatever overwrites the buffer, a response tells a client its own address:
\* as it is, or attested so that Decode finds that address and a right tag.
AttestsDestination ==
  \A r \in responses :
    IF r.address.form = "v6"
      THEN LET d == DecodePayload(r.address.blob, r.at)
           IN d.ip = r.to.ip /\ d.validMAC
      ELSE r.address = Plain(r.to)

\* The epoch of an attestation is a time between the arrival of its request
\* and the sending of the response, so a verifier that bounds AgeSec bounds
\* the time since the client was at that address.
AttestedWhileHandled ==
  \A r \in responses :
    r.address.form = "v6" =>
      LET d == DecodePayload(r.address.blob, r.at)
      IN requests[r.request].at <= d.epoch /\ d.ageSec \in 0 .. r.at

\* The shared buffer can give a response the transaction identifier of a later
\* datagram, or half of it, but never that of an earlier one.
TransactionIdsNotOlder ==
  \A r \in responses : r.tidHigh >= r.request /\ r.tidLow >= r.request

\* A datagram that is decoded before the next one is read is answered exactly
\* if it is a binding request, with its own transaction identifier.
UndisturbedIsAnswered ==
  \A g \in 1 .. received :
    (pc[g] \in {"report", "send", "over"} /\ g \notin overlapped) =>
      tid[g] = [h \in Halves96 |->
        IF /\ requests[g].type = "BindingRequest"
           /\ requests[g].size >= HeaderSize
          THEN g ELSE 0]

\* stun/main.go:238, "Use the request's transaction ID for the response": every
\* response carries the transaction identifier of its own request.
OwnTransactionId ==
  \A r \in responses : r.tidHigh = r.request /\ r.tidLow = r.request
==============================================================================
