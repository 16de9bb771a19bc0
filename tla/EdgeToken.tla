------------------------------ MODULE EdgeToken -------------------------------
(***************************************************************************)
(* The CloudFront Function of lib/services/tls-fingerprint-edge.ts, which  *)
(* gives a browser its visitor identifier in a cookie and a signed token,  *)
(* composed with the synchronisation of its key.                           *)
(*                                                                         *)
(* One action is one run of the function: it awaits the key and then runs  *)
(* to its end.  Requests and responses of a browser overlap, and a         *)
(* response that arrives sets the cookie it carries.  Text is a sequence   *)
(* of bytes, a cookie is what the function finds in it, and the fields of  *)
(* the payload that are not signed are left out.                           *)
(***************************************************************************)
EXTENDS KeySync, SipHash

CONSTANTS
  Requests,   \* of one browser, numbered
  Key,        \* the bytes of each secret
  NoCookie,   \* the browser has none
  Malformed,  \* cookies in which the function finds no visitor
  Foreign,    \* well-formed cookies the function did not sign
  Viewers,    \* what CloudFront says of the browser: ip and asn, empty if absent
  Uuid,       \* the random identifier that a request would be given
  Fpid, Bar,  \* the text "fpid" and the character |
  MaxTime     \* bound: the clock, in seconds

ASSUME RequestsAssumption == Requests \subseteq Nat
ASSUME KeyAssumption ==
  \A v \in Secrets : Key[v] \in Seq(Bytes) /\ Len(Key[v]) >= 16
ASSUME NoCookieAssumption == NoCookie \notin Malformed \cup Foreign
ASSUME ForeignAssumption == Malformed \cap Foreign = {}
ASSUME TextAssumption ==
  \A text \in {Fpid} \cup {Uuid[r] : r \in Requests} \cup {c.id : c \in Foreign}
                 \cup {v.ip : v \in Viewers} \cup {v.asn : v \in Viewers} :
    text \in Seq(Bytes \ {Bar})
ASSUME TimeAssumption ==
  /\ Bar \in Bytes /\ MaxTime \in 0 .. Bar - 1
  /\ \A c \in Foreign : c.issuedAt \in 0 .. Bar - 1

VARIABLES
  clock,    \* seconds
  viewer,   \* the browser's address and network
  jar,      \* its cookie
  rpc,      \* of each request: where it is
  carried,  \* of each request: the cookie it carries
  reply,    \* of each request: the cookie and token of the response, or none
  crowded   \* history: was a request sent without a visitor while another was out?

edgeVars == <<clock, viewer, jar, rpc, carried, reply, crowded>>
allVars == <<syncVars, edgeVars>>

NoReply == [token |-> NoCookie]

Out == {"sent", "answered"}
Over == {"received", "lost", "unavailable"}

\* The payload of the token that a response brings.
Told(r) == reply[r].token.payload

HasVisitor(cookie) == cookie \notin {NoCookie} \cup Malformed

EdgeTypeOK ==
  /\ SyncTypeOK
  /\ clock \in 0 .. MaxTime
  /\ viewer \in Viewers
  /\ rpc \in [Requests -> {"unsent"} \cup Out \cup Over]
  /\ \A r \in Requests : reply[r] # NoReply =>
       /\ rpc[r] \in {"answered", "received", "lost"}
       /\ reply[r].token.sig \in HalfPairs
       /\ Told(r).new => Told(r).issuedAt \in 0 .. Told(r).ts
       /\ HasVisitor(reply[r].cookie)
  /\ crowded \in BOOLEAN

EdgeInit ==
  /\ SyncInit
  /\ clock = 0
  /\ viewer \in Viewers
  /\ jar \in {NoCookie} \cup Malformed \cup Foreign
  /\ rpc = [r \in Requests |-> "unsent"]
  /\ carried = [r \in Requests |-> NoCookie]
  /\ reply = [r \in Requests |-> NoReply]
  /\ crowded = FALSE

------------------------------------------------------------------------------
(* The browser (external). *)

Tick ==
  /\ clock < MaxTime
  /\ clock' = clock + 1
  /\ UNCHANGED <<syncVars, viewer, jar, rpc, carried, reply, crowded>>

Send(r) ==
  /\ rpc[r] = "unsent" /\ \A q \in Requests : q < r => rpc[q] # "unsent"
  /\ rpc' = [rpc EXCEPT ![r] = "sent"]
  /\ carried' = [carried EXCEPT ![r] = jar]
  /\ crowded' = (crowded \/ (~HasVisitor(jar) /\ \E q \in Requests : rpc[q] \in Out))
  /\ UNCHANGED <<syncVars, clock, viewer, jar, reply>>

Receive(r) ==
  /\ rpc[r] = "answered"
  /\ rpc' = [rpc EXCEPT ![r] = "received"]
  /\ jar' = reply[r].cookie
  /\ UNCHANGED <<syncVars, clock, viewer, carried, reply, crowded>>

LoseReply(r) ==
  /\ rpc[r] = "answered"
  /\ rpc' = [rpc EXCEPT ![r] = "lost"]
  /\ UNCHANGED <<syncVars, clock, viewer, jar, carried, reply, crowded>>

------------------------------------------------------------------------------
(* The function. *)

\* What is signed.
Decimal(n) == <<n>>
Barred(text, rest) == text \o <<Bar>> \o rest
CookieText(id, issuedAt) == Barred(Fpid, Barred(id, Decimal(issuedAt)))
Canonical(t) ==
  Barred(t.id, Barred(Decimal(t.issuedAt), Barred(t.ip, Barred(t.asn, Decimal(t.ts)))))

Visitor(id, issuedAt, key) ==
  [id |-> id, issuedAt |-> issuedAt, sig |-> Sip(key, CookieText(id, issuedAt))]

Mint(r, key) == Visitor(Uuid[r], clock, key)

\* The function finds a visitor in the cookies that it mints.
ASSUME MintAssumption ==
  \A r \in Requests, issuedAt \in 0 .. MaxTime, v \in Secrets :
    HasVisitor(Visitor(Uuid[r], issuedAt, Key[v]))

\* Faulty variant: a cookie is minted at each request.
MintAlways(r, key) == Mint(r, key)

\* The incoming cookie is used as it is; its signature is not looked at.
Cookie(r, key) == IF HasVisitor(carried[r]) THEN carried[r] ELSE Mint(r, key)

Payload(r, cookie) ==
  [id |-> cookie.id, issuedAt |-> cookie.issuedAt, new |-> ~HasVisitor(carried[r]),
   ip |-> viewer.ip, asn |-> viewer.asn, ts |-> clock]

Token(key, payload) == [payload |-> payload, sig |-> Sip(key, Canonical(payload))]

Response(r) ==
  LET key == Key[replica]
      with(cookie) == [cookie |-> cookie, key |-> replica,
                       token |-> Token(key, Payload(r, cookie))]
  IN with(Cookie(r, key))

Answer(r) ==
  /\ rpc[r] = "sent" /\ replica # NoKey
  /\ reply' = [reply EXCEPT ![r] = Response(r)]
  /\ rpc' = [rpc EXCEPT ![r] = "answered"]
  /\ UNCHANGED <<syncVars, clock, viewer, jar, carried, crowded>>

\* No key in the store, or it cannot be read: 503.
Unavailable(r) ==
  /\ rpc[r] = "sent"
  /\ IF replica = NoKey THEN NoFault ELSE Fault
  /\ rpc' = [rpc EXCEPT ![r] = "unavailable"]
  /\ UNCHANGED <<secret, store, replica, invocation, synced,
                 clock, viewer, jar, carried, reply, crowded>>

------------------------------------------------------------------------------
AllServed ==
  /\ \A i \in Invocations : pc[i] \in {"done", "failed"}
  /\ \A r \in Requests : rpc[r] \in Over
  /\ UNCHANGED allVars

EdgeNext ==
  \/ SyncNext /\ UNCHANGED edgeVars
  \/ Tick
  \/ \E r \in Requests :
       Send(r) \/ Receive(r) \/ LoseReply(r) \/ Answer(r) \/ Unavailable(r)
  \/ AllServed

EdgeSpec == EdgeInit /\ [][EdgeNext]_allVars

\* Awaited calls come back, and the store replicates.  Nothing is assumed of
\* browsers, and nobody need invoke the lambda or rotate the secret.
Fairness ==
  /\ WF_allVars(Propagate /\ UNCHANGED edgeVars)
  /\ \A i \in Invocations : WF_allVars(HandlerStep(i) /\ UNCHANGED edgeVars)

FairSpec == EdgeSpec /\ Fairness

------------------------------------------------------------------------------
(* Properties. *)

\* The API's side of a token (external): SipHash-2-4 as it is defined.
Verifies(sig, key, text) == Number(sig) = SipHash24(key, text)

\* tls-fingerprint-edge.ts:43-47, 359: a token verifies, and so does the cookie
\* that was minted with it, under the key the function read, and, when the
\* secret was copied and the copy has reached the edge, under the secret itself.
TokensVerify ==
  [][\A r \in Requests : (reply[r] = NoReply /\ reply'[r] # NoReply) =>
       LET answer == reply'[r]
           key == Key[IF synced /\ replica = stored THEN secret ELSE answer.key]
           visitor == answer.cookie
       IN /\ Verifies(answer.token.sig, key, Canonical(answer.token.payload))
          /\ answer.token.payload.new =>
               Verifies(visitor.sig, key, CookieText(visitor.id, visitor.issuedAt))]_allVars

Received == {r \in Requests : rpc[r] = "received"}

\* "Sets persistent third-party cookie": as long as a browser without a visitor
\* waits for its response before it asks again, all the tokens it ever gets name
\* one visitor, one of them at most as new, and its cookie stays that one,
\* across rotations of the key, refusals and lost responses.
StableIdentity ==
  ~crowded =>
    /\ \A r \in Received : reply[r].cookie = jar
    /\ \A r, q \in Received :
         /\ Told(r).id = Told(q).id
         /\ Told(r).issuedAt = Told(q).issuedAt
         /\ Told(r).new /\ Told(q).new => r = q
==============================================================================
