----------------------------- MODULE EdgeProofs -------------------------------
(***************************************************************************)
(* Proofs about the edge function and the synchronisation of its key, for  *)
(* any invocations, requests, rotations and failures: the copy of the key, *)
(* the browser's visitor, SipHash on halves of words, and the tokens.      *)
(***************************************************************************)
EXTENDS EdgeToken, SequenceTheorems, WellFoundedInduction, TLAPS

------------------------------------------------------------------------------
(* The types of the synchronisation. *)

LEMMA SyncTypeInit == SyncInit => SyncTypeOK
<1>1. SyncInit => synced \in BOOLEAN
  BY Zenon DEF SyncInit
<1> QED
  BY <1>1, SyncBoundsAssumption DEF SyncInit, SyncTypeOK, Awaiting, Secrets

\* A read of the key at the edge that fails.
EdgeFault == Fault /\ UNCHANGED <<secret, store, replica, invocation, synced>>

\* What a step, of the edge function too, does to the synchronisation.
SyncStep == [SyncNext]_syncVars \/ EdgeFault

LEMMA SyncTypeStep == SyncTypeOK /\ SyncStep => SyncTypeOK'
<1> SUFFICES ASSUME SyncTypeOK, SyncStep PROVE SyncTypeOK'
  OBVIOUS
<1> USE SyncBoundsAssumption DEF SyncTypeOK, Awaiting, Secrets, Goto, Apply, Fault, NoFault, store, invocation
<1>1. CASE RotateSecret
  <2>1. synced' \in BOOLEAN
    BY <1>1, Zenon DEF RotateSecret
  <2> QED
    BY <1>1, <2>1 DEF RotateSecret
<1>2. CASE Propagate
  BY <1>2 DEF Propagate
<1>3. ASSUME NEW i \in Invocations, Invoke(i) PROVE SyncTypeOK'
  <2>1. PICK type \in {"Create", "Update", "Delete"} :
          Goto(i, IF type = "Delete" THEN "done" ELSE "getSecret")
    BY <1>3 DEF Invoke
  <2> QED
    BY <1>3, <2>1 DEF Invoke
<1>4. ASSUME NEW i \in Invocations, GetSecretValue(i) PROVE SyncTypeOK'
  BY <1>4 DEF GetSecretValue
<1>5. ASSUME NEW i \in Invocations, DescribeKeyValueStore(i) PROVE SyncTypeOK'
  BY <1>5 DEF DescribeKeyValueStore
<1>6. ASSUME NEW i \in Invocations, PutKey(i) PROVE SyncTypeOK'
  <2>1. CASE Matches(i) /\ Apply(i) /\ NoFault /\ Goto(i, "done")
    <3>1. synced' \in BOOLEAN
      BY <1>6 DEF PutKey, Challenged
    <3> QED
      BY <1>6, <2>1, <3>1 DEF PutKey
  <2>2. CASE Matches(i) /\ Apply(i) /\ Fault /\ Goto(i, "failed")
    <3>1. synced' \in BOOLEAN
      BY <1>6 DEF PutKey, Challenged
    <3> QED
      BY <1>6, <2>2, <3>1 DEF PutKey
  <2>3. CASE ~Matches(i)
    BY <1>6, <2>3 DEF PutKey
  <2> QED
    BY <1>6, <2>1, <2>2, <2>3 DEF PutKey
<1>7. ASSUME NEW i \in Invocations, Throw(i) \/ TimeOut(i) PROVE SyncTypeOK'
  BY <1>7 DEF Throw, TimeOut
<1>8. ASSUME NEW i \in Invocations, StrayPut(i) PROVE SyncTypeOK'
  BY <1>8 DEF StrayPut
<1>9. CASE UNCHANGED syncVars \/ EdgeFault
  BY <1>9 DEF syncVars, EdgeFault
<1> QED
  BY <1>1, <1>2, <1>3, <1>4, <1>5, <1>6, <1>7, <1>8, <1>9 DEF SyncStep, SyncNext, HandlerStep

------------------------------------------------------------------------------
(* Once the secret is copied, everything on its way to the store is harmless. *)

Sending == {"putKey", "stray"}

\* No ETag is from the future.
EtagsSeen == \A i \in Invocations : pc[i] \in Sending => etag[i] <= version

\* Whoever has its ETag still to read has the secret; whoever sends has it too,
\* or is refused.
Harmless ==
  synced => \A i \in Invocations :
    /\ pc[i] = "describe" => value[i] = secret
    /\ (pc[i] \in Sending /\ etag[i] = version) => value[i] = secret

SyncInv == EtagsSeen /\ Harmless /\ KvsHoldsTheSecret

LEMMA SyncInvInit == SyncInit => SyncInv
  BY DEF SyncInit, SyncInv, EtagsSeen, Harmless, KvsHoldsTheSecret, Sending

LEMMA SyncInvStep == SyncTypeOK /\ SyncInv /\ SyncStep => SyncInv'
<1> SUFFICES ASSUME SyncTypeOK, SyncInv, SyncStep PROVE SyncInv'
  OBVIOUS
<1> USE DEF SyncTypeOK, Secrets, SyncInv, EtagsSeen, Harmless, KvsHoldsTheSecret, Sending,
            Awaiting, Goto, Apply, Matches, store, invocation
<1>1. CASE RotateSecret
  BY <1>1 DEF RotateSecret
<1>2. CASE Propagate
  BY <1>2 DEF Propagate
<1>3. ASSUME NEW i \in Invocations, Invoke(i) PROVE SyncInv'
  <2>1. PICK type \in {"Create", "Update", "Delete"} :
          Goto(i, IF type = "Delete" THEN "done" ELSE "getSecret")
    BY <1>3 DEF Invoke
  <2> QED
    BY <1>3, <2>1 DEF Invoke
<1>4. ASSUME NEW i \in Invocations, GetSecretValue(i) PROVE SyncInv'
  BY <1>4 DEF GetSecretValue
<1>5. ASSUME NEW i \in Invocations, DescribeKeyValueStore(i) PROVE SyncInv'
  BY <1>5 DEF DescribeKeyValueStore
<1>6. ASSUME NEW i \in Invocations, PutKey(i) PROVE SyncInv'
  <2>1. CASE Matches(i)
    <3>1. stored' = value[i] /\ version' = version + 1 /\ UNCHANGED <<secret, value, etag>>
      BY <1>6, <2>1 DEF PutKey
    <3>2. pc' = [pc EXCEPT ![i] = "done"] \/ pc' = [pc EXCEPT ![i] = "failed"]
      BY <1>6 DEF PutKey
    <3>3. EtagsSeen'
      BY <3>1, <3>2
    <3>4. \A j \in Invocations : pc'[j] \in Sending => etag[j] # version'
      BY <3>1, <3>2
    <3>5. synced' => value[i] = secret
      BY <1>6, <2>1 DEF PutKey
    <3>6. synced' => \A j \in Invocations : pc'[j] = "describe" => value[j] = secret
      BY <1>6, <2>1, <3>2 DEF PutKey, Challenged
    <3> QED
      BY <3>1, <3>3, <3>4, <3>5, <3>6
  <2>2. CASE ~Matches(i)
    BY <1>6, <2>2 DEF PutKey
  <2> QED
    BY <2>1, <2>2
<1>7. ASSUME NEW i \in Invocations, Throw(i) \/ TimeOut(i) PROVE SyncInv'
  BY <1>7 DEF Throw, TimeOut
<1>8. ASSUME NEW i \in Invocations, StrayPut(i) PROVE SyncInv'
  <2>1. pc' = [pc EXCEPT ![i] = "failed"] /\ UNCHANGED <<secret, value, etag, synced>>
    BY <1>8 DEF StrayPut
  <2>2. CASE Matches(i)
    BY <1>8, <2>1, <2>2 DEF StrayPut
  <2>3. CASE ~Matches(i)
    BY <1>8, <2>1, <2>3 DEF StrayPut
  <2> QED
    BY <2>2, <2>3
<1>9. CASE UNCHANGED syncVars \/ EdgeFault
  BY <1>9 DEF syncVars, EdgeFault, Fault
<1> QED
  BY <1>1, <1>2, <1>3, <1>4, <1>5, <1>6, <1>7, <1>8, <1>9 DEF SyncStep, SyncNext, HandlerStep

LEMMA EdgeSyncStep == [EdgeNext]_allVars => SyncStep
<1> SUFFICES ASSUME [EdgeNext]_allVars, ~(UNCHANGED syncVars) PROVE SyncStep
  BY DEF SyncStep
<1>1. SyncNext \/ \E r \in Requests : Unavailable(r)
  BY DEF EdgeNext, Tick, Send, Receive, LoseReply, Answer, AllServed, allVars
<1>2. ASSUME NEW r \in Requests, Unavailable(r) PROVE SyncStep
  BY <1>2 DEF Unavailable, NoFault, SyncStep, EdgeFault, syncVars, store, invocation
<1> QED
  BY <1>1, <1>2 DEF SyncStep

LEMMA SyncInvariant == EdgeSpec => [](SyncTypeOK /\ SyncInv)
<1>1. EdgeInit => SyncInit
  BY DEF EdgeInit
<1> QED
  BY <1>1, SyncTypeInit, SyncTypeStep, SyncInvInit, SyncInvStep, EdgeSyncStep, PTL
     DEF EdgeSpec

\* The type invariant of the synchronisation: what the store, its replica and the
\* invocations hold is a secret, or the store's initial state.
THEOREM SyncTypeCorrect == EdgeSpec => []SyncTypeOK
  BY SyncInvariant, PTL

\* The store holds the secret from an unchallenged copy to the next rotation,
\* whatever fails, overlaps, or is sent by invocations that were stopped.
THEOREM KvsHoldsTheSecretHolds == EdgeSpec => []KvsHoldsTheSecret
<1>1. SyncInv => KvsHoldsTheSecret
  BY DEF SyncInv
<1> QED
  BY <1>1, SyncInvariant, PTL

------------------------------------------------------------------------------
(* The browser's visitor. *)

Served == {"answered", "received"}

EdgeTypes ==
  /\ clock \in 0 .. MaxTime
  /\ rpc \in [Requests -> {"unsent"} \cup Out \cup Over]
  /\ DOMAIN carried = Requests /\ DOMAIN reply = Requests
  /\ crowded \in BOOLEAN

\* A response repeats the visitor its request carried, or brings a new one, and
\* its token names the visitor of its cookie.
Repeats(r) ==
  rpc[r] \in Served =>
    /\ HasVisitor(reply[r].cookie)
    /\ Told(r).id = reply[r].cookie.id
    /\ Told(r).issuedAt = reply[r].cookie.issuedAt
    /\ Told(r).new <=> ~HasVisitor(carried[r])
    /\ HasVisitor(carried[r]) => reply[r].cookie = carried[r]

\* Before the first visitor at most one request is out; from then on whatever is
\* out carries that visitor, and one response at most was new.
OneVisitor ==
  IF HasVisitor(jar)
    THEN /\ \A r \in Requests : rpc[r] \in Out => carried[r] = jar
         /\ \A r \in Received : reply[r].cookie = jar
         /\ \A r, q \in Received :
              (~HasVisitor(carried[r]) /\ ~HasVisitor(carried[q])) => r = q
    ELSE /\ \A r, q \in Requests : (rpc[r] \in Out /\ rpc[q] \in Out) => r = q
         /\ Received = {}

IdentityInv ==
  /\ \A r \in Requests : Repeats(r)
  /\ ~crowded => OneVisitor

LEMMA IdentityInit == EdgeInit => EdgeTypes /\ IdentityInv
<1> SUFFICES ASSUME EdgeInit PROVE EdgeTypes /\ IdentityInv
  OBVIOUS
<1>1. EdgeTypes
  <2>1. crowded \in BOOLEAN
    BY Zenon DEF EdgeInit
  <2> QED
    BY <2>1, TimeAssumption DEF EdgeInit, EdgeTypes
<1>2. \A r \in Requests : rpc[r] = "unsent"
  BY DEF EdgeInit
<1> QED
  BY <1>1, <1>2 DEF IdentityInv, Repeats, OneVisitor, Served, Out, Received

LEMMA EdgeTypesStep == EdgeTypes /\ [EdgeNext]_allVars => EdgeTypes'
<1> SUFFICES ASSUME EdgeTypes, [EdgeNext]_allVars PROVE EdgeTypes'
  OBVIOUS
<1> USE DEF EdgeTypes
<1>1. CASE UNCHANGED edgeVars
  BY <1>1 DEF edgeVars
<1>2. CASE Tick
  BY <1>2, TimeAssumption DEF Tick
<1>3. ASSUME NEW r \in Requests, Send(r) PROVE EdgeTypes'
  <2>1. crowded' \in BOOLEAN
    BY <1>3, Zenon DEF Send
  <2> QED
    BY <1>3, <2>1 DEF Send, Out, Over
<1>4. ASSUME NEW r \in Requests, Receive(r) \/ LoseReply(r) \/ Unavailable(r)
      PROVE  EdgeTypes'
  BY <1>4 DEF Receive, LoseReply, Unavailable, Out, Over
<1>5. ASSUME NEW r \in Requests, Answer(r) PROVE EdgeTypes'
  BY <1>5 DEF Answer, Out, Over
<1> QED
  BY <1>1, <1>2, <1>3, <1>4, <1>5 DEF EdgeNext, AllServed, allVars

\* What the function returns.
LEMMA ResponseRepeats ==
  ASSUME SyncTypeOK, EdgeTypes, NEW r \in Requests, replica # NoKey
  PROVE  LET answer == Response(r)
         IN /\ HasVisitor(answer.cookie)
            /\ answer.token.payload.id = answer.cookie.id
            /\ answer.token.payload.issuedAt = answer.cookie.issuedAt
            /\ answer.token.payload.new <=> ~HasVisitor(carried[r])
            /\ HasVisitor(carried[r]) => answer.cookie = carried[r]
<1> DEFINE key == Key[replica]
           cookie == Cookie(r, key)
           payload == Payload(r, cookie)
<1>1. HasVisitor(cookie) /\ (HasVisitor(carried[r]) => cookie = carried[r])
  <2>1. replica \in Secrets
    BY DEF SyncTypeOK
  <2>2. HasVisitor(Mint(r, key))
    BY <2>1, MintAssumption DEF Mint, EdgeTypes
  <2> QED
    BY <2>2 DEF Cookie
<1> DEFINE answer == Response(r)
           token == Token(key, payload)
<1>2. /\ token.payload.id = cookie.id
      /\ token.payload.issuedAt = cookie.issuedAt
      /\ token.payload.new <=> ~HasVisitor(carried[r])
  BY DEF Token, Payload
<1>3. answer.cookie = cookie /\ answer.token = token
  BY DEF Response
<1> HIDE DEF answer, token, cookie
<1> QED
  BY <1>1, <1>2, <1>3 DEF answer

LEMMA IdentityStep ==
  SyncTypeOK /\ EdgeTypes /\ IdentityInv /\ [EdgeNext]_allVars => IdentityInv'
<1> SUFFICES ASSUME SyncTypeOK, EdgeTypes, IdentityInv, [EdgeNext]_allVars
             PROVE  IdentityInv'
  OBVIOUS
<1> USE DEF IdentityInv
<1>1. CASE UNCHANGED <<jar, rpc, carried, reply, crowded>>
  BY <1>1 DEF Repeats, Told, OneVisitor, HasVisitor, Received, Served
<1>2. ASSUME NEW r \in Requests, Send(r) PROVE IdentityInv'
  <2>1. /\ rpc[r] = "unsent" /\ rpc'[r] = "sent" /\ carried'[r] = jar
        /\ \A q \in Requests \ {r} : rpc'[q] = rpc[q] /\ carried'[q] = carried[q]
        /\ UNCHANGED <<jar, reply>>
    BY <1>2 DEF Send, EdgeTypes
  <2>2. ~crowded' => ~crowded /\ (HasVisitor(jar) \/ \A q \in Requests : rpc[q] \notin Out)
    BY <1>2 DEF Send
  <2>3. ASSUME NEW q \in Requests PROVE Repeats(q)'
    BY <2>1 DEF Repeats, Told, Served, HasVisitor
  <2>4. \A q \in Requests : rpc'[q] = "received" <=> rpc[q] = "received"
    BY <2>1
  <2>5. Received' = Received /\ \A q \in Received : carried'[q] = carried[q]
    BY <2>1, <2>4 DEF Received
  <2>6. HasVisitor(jar)' <=> HasVisitor(jar)
    BY <2>1 DEF HasVisitor
  <2>7. ~crowded' => OneVisitor'
    BY <2>1, <2>2, <2>5, <2>6 DEF OneVisitor, Out, HasVisitor
  <2> QED
    BY <2>3, <2>7
<1>3. ASSUME NEW r \in Requests, Receive(r) PROVE IdentityInv'
  <2>1. /\ rpc[r] = "answered" /\ rpc'[r] = "received" /\ jar' = reply[r].cookie
        /\ \A q \in Requests \ {r} : rpc'[q] = rpc[q]
        /\ UNCHANGED <<carried, reply, crowded>>
    BY <1>3 DEF Receive, EdgeTypes
  <2>2. \A q \in Requests : Repeats(q)'
    BY <2>1 DEF Repeats, Told, Served, HasVisitor
  <2>3. HasVisitor(jar')
    BY <2>1 DEF Repeats, Told, Served
  <2>4. Received' = Received \cup {r}
    BY <2>1 DEF Received
  <2>5. ASSUME ~crowded, HasVisitor(jar) PROVE OneVisitor'
    <3>1. carried[r] = jar /\ jar' = jar
      BY <2>1, <2>5 DEF OneVisitor, Out, Repeats, Told, Served
    <3> QED
      BY <2>1, <2>4, <2>5, <3>1 DEF OneVisitor, Out, HasVisitor
  <2>6. ASSUME ~crowded, ~HasVisitor(jar) PROVE OneVisitor'
    <3>1. Received' = {r} /\ \A q \in Requests : rpc'[q] \notin Out
      BY <2>1, <2>4, <2>6 DEF OneVisitor, Out
    <3> QED
      BY <2>1, <2>3, <3>1 DEF OneVisitor, HasVisitor
  <2> QED
    BY <2>1, <2>2, <2>5, <2>6
<1>4. ASSUME NEW r \in Requests, LoseReply(r) \/ Unavailable(r) PROVE IdentityInv'
  <2>1. /\ rpc[r] \in Out /\ rpc'[r] \in {"lost", "unavailable"}
        /\ \A q \in Requests \ {r} : rpc'[q] = rpc[q]
        /\ UNCHANGED <<jar, carried, reply, crowded>>
    BY <1>4 DEF LoseReply, Unavailable, EdgeTypes, Out
  <2>2. \A q \in Requests : Repeats(q)'
    BY <2>1 DEF Repeats, Told, Served, HasVisitor
  <2>3. Received' = Received
    BY <2>1 DEF Received, Out
  <2> QED
    BY <2>1, <2>2, <2>3 DEF OneVisitor, Out, HasVisitor
<1>5. ASSUME NEW r \in Requests, Answer(r) PROVE IdentityInv'
  <2> DEFINE answer == Response(r)
  <2>1. /\ rpc[r] = "sent" /\ rpc'[r] = "answered" /\ reply'[r] = answer
        /\ \A q \in Requests \ {r} : rpc'[q] = rpc[q] /\ reply'[q] = reply[q]
        /\ UNCHANGED <<jar, carried, crowded>> /\ replica # NoKey
    BY <1>5 DEF Answer, EdgeTypes
  <2>2. /\ HasVisitor(answer.cookie)
        /\ answer.token.payload.id = answer.cookie.id
        /\ answer.token.payload.issuedAt = answer.cookie.issuedAt
        /\ answer.token.payload.new <=> ~HasVisitor(carried[r])
        /\ HasVisitor(carried[r]) => answer.cookie = carried[r]
    BY <2>1, ResponseRepeats
  <2> HIDE DEF answer
  <2>3. \A q \in Requests : Repeats(q)'
    BY <2>1, <2>2 DEF Repeats, Told, Served, HasVisitor
  <2>4. Received' = Received /\ \A q \in Received : reply'[q] = reply[q]
    BY <2>1 DEF Received
  <2> QED
    BY <2>1, <2>3, <2>4 DEF OneVisitor, Out, HasVisitor
<1> QED
  BY <1>1, <1>2, <1>3, <1>4, <1>5 DEF EdgeNext, Tick, AllServed, allVars, edgeVars

\* A browser that awaits its first visitor before it asks again keeps that
\* visitor, in its cookie and in all its tokens, and at most one token of it is
\* new: for any number of requests, and whatever befalls the key meanwhile.
THEOREM StableIdentityHolds == EdgeSpec => []StableIdentity
<1>1. IdentityInv => StableIdentity
  <2> SUFFICES ASSUME IdentityInv, ~crowded PROVE
        /\ \A r \in Received : reply[r].cookie = jar
        /\ \A r, q \in Received :
             /\ Told(r).id = Told(q).id
             /\ Told(r).issuedAt = Told(q).issuedAt
             /\ Told(r).new /\ Told(q).new => r = q
    BY DEF StableIdentity
  <2>1. OneVisitor /\ \A r \in Received : r \in Requests /\ Repeats(r) /\ rpc[r] \in Served
    BY DEF IdentityInv, Received, Served
  <2>2. CASE Received = {}
    BY <2>2
  <2>3. CASE Received # {}
    <3>1. /\ \A r \in Received : reply[r].cookie = jar
          /\ \A r, q \in Received :
               (~HasVisitor(carried[r]) /\ ~HasVisitor(carried[q])) => r = q
      BY <2>1, <2>3 DEF OneVisitor
    <3> QED
      BY <2>1, <3>1 DEF Repeats, Told
  <2> QED
    BY <2>2, <2>3
<1>2. EdgeSpec => [](SyncTypeOK /\ EdgeTypes /\ IdentityInv)
  BY SyncInvariant, IdentityInit, EdgeTypesStep, IdentityStep, PTL DEF EdgeSpec
<1> QED
  BY <1>1, <1>2, PTL

------------------------------------------------------------------------------
(* The two SipHashes. *)

LEMMA Least ==
  ASSUME NEW T \in SUBSET Nat, T # {}
  PROVE  \E x \in T : \A y \in T : ~(y < x)
<1>1. IsWellFoundedOn(OpToRel(<, Nat), Nat)
  BY NatLessThanWellFounded
<1>2. \E x \in T : \A y \in T : <<y, x>> \notin OpToRel(<, Nat)
  BY <1>1, WFMin
<1> QED
  BY <1>2 DEF OpToRel

LEMMA SetInduction ==
  ASSUME NEW S \in SUBSET Nat, 0 \in S, \A n \in S : n + 1 \in S
  PROVE  S = Nat
<1>1. SUFFICES ASSUME Nat \ S # {} PROVE FALSE
  OBVIOUS
<1>2. PICK x \in Nat \ S : \A y \in Nat \ S : ~(y < x)
  BY <1>1, Least
<1>3. x - 1 \in S
  BY <1>2
<1> QED
  BY <1>2, <1>3

\* g repeats the steps, starting from start.
Iterates(g, start, step, N) ==
  /\ g[0] = start
  /\ \A n \in 1 .. N : g[n] = step[n][g[n - 1]]

LEMMA IterationExists ==
  ASSUME NEW S, NEW N \in Nat, NEW start \in S, NEW step \in [1 .. N -> [S -> S]]
  PROVE  \E g \in [0 .. N -> S] : Iterates(g, start, step, N)
<1> DEFINE Has(m) == \E g \in [0 .. m -> S] : Iterates(g, start, step, m)
           T == {m \in Nat : m <= N => Has(m)}
<1>1. 0 \in T
  <2>1. [n \in 0 .. 0 |-> start] \in [0 .. 0 -> S]
    OBVIOUS
  <2>2. Iterates([n \in 0 .. 0 |-> start], start, step, 0)
    BY DEF Iterates
  <2> QED
    BY <2>1, <2>2
<1>2. ASSUME NEW m \in T PROVE m + 1 \in T
  <2> SUFFICES ASSUME m + 1 <= N PROVE Has(m + 1)
    BY <1>2
  <2>1. m \in Nat /\ m + 1 \in 1 .. N /\ step[m + 1] \in [S -> S]
    BY <1>2
  <2>2. PICK g \in [0 .. m -> S] : Iterates(g, start, step, m)
    BY <1>2, <2>1
  <2> DEFINE h == [n \in 0 .. m + 1 |-> IF n = m + 1 THEN step[m + 1][g[m]] ELSE g[n]]
  <2>3. g[m] \in S /\ step[m + 1][g[m]] \in S
    BY <2>1, <2>2
  <2>4. h \in [0 .. m + 1 -> S]
    BY <2>1, <2>3
  <2>5. h[0] = start
    BY <2>1, <2>2 DEF Iterates
  <2>6. ASSUME NEW n \in 1 .. m + 1 PROVE h[n] = step[n][h[n - 1]]
    <3>1. CASE n = m + 1
      BY <2>1, <3>1
    <3>2. CASE n # m + 1
      <4>1. n \in 1 .. m /\ n - 1 \in 0 .. m /\ n \in 0 .. m
        BY <2>1, <3>2
      <4> QED
        BY <2>1, <2>2, <4>1 DEF Iterates
    <3> QED
      BY <3>1, <3>2
  <2> QED
    BY <2>4, <2>5, <2>6 DEF Iterates
<1> HIDE DEF Has
<1>3. T = Nat
  BY <1>1, <1>2, SetInduction
<1> QED
  BY <1>3 DEF Has

------------------------------------------------------------------------------
LEMMA DivMod ==
  ASSUME NEW q \in Nat, NEW r \in Nat, NEW m \in Nat, r < m
  PROVE  (m * q + r) \div m = q /\ (m * q + r) % m = r
OBVIOUS

LEMMA Split ==
  ASSUME NEW x \in Nat, NEW m \in Nat \ {0}
  PROVE  /\ x \div m \in Nat /\ x % m \in 0 .. m - 1
         /\ x = m * (x \div m) + (x % m)
OBVIOUS

LEMMA SplitBelow ==
  ASSUME NEW p \in Nat \ {0}, NEW m \in Nat \ {0}, NEW x \in 0 .. p * m - 1
  PROVE  x \div m \in 0 .. p - 1
OBVIOUS

LEMMA PowersOf2 ==
  /\ Pow2[0] = 1
  /\ \A n \in 0 .. 2 * HalfBits : Pow2[n] \in Nat \ {0}
  /\ \A n \in 1 .. 2 * HalfBits : Pow2[n] = 2 * Pow2[n - 1]
<1> DEFINE N == 2 * HalfBits
           step == [n \in 1 .. N |-> [x \in Nat \ {0} |-> 2 * x]]
           Unfold(f) == [n \in 0 .. N |-> IF n = 0 THEN 1 ELSE 2 * f[n - 1]]
<1>1. N \in Nat
  BY ByteBitsAssumption DEF HalfBits
<1> HIDE DEF N
<1>2. step \in [1 .. N -> [Nat \ {0} -> Nat \ {0}]]
  OBVIOUS
<1>3. PICK g \in [0 .. N -> Nat \ {0}] : Iterates(g, 1, step, N)
  <2> HIDE DEF step
  <2>1. 1 \in Nat \ {0}
    OBVIOUS
  <2> QED
    BY <1>1, <1>2, <2>1, IterationExists
<1>4. \A n \in 1 .. N : g[n] = 2 * g[n - 1]
  <2> SUFFICES ASSUME NEW n \in 1 .. N PROVE g[n] = 2 * g[n - 1]
    OBVIOUS
  <2>1. g[n] = step[n][g[n - 1]] /\ n - 1 \in 0 .. N
    <3> HIDE DEF step
    <3> QED
      BY <1>1, <1>3 DEF Iterates
  <2>2. g[n - 1] \in Nat \ {0}
    BY <2>1
  <2> QED
    BY <2>1, <2>2
<1>5. g = Unfold(g)
  BY <1>1, <1>3, <1>4 DEF Iterates
<1>6. Pow2 = CHOOSE f : f = Unfold(f)
  BY DEF Pow2, N
<1>7. Pow2 = Unfold(Pow2)
  <2> HIDE DEF Unfold
  <2> QED
    BY <1>5, <1>6
<1>8. Pow2[0] = 1 /\ \A n \in 1 .. N : Pow2[n] = 2 * Pow2[n - 1]
  <2>1. \A n \in 0 .. N : Pow2[n] = Unfold(Pow2)[n]
    BY <1>7
  <2>2. \A n \in 0 .. N : Unfold(Pow2)[n] = IF n = 0 THEN 1 ELSE 2 * Pow2[n - 1]
    OBVIOUS
  <2> HIDE DEF Unfold
  <2> QED
    BY <1>1, <2>1, <2>2
<1> DEFINE T == {m \in Nat : m <= N => Pow2[m] \in Nat \ {0}}
<1>9. T = Nat
  <2>1. 0 \in T
    BY <1>8
  <2>2. \A m \in T : m + 1 \in T
    BY <1>1, <1>8
  <2> HIDE DEF T
  <2> QED
    BY <2>1, <2>2, SetInduction DEF T
<1> QED
  BY <1>1, <1>8, <1>9 DEF N

LEMMA PowersMultiply ==
  ASSUME NEW a \in Nat, NEW b \in Nat, a + b <= 2 * HalfBits
  PROVE  Pow2[a + b] = Pow2[a] * Pow2[b]
<1> DEFINE T == {m \in Nat : a + m <= 2 * HalfBits => Pow2[a + m] = Pow2[a] * Pow2[m]}
<1>1. HalfBits \in Nat
  BY ByteBitsAssumption DEF HalfBits
<1>2. 0 \in T
  BY <1>1, PowersOf2
<1>3. ASSUME NEW m \in T, a + (m + 1) <= 2 * HalfBits
      PROVE  Pow2[a + (m + 1)] = Pow2[a] * Pow2[m + 1]
  <2>1. m \in Nat /\ Pow2[a + m] = Pow2[a] * Pow2[m]
    BY <1>1, <1>3
  <2>2. a + (m + 1) \in 1 .. 2 * HalfBits /\ m + 1 \in 1 .. 2 * HalfBits
        /\ a \in 0 .. 2 * HalfBits /\ m \in 0 .. 2 * HalfBits
    BY <1>1, <1>3, <2>1
  <2>3. Pow2[a + (m + 1)] = 2 * Pow2[(a + (m + 1)) - 1] /\ Pow2[m + 1] = 2 * Pow2[(m + 1) - 1]
        /\ Pow2[a] \in Nat /\ Pow2[m] \in Nat
    BY <2>2, PowersOf2
  <2>4. (a + (m + 1)) - 1 = a + m /\ (m + 1) - 1 = m
    BY <2>1
  <2> QED
    BY <2>1, <2>3, <2>4
<1>4. T = Nat
  <2>1. \A m \in T : m + 1 \in T
    BY <1>3
  <2> HIDE DEF T
  <2> QED
    BY <1>2, <2>1, SetInduction DEF T
<1> QED
  BY <1>4

LEMMA Moduli ==
  /\ HalfBits \in Nat \ {0} /\ HalfMod \in Nat \ {0} /\ ByteMod \in Nat \ {0}
  /\ WordMod = HalfMod * HalfMod
  /\ HalfMod = ByteMod * (ByteMod * (ByteMod * ByteMod))
<1>1. HalfBits = 4 * ByteBits /\ ByteBits \in Nat \ {0}
  BY ByteBitsAssumption DEF HalfBits
<1>2. HalfBits \in 0 .. 2 * HalfBits /\ ByteBits \in 0 .. 2 * HalfBits
  BY <1>1
<1>3. HalfMod \in Nat \ {0} /\ ByteMod \in Nat \ {0}
  BY <1>2, PowersOf2 DEF HalfMod, ByteMod
<1>4. Pow2[ByteBits + ByteBits] = ByteMod * ByteMod
  BY <1>1, PowersMultiply DEF ByteMod
<1>5. Pow2[ByteBits + (ByteBits + ByteBits)] = ByteMod * (ByteMod * ByteMod)
  BY <1>1, <1>4, PowersMultiply DEF ByteMod
<1>6. Pow2[ByteBits + (ByteBits + (ByteBits + ByteBits))] = ByteMod * (ByteMod * (ByteMod * ByteMod))
  BY <1>1, <1>5, PowersMultiply DEF ByteMod
<1>7. ByteBits + (ByteBits + (ByteBits + ByteBits)) = HalfBits
  BY <1>1
<1> QED
  BY <1>1, <1>3, <1>6, <1>7 DEF HalfMod, WordMod

LEMMA NumberParts ==
  ASSUME NEW w \in HalfPairs
  PROVE  /\ Number(w) \in Nat
         /\ Number(w) \div HalfMod = w.h /\ Number(w) % HalfMod = w.l
<1>1. w.h \in Nat /\ w.l \in Nat /\ w.l < HalfMod /\ HalfMod \in Nat
  BY Moduli DEF HalfPairs, Halves
<1>2. (HalfMod * w.h + w.l) \div HalfMod = w.h /\ (HalfMod * w.h + w.l) % HalfMod = w.l
  BY <1>1, DivMod
<1> QED
  BY <1>1, <1>2 DEF Number

LEMMA XorNumber ==
  ASSUME NEW x \in HalfPairs, NEW y \in HalfPairs
  PROVE  Xor(x, y) \in HalfPairs /\ Number(Xor(x, y)) = WXor(Number(x), Number(y))
<1>1. Xor(x, y) \in HalfPairs
  BY XorAssumption DEF Xor, HalfPairs
<1> QED
  BY <1>1, NumberParts DEF WXor, Xor, Number

LEMMA AddNumber ==
  ASSUME NEW x \in HalfPairs, NEW y \in HalfPairs
  PROVE  Add(x, y) \in HalfPairs /\ Number(Add(x, y)) = WAdd(Number(x), Number(y))
<1> DEFINE M == HalfMod
           ci == IF x.l + y.l > M - 1 THEN 1 ELSE 0
           low == (x.l + y.l) % M
           sum == x.h + y.h + ci
           carry == sum \div M
           high == sum % M
<1>1. /\ x.l \in 0 .. M - 1 /\ x.h \in 0 .. M - 1
      /\ y.l \in 0 .. M - 1 /\ y.h \in 0 .. M - 1 /\ M \in Nat \ {0}
  BY Moduli DEF HalfPairs, Halves
<1>2. Add(x, y) = [l |-> low, h |-> high]
  BY DEF Add
<1> HIDE DEF M
<1>3. /\ x.l + y.l = M * ci + low /\ low \in 0 .. M - 1 /\ ci \in Nat
  <2>1. CASE x.l + y.l > M - 1
    <3>1. x.l + y.l - M \in Nat /\ x.l + y.l - M < M
      BY <1>1, <2>1
    <3>2. x.l + y.l = M * 1 + (x.l + y.l - M)
      BY <1>1
    <3>3. (M * 1 + (x.l + y.l - M)) % M = x.l + y.l - M
      BY <1>1, <3>1, DivMod
    <3>4. low = x.l + y.l - M
      BY <3>2, <3>3
    <3> QED
      BY <1>1, <2>1, <3>1, <3>4
  <2>2. CASE ~(x.l + y.l > M - 1)
    <3>1. x.l + y.l = M * 0 + (x.l + y.l) /\ x.l + y.l \in Nat /\ x.l + y.l < M
      BY <1>1, <2>2
    <3>2. low = x.l + y.l
      BY <1>1, <3>1, DivMod
    <3> QED
      BY <1>1, <2>2, <3>1, <3>2
  <2> QED
    BY <2>1, <2>2
<1> HIDE DEF ci, low
<1>4. sum \in Nat
  BY <1>1, <1>3
<1>5. carry \in Nat /\ high \in 0 .. M - 1 /\ sum = M * carry + high
  BY <1>1, <1>4, Split
<1>6. Add(x, y) \in HalfPairs
  BY <1>2, <1>3, <1>5 DEF HalfPairs, Halves, M
<1>7. Number(x) + Number(y) = (M * M) * carry + (M * high + low)
  <2>1. Number(x) + Number(y) = M * x.h + x.l + (M * y.h + y.l)
    BY DEF Number, M
  <2>2. @ = M * (x.h + y.h) + (x.l + y.l)
    BY <1>1
  <2>3. @ = M * (x.h + y.h) + (M * ci + low)
    BY <1>3
  <2>4. @ = M * sum + low
    BY <1>1, <1>3
  <2>5. @ = M * (M * carry + high) + low
    BY <1>5
  <2>6. @ = (M * M) * carry + (M * high + low)
    <3> HIDE DEF carry, high
    <3> QED
      BY <1>1, <1>3, <1>5
  <2> QED
    BY <2>1, <2>2, <2>3, <2>4, <2>5, <2>6
<1> HIDE DEF carry, high
<1>8. M * high + low \in Nat /\ M * high + low < M * M /\ M * M \in Nat
  <2>1. M * high <= M * (M - 1)
    BY <1>1, <1>5
  <2> QED
    BY <1>1, <1>3, <1>5, <2>1, SMTT(40)
<1>9. (Number(x) + Number(y)) % (M * M) = M * high + low
  BY <1>5, <1>7, <1>8, DivMod
<1> QED
  BY <1>2, <1>6, <1>9 DEF WAdd, WordMod, Number, M

LEMMA SwapNumber ==
  ASSUME NEW x \in HalfPairs
  PROVE  Swap(x) \in HalfPairs /\ Number(Swap(x)) = WRotate(Number(x), HalfBits)
<1>1. Swap(x) \in HalfPairs
  BY DEF Swap, HalfPairs
<1>2. 2 * HalfBits - HalfBits = HalfBits
  BY Moduli
<1>3. WRotate(Number(x), HalfBits) = x.l * HalfMod + x.h
  BY <1>2, NumberParts DEF WRotate, HalfMod
<1>4. x.l * HalfMod + x.h = HalfMod * x.l + x.h
  BY Moduli DEF HalfPairs, Halves
<1> QED
  BY <1>1, <1>3, <1>4 DEF Swap, Number

\* Of a word of two halves, a half of P * Q.
LEMMA RotateNumber ==
  ASSUME NEW x \in HalfPairs, NEW n \in 1 .. HalfBits - 1
  PROVE  Rotate(x, n) \in HalfPairs /\ Number(Rotate(x, n)) = WRotate(Number(x), n)
<1> DEFINE M == HalfMod
           P == Pow2[n]
           Q == Pow2[HalfBits - n]
           hh == x.h \div Q
           hl == x.h % Q
           lh == x.l \div Q
           ll == x.l % Q
<1>1. HalfBits \in Nat /\ n \in Nat /\ HalfBits - n \in Nat /\ n <= HalfBits
  BY Moduli
<1>2. P \in Nat \ {0} /\ Q \in Nat \ {0} /\ M \in Nat \ {0}
  BY <1>1, PowersOf2, Moduli
<1>3. M = P * Q
  <2>1. n + (HalfBits - n) = HalfBits
    BY <1>1
  <2> QED
    BY <1>1, <2>1, PowersMultiply DEF HalfMod
<1>4. Pow2[2 * HalfBits - n] = M * Q
  <2>1. HalfBits + (HalfBits - n) = 2 * HalfBits - n
    BY <1>1
  <2> QED
    BY <1>1, <2>1, PowersMultiply DEF HalfMod
<1>5. x.l \in 0 .. M - 1 /\ x.h \in 0 .. M - 1
  BY DEF HalfPairs, Halves
<1>6. Rotate(x, n) = [l |-> ((x.l * P) % M) + hh, h |-> ((x.h * P) % M) + lh]
  BY DEF Rotate
<1>7. WRotate(Number(x), n)
        = (Number(x) % Pow2[2 * HalfBits - n]) * P + (Number(x) \div Pow2[2 * HalfBits - n])
  BY DEF WRotate
<1>a. Number(x) = M * x.h + x.l
  BY DEF Number
<1> HIDE DEF M, P, Q
<1>8. /\ hh \in 0 .. P - 1 /\ hl \in 0 .. Q - 1 /\ x.h = Q * hh + hl
      /\ lh \in 0 .. P - 1 /\ ll \in 0 .. Q - 1 /\ x.l = Q * lh + ll
  <2>1. ASSUME NEW y \in 0 .. M - 1
        PROVE  /\ y \div Q \in 0 .. P - 1 /\ y % Q \in 0 .. Q - 1
               /\ y = Q * (y \div Q) + (y % Q)
    <3>1. y \in Nat /\ y \in 0 .. P * Q - 1
      BY <1>2, <1>3
    <3> QED
      BY <1>2, <3>1, Split, SplitBelow
  <2> QED
    BY <1>5, <2>1
<1> HIDE DEF hh, hl, lh, ll
<1>9. ASSUME NEW a \in 0 .. P - 1, NEW b \in 0 .. Q - 1
      PROVE  /\ ((Q * a + b) * P) % M = b * P
             /\ b * P \in Nat /\ \A c \in 0 .. P - 1 : b * P + c \in 0 .. M - 1
  <2>1. (Q * a + b) * P = M * a + b * P
    BY <1>2, <1>3
  <2>2. b * P <= (Q - 1) * P
    BY <1>2
  <2>3. (Q - 1) * P = M - P
    BY <1>2, <1>3
  <2>4. b * P + (P - 1) <= M - 1 /\ b * P \in Nat
    BY <1>2, <2>2, <2>3
  <2>5. b * P < M
    BY <1>2, <2>4
  <2>6. (M * a + b * P) % M = b * P
    <3>1. ASSUME NEW r \in Nat, r < M PROVE (M * a + r) % M = r
      BY <1>2, <3>1, DivMod
    <3> QED
      BY <2>4, <2>5, <3>1
  <2> QED
    BY <1>2, <2>1, <2>4, <2>6
<1>b. Rotate(x, n) = [l |-> ll * P + hh, h |-> hl * P + lh]
  BY <1>6, <1>8, <1>9
<1>c. Rotate(x, n) \in HalfPairs
  BY <1>b, <1>8, <1>9 DEF HalfPairs, Halves, M
<1>d. Number(x) = (M * Q) * hh + (M * hl + x.l)
  BY <1>a, <1>2, <1>5, <1>8
<1>e. M * hl + x.l \in Nat /\ M * hl + x.l < M * Q /\ M * Q \in Nat
  <2>1. M * hl <= M * (Q - 1)
    BY <1>2, <1>8
  <2> QED
    BY <1>2, <1>5, <1>8, <2>1
<1>f. Number(x) % (M * Q) = M * hl + x.l /\ Number(x) \div (M * Q) = hh
  BY <1>d, <1>e, <1>8, DivMod
<1>g. (M * hl + x.l) * P + hh = M * (hl * P + lh) + (ll * P + hh)
  <2>1. x.l * P = M * lh + ll * P
    BY <1>2, <1>3, <1>8
  <2>2. (M * hl + x.l) * P = M * (hl * P) + x.l * P
    BY <1>2, <1>5, <1>8
  <2>3. M * (hl * P + lh) = M * (hl * P) + M * lh
    BY <1>2, <1>8
  <2> QED
    BY <1>2, <1>5, <1>8, <2>1, <2>2, <2>3
<1>h. Number(Rotate(x, n)) = M * (hl * P + lh) + (ll * P + hh)
  BY <1>b DEF Number, M
<1> QED
  BY <1>4, <1>7, <1>c, <1>f, <1>g, <1>h

States == [0 .. 3 -> HalfPairs]
Numbers(v) == <<Number(v[0]), Number(v[1]), Number(v[2]), Number(v[3])>>

LEMMA MixNumbers ==
  ASSUME NEW v \in States, NEW i \in 0 .. 3, NEW j \in 0 .. 3, i # j,
         NEW n \in 1 .. HalfBits - 1
  PROVE  LET u == Mix(v, i, j, n)
         IN /\ u \in States
            /\ Number(u[i]) = WAdd(Number(v[i]), Number(v[j]))
            /\ Number(u[j]) = WXor(WRotate(Number(v[j]), n), Number(u[i]))
            /\ \A k \in 0 .. 3 \ {i, j} : u[k] = v[k]
<1> DEFINE sum == Add(v[i], v[j])
           other == Xor(Rotate(v[j], n), sum)
           u == Mix(v, i, j, n)
<1>1. v[i] \in HalfPairs /\ v[j] \in HalfPairs
  BY DEF States
<1>2. sum \in HalfPairs /\ Number(sum) = WAdd(Number(v[i]), Number(v[j]))
  BY <1>1, AddNumber
<1>3. u = [v EXCEPT ![i] = sum, ![j] = other]
  BY DEF Mix, States
<1> HIDE DEF sum
<1>4. Rotate(v[j], n) \in HalfPairs /\ Number(Rotate(v[j], n)) = WRotate(Number(v[j]), n)
  BY <1>1, RotateNumber
<1>5. other \in HalfPairs /\ Number(other) = WXor(WRotate(Number(v[j]), n), Number(sum))
  BY <1>2, <1>4, XorNumber
<1> HIDE DEF other
<1>6. /\ u \in States /\ u[i] = sum /\ u[j] = other
      /\ \A k \in 0 .. 3 \ {i, j} : u[k] = v[k]
  BY <1>2, <1>3, <1>5 DEF States
<1> QED
  BY <1>2, <1>5, <1>6

LEMMA SwapNumbers ==
  ASSUME NEW v \in States, NEW i \in 0 .. 3
  PROVE  LET u == SwapAt(v, i)
         IN /\ u \in States
            /\ Number(u[i]) = WRotate(Number(v[i]), HalfBits)
            /\ \A k \in 0 .. 3 \ {i} : u[k] = v[k]
<1>1. v[i] \in HalfPairs
  BY DEF States
<1>2. Swap(v[i]) \in HalfPairs /\ Number(Swap(v[i])) = WRotate(Number(v[i]), HalfBits)
  BY <1>1, SwapNumber
<1> QED
  BY <1>2 DEF SwapAt, States

\* A round on halves is a round on words.
LEMMA RoundNumbers ==
  ASSUME NEW v \in States
  PROVE  Round(v) \in States /\ Numbers(Round(v)) = SipRound(Numbers(v))
<1>1. /\ R13 \in 1 .. HalfBits - 1 /\ R16 \in 1 .. HalfBits - 1
      /\ R17 \in 1 .. HalfBits - 1 /\ R21 \in 1 .. HalfBits - 1
  BY RotationsAssumption
<1>3. PICK a \in States :
        /\ a = Mix(v, 0, 1, R13)
        /\ Number(a[0]) = WAdd(Number(v[0]), Number(v[1]))
        /\ Number(a[1]) = WXor(WRotate(Number(v[1]), R13), Number(a[0]))
        /\ a[2] = v[2] /\ a[3] = v[3]
  BY <1>1, MixNumbers
<1>4. PICK b \in States :
        /\ b = Mix(a, 2, 3, R16)
        /\ Number(b[2]) = WAdd(Number(a[2]), Number(a[3]))
        /\ Number(b[3]) = WXor(WRotate(Number(a[3]), R16), Number(b[2]))
        /\ b[0] = a[0] /\ b[1] = a[1]
  BY <1>1, MixNumbers
<1>5. PICK c \in States :
        /\ c = SwapAt(b, 0)
        /\ Number(c[0]) = WRotate(Number(b[0]), HalfBits)
        /\ c[1] = b[1] /\ c[2] = b[2] /\ c[3] = b[3]
  BY SwapNumbers
<1>6. PICK d \in States :
        /\ d = Mix(c, 0, 3, R21)
        /\ Number(d[0]) = WAdd(Number(c[0]), Number(c[3]))
        /\ Number(d[3]) = WXor(WRotate(Number(c[3]), R21), Number(d[0]))
        /\ d[1] = c[1] /\ d[2] = c[2]
  BY <1>1, MixNumbers
<1>7. PICK e \in States :
        /\ e = Mix(d, 2, 1, R17)
        /\ Number(e[2]) = WAdd(Number(d[2]), Number(d[1]))
        /\ Number(e[1]) = WXor(WRotate(Number(d[1]), R17), Number(e[2]))
        /\ e[0] = d[0] /\ e[3] = d[3]
  BY <1>1, MixNumbers
<1>8. PICK f \in States :
        /\ f = SwapAt(e, 2)
        /\ Number(f[2]) = WRotate(Number(e[2]), HalfBits)
        /\ f[0] = e[0] /\ f[1] = e[1] /\ f[3] = e[3]
  BY SwapNumbers
<1>2. Round(v) = f
  BY <1>3, <1>4, <1>5, <1>6, <1>7, <1>8 DEF Round
<1>9. Numbers(f) = SipRound(Numbers(v))
  <2>1. PICK x : x = Numbers(v)
    OBVIOUS
  <2>2. /\ x[1] = Number(v[0]) /\ x[2] = Number(v[1])
        /\ x[3] = Number(v[2]) /\ x[4] = Number(v[3])
    BY <2>1 DEF Numbers
  <2>3. PICK x0, x2 : x0 = WAdd(x[1], x[2]) /\ x2 = WAdd(x[3], x[4])
    OBVIOUS
  <2>4. PICK x1, x3 : /\ x1 = WXor(WRotate(x[2], R13), x0)
                      /\ x3 = WXor(WRotate(x[4], R16), x2)
    OBVIOUS
  <2>5. PICK y0, y2 : y2 = WAdd(x2, x1) /\ y0 = WAdd(WRotate(x0, HalfBits), x3)
    OBVIOUS
  <2>6. SipRound(x) = <<y0, WXor(WRotate(x1, R17), y2), WRotate(y2, HalfBits),
                        WXor(WRotate(x3, R21), y0)>>
    BY <2>3, <2>4, <2>5 DEF SipRound
  <2>7. /\ Number(b[0]) = x0 /\ Number(b[1]) = x1
        /\ Number(b[2]) = x2 /\ Number(b[3]) = x3
    BY <1>3, <1>4, <2>2, <2>3, <2>4
  <2>8. /\ Number(e[0]) = y0 /\ Number(e[1]) = WXor(WRotate(x1, R17), y2)
        /\ Number(e[2]) = y2 /\ Number(e[3]) = WXor(WRotate(x3, R21), y0)
    BY <1>5, <1>6, <1>7, <2>5, <2>7
  <2>9. /\ Number(f[0]) = y0 /\ Number(f[1]) = WXor(WRotate(x1, R17), y2)
        /\ Number(f[2]) = WRotate(y2, HalfBits) /\ Number(f[3]) = WXor(WRotate(x3, R21), y0)
    BY <1>8, <2>8
  <2> QED
    BY <2>1, <2>6, <2>9 DEF Numbers
<1> QED
  BY <1>2, <1>8, <1>9

LEMMA TwoRoundsNumbers ==
  ASSUME NEW v \in States
  PROVE  TwoRounds(v) \in States /\ Numbers(TwoRounds(v)) = TwoSipRounds(Numbers(v))
<1>1. Round(v) \in States /\ Numbers(Round(v)) = SipRound(Numbers(v))
  BY RoundNumbers
<1>2. Round(Round(v)) \in States /\ Numbers(Round(Round(v))) = SipRound(Numbers(Round(v)))
  BY <1>1, RoundNumbers
<1> QED
  BY <1>1, <1>2 DEF TwoRounds, TwoSipRounds

\* Combining a word with one of the four.
XorInto(v, i, w) == [v EXCEPT ![i] = Xor(@, w)]
WXorInto(u, i, m) == [u EXCEPT ![i] = WXor(@, m)]

LEMMA XorAt ==
  ASSUME NEW v \in States, NEW i \in 0 .. 3, NEW w \in HalfPairs
  PROVE  /\ XorInto(v, i, w) \in States
         /\ Numbers(XorInto(v, i, w)) = WXorInto(Numbers(v), i + 1, Number(w))
<1>1. v[i] \in HalfPairs
  BY DEF States
<1>2. Xor(v[i], w) \in HalfPairs /\ Number(Xor(v[i], w)) = WXor(Number(v[i]), Number(w))
  BY <1>1, XorNumber
<1>3. PICK x : x = Xor(v[i], w)
  OBVIOUS
<1>4. XorInto(v, i, w) = [v EXCEPT ![i] = x]
  BY <1>3 DEF States, XorInto
<1>5. [v EXCEPT ![i] = x] \in States
  BY <1>2, <1>3 DEF States
<1>6. Numbers(v)[i + 1] = Number(v[i])
  <2>1. i = 0 \/ i = 1 \/ i = 2 \/ i = 3
    OBVIOUS
  <2> QED
    BY <2>1 DEF Numbers
<1>7. Numbers([v EXCEPT ![i] = x]) = [Numbers(v) EXCEPT ![i + 1] = Number(x)]
  <2>1. CASE i = 0
    BY <2>1 DEF Numbers, States
  <2>2. CASE i = 1
    BY <2>2 DEF Numbers, States
  <2>3. CASE i = 2
    BY <2>3 DEF Numbers, States
  <2>4. CASE i = 3
    BY <2>4 DEF Numbers, States
  <2> QED
    BY <2>1, <2>2, <2>3, <2>4
<1>8. WXorInto(Numbers(v), i + 1, Number(w))
        = [Numbers(v) EXCEPT ![i + 1] = WXor(Numbers(v)[i + 1], Number(w))]
  BY DEF WXorInto
<1> QED
  BY <1>2, <1>3, <1>4, <1>5, <1>6, <1>7, <1>8

LEMMA CompressNumbers ==
  ASSUME NEW v \in States, NEW w \in HalfPairs
  PROVE  Compress(v, w) \in States /\ Numbers(Compress(v, w)) = SipCompress(Numbers(v), Number(w))
<1> DEFINE u == XorInto(v, 3, w)
<1>1. Compress(v, w) = XorInto(TwoRounds(u), 0, w)
  BY DEF Compress, XorInto
<1>2. SipCompress(Numbers(v), Number(w))
        = WXorInto(TwoSipRounds(WXorInto(Numbers(v), 4, Number(w))), 1, Number(w))
  BY DEF SipCompress, WXorInto
<1>3. u \in States /\ Numbers(u) = WXorInto(Numbers(v), 4, Number(w))
  <2>1. 3 \in 0 .. 3 /\ 3 + 1 = 4
    OBVIOUS
  <2> QED
    BY <2>1, XorAt
<1> HIDE DEF u
<1>4. TwoRounds(u) \in States /\ Numbers(TwoRounds(u)) = TwoSipRounds(Numbers(u))
  BY <1>3, TwoRoundsNumbers
<1>5. /\ XorInto(TwoRounds(u), 0, w) \in States
      /\ Numbers(XorInto(TwoRounds(u), 0, w)) = WXorInto(Numbers(TwoRounds(u)), 1, Number(w))
  <2>1. 0 \in 0 .. 3 /\ 0 + 1 = 1
    OBVIOUS
  <2> QED
    BY <1>4, <2>1, XorAt
<1> QED
  BY <1>1, <1>2, <1>3, <1>4, <1>5

LEMMA FinishNumbers ==
  ASSUME NEW v \in States
  PROVE  /\ Finish(v) \in States
         /\ Numbers(Finish(v)) = TwoSipRounds(TwoSipRounds(WXorInto(Numbers(v), 3, ByteMod - 1)))
<1> DEFINE w == [l |-> ByteMod - 1, h |-> 0]
           u == XorInto(v, 2, w)
<1>1. w \in HalfPairs /\ Number(w) = ByteMod - 1
  <2>1. ByteMod * (ByteMod * ByteMod) \in Nat \ {0}
    BY Moduli
  <2>2. ByteMod <= HalfMod
    BY <2>1, Moduli
  <2> QED
    BY <2>2, Moduli DEF HalfPairs, Halves, Number
<1>2. Finish(v) = TwoRounds(TwoRounds(u))
  <2>1. v[2] \in HalfPairs
    BY DEF States
  <2>2. Xor(v[2], w) = [l |-> XorHalf(v[2].l, ByteMod - 1), h |-> v[2].h]
    BY <2>1, XorAssumption DEF Xor, HalfPairs
  <2>3. [v[2] EXCEPT !.l = XorHalf(@, ByteMod - 1)] = Xor(v[2], w)
    BY <2>1, <2>2 DEF HalfPairs
  <2>4. [v EXCEPT ![2].l = XorHalf(@, ByteMod - 1)] = u
    BY <2>3 DEF States, XorInto
  <2> QED
    BY <2>4 DEF Finish
<1>3. u \in States /\ Numbers(u) = WXorInto(Numbers(v), 3, Number(w))
  <2> HIDE DEF w
  <2>1. 2 \in 0 .. 3 /\ 2 + 1 = 3
    OBVIOUS
  <2> QED
    BY <1>1, <2>1, XorAt
<1> HIDE DEF u, w
<1>4. TwoRounds(u) \in States /\ Numbers(TwoRounds(u)) = TwoSipRounds(Numbers(u))
  BY <1>3, TwoRoundsNumbers
<1>5. /\ TwoRounds(TwoRounds(u)) \in States
      /\ Numbers(TwoRounds(TwoRounds(u))) = TwoSipRounds(Numbers(TwoRounds(u)))
  BY <1>4, TwoRoundsNumbers
<1> QED
  BY <1>1, <1>2, <1>3, <1>4, <1>5

LEMMA FoldedNumber ==
  ASSUME NEW v \in States
  PROVE  LET u == Numbers(v)
         IN /\ Folded(v) \in HalfPairs
            /\ Number(Folded(v)) = WXor(WXor(u[1], u[2]), WXor(u[3], u[4]))
<1>1. v[0] \in HalfPairs /\ v[1] \in HalfPairs /\ v[2] \in HalfPairs /\ v[3] \in HalfPairs
  BY DEF States
<1>2. Xor(v[0], v[1]) \in HalfPairs /\ Xor(v[2], v[3]) \in HalfPairs
  BY <1>1, XorNumber
<1> QED
  BY <1>1, <1>2, XorNumber DEF Folded, Numbers

\* The two loops over the blocks.
LEMMA AbsorbNumbers ==
  ASSUME NEW start \in States, NEW words \in Seq(HalfPairs), NEW numbers,
         Len(numbers) = Len(words), \A n \in 1 .. Len(words) : numbers[n] = Number(words[n])
  PROVE  /\ Absorb(start, words) \in States
         /\ Numbers(Absorb(start, words)) = SipAbsorb(Numbers(start), numbers)
<1> DEFINE N == Len(words)
           step == [n \in 1 .. N |-> [v \in States |-> Compress(v, words[n])]]
           Unfold(f) == [n \in 0 .. N |-> IF n = 0 THEN start ELSE Compress(f[n - 1], words[n])]
           SipUnfold(f) == [n \in 0 .. N |-> IF n = 0 THEN Numbers(start)
                                             ELSE SipCompress(f[n - 1], numbers[n])]
           state == CHOOSE f : f = Unfold(f)
           sip == CHOOSE f : f = SipUnfold(f)
<1>1. Absorb(start, words) = state[N]
  BY DEF Absorb
<1>2. SipAbsorb(Numbers(start), numbers) = sip[N]
  BY DEF SipAbsorb
<1>3. N \in Nat /\ \A n \in 1 .. N : words[n] \in HalfPairs
  OBVIOUS
<1> HIDE DEF N, state, sip
<1>4. PICK g \in [0 .. N -> States] :
        g[0] = start /\ \A n \in 1 .. N : g[n] = Compress(g[n - 1], words[n])
  <2>1. step \in [1 .. N -> [States -> States]]
    BY <1>3, CompressNumbers
  <2>2. PICK g \in [0 .. N -> States] : Iterates(g, start, step, N)
    <3> HIDE DEF step
    <3> QED
      BY <1>3, <2>1, IterationExists
  <2>3. ASSUME NEW n \in 1 .. N PROVE g[n] = Compress(g[n - 1], words[n])
    <3>1. n - 1 \in 0 .. N
      BY <1>3
    <3>2. g[n - 1] \in States
      BY <3>1
    <3>3. g[n] = step[n][g[n - 1]]
      <4> HIDE DEF step
      <4> QED
        BY <2>2 DEF Iterates
    <3> QED
      BY <3>2, <3>3
  <2> QED
    BY <2>2, <2>3 DEF Iterates
<1>5. g = Unfold(g)
  BY <1>3, <1>4
<1>6. state = Unfold(state)
  <2> HIDE DEF Unfold
  <2> QED
    BY <1>5 DEF state
<1>7. state[0] = start /\ \A n \in 1 .. N : state[n] = Compress(state[n - 1], words[n])
  <2>1. \A n \in 0 .. N : state[n] = Unfold(state)[n]
    BY <1>6
  <2>2. \A n \in 0 .. N :
          Unfold(state)[n] = IF n = 0 THEN start ELSE Compress(state[n - 1], words[n])
    OBVIOUS
  <2> HIDE DEF Unfold
  <2> QED
    BY <1>3, <2>1, <2>2
<1> DEFINE h == [n \in 0 .. N |-> Numbers(g[n])]
<1>8. h = SipUnfold(h)
  <2>1. ASSUME NEW n \in 1 .. N PROVE h[n] = SipCompress(h[n - 1], numbers[n])
    <3>1. n \in 0 .. N /\ n - 1 \in 0 .. N
      BY <1>3
    <3>2. g[n - 1] \in States /\ words[n] \in HalfPairs
      BY <1>3, <3>1
    <3>3. Numbers(g[n]) = SipCompress(Numbers(g[n - 1]), Number(words[n]))
      BY <1>4, <3>2, CompressNumbers
    <3>4. numbers[n] = Number(words[n])
      BY DEF N
    <3> QED
      BY <3>1, <3>3, <3>4
  <2>2. h[0] = Numbers(start)
    BY <1>3, <1>4
  <2>3. \A n \in 0 .. N : n # 0 => n \in 1 .. N
    BY <1>3
  <2> QED
    BY <2>1, <2>2, <2>3
<1>9. sip = SipUnfold(sip)
  <2> HIDE DEF SipUnfold
  <2> QED
    BY <1>8 DEF sip
<1>10. sip[0] = Numbers(start) /\ \A n \in 1 .. N : sip[n] = SipCompress(sip[n - 1], numbers[n])
  <2>1. \A n \in 0 .. N : sip[n] = SipUnfold(sip)[n]
    BY <1>9
  <2>2. \A n \in 0 .. N :
          SipUnfold(sip)[n] = IF n = 0 THEN Numbers(start) ELSE SipCompress(sip[n - 1], numbers[n])
    OBVIOUS
  <2> HIDE DEF SipUnfold
  <2> QED
    BY <1>3, <2>1, <2>2
<1> HIDE DEF Unfold, SipUnfold, h
<1> DEFINE T == {m \in Nat : m <= N => state[m] \in States /\ sip[m] = Numbers(state[m])}
<1>11. 0 \in T
  BY <1>7, <1>10
<1>12. ASSUME NEW m \in T PROVE m + 1 \in T
  <2> SUFFICES ASSUME m + 1 <= N
               PROVE  state[m + 1] \in States /\ sip[m + 1] = Numbers(state[m + 1])
    BY <1>12
  <2>1. m \in Nat /\ m <= N /\ state[m] \in States /\ sip[m] = Numbers(state[m])
    BY <1>3, <1>12
  <2>2. m + 1 \in 1 .. N /\ (m + 1) - 1 = m
    BY <1>3, <2>1
  <2>3. state[m + 1] = Compress(state[m], words[m + 1])
    BY <1>7, <2>2
  <2>4. sip[m + 1] = SipCompress(sip[m], numbers[m + 1])
    BY <1>10, <2>2
  <2>5. words[m + 1] \in HalfPairs
    BY <1>3, <2>2
  <2>6. numbers[m + 1] = Number(words[m + 1])
    BY <2>2 DEF N
  <2> QED
    BY <2>1, <2>3, <2>4, <2>5, <2>6, CompressNumbers
<1>13. T = Nat
  <2> HIDE DEF T
  <2>1. T \in SUBSET Nat
    BY DEF T
  <2> QED
    BY <2>1, <1>11, <1>12, SetInduction
<1>14. N \in T
  BY <1>3, <1>13
<1> QED
  BY <1>1, <1>2, <1>3, <1>14

LEMMA DigitsBelow ==
  ASSUME NEW b \in Bytes, NEW m \in Nat, NEW t \in 0 .. m - 1
  PROVE  b + ByteMod * t \in 0 .. ByteMod * m - 1
<1>1. ByteMod \in Nat \ {0} /\ b \in 0 .. ByteMod - 1
  BY Moduli DEF Bytes
<1>2. ByteMod * t <= ByteMod * (m - 1)
  BY <1>1
<1>3. ByteMod * (m - 1) = ByteMod * m - ByteMod
  BY <1>1
<1> QED
  BY <1>1, <1>2, <1>3

LEMMA HalfType ==
  ASSUME NEW b, NEW n, b[n] \in Bytes, b[n + 1] \in Bytes, b[n + 2] \in Bytes, b[n + 3] \in Bytes
  PROVE  Half(b, n) \in Halves
<1>1. b[n + 3] \in 0 .. ByteMod - 1 /\ ByteMod \in Nat /\ ByteMod * ByteMod \in Nat
      /\ ByteMod * (ByteMod * ByteMod) \in Nat
  BY Moduli DEF Bytes
<1>2. b[n + 2] + ByteMod * b[n + 3] \in 0 .. ByteMod * ByteMod - 1
  BY <1>1, DigitsBelow
<1>3. b[n + 1] + ByteMod * (b[n + 2] + ByteMod * b[n + 3]) \in 0 .. ByteMod * (ByteMod * ByteMod) - 1
  BY <1>1, <1>2, DigitsBelow
<1>4. Half(b, n) \in 0 .. ByteMod * (ByteMod * (ByteMod * ByteMod)) - 1
  BY <1>1, <1>3, DigitsBelow DEF Half
<1> QED
  BY <1>4, Moduli DEF Halves

\* Eight bytes from the n-th on.
LEMMA WordNumber ==
  ASSUME NEW b, NEW n \in Nat, \A i \in 0 .. 7 : b[n + i] \in Bytes,
         NEW e, \A i \in 1 .. 8 : e[i] = b[n + (i - 1)]
  PROVE  Word(b, n) \in HalfPairs /\ Number(Word(b, n)) = LittleEndian(e)
<1>1. /\ b[n] \in Bytes /\ b[n + 1] \in Bytes /\ b[n + 2] \in Bytes /\ b[n + 3] \in Bytes
      /\ b[n + 4] \in Bytes /\ b[n + 5] \in Bytes /\ b[n + 6] \in Bytes /\ b[n + 7] \in Bytes
  OBVIOUS
<1>2. /\ (n + 4) + 1 = n + 5 /\ (n + 4) + 2 = n + 6 /\ (n + 4) + 3 = n + 7
  OBVIOUS
<1>3. Half(b, n) \in Halves /\ Half(b, n + 4) \in Halves
  BY <1>1, <1>2, HalfType
<1>4. Word(b, n) \in HalfPairs
  BY <1>3 DEF Word, HalfPairs
<1>5. /\ e[1] = b[n] /\ e[2] = b[n + 1] /\ e[3] = b[n + 2] /\ e[4] = b[n + 3]
      /\ e[5] = b[n + 4] /\ e[6] = b[n + 5] /\ e[7] = b[n + 6] /\ e[8] = b[n + 7]
  OBVIOUS
<1>6. \A i \in 1 .. 4 : e[i] \in Nat
  BY <1>1, <1>5, Moduli DEF Bytes
<1>7. PICK w \in Nat, x \in Nat, y \in Nat, z \in Nat, t \in Nat :
        w = e[1] /\ x = e[2] /\ y = e[3] /\ z = e[4] /\ t = Half(b, n + 4)
  <2>1. e[1] \in Nat /\ e[2] \in Nat /\ e[3] \in Nat /\ e[4] \in Nat
    BY <1>6
  <2>2. Half(b, n + 4) \in Nat
    BY <1>3, Moduli DEF Halves
  <2> QED
    BY <2>1, <2>2, Zenon
<1>8. LittleEndian(e) = w + ByteMod * (x + ByteMod * (y + ByteMod * (z + ByteMod * t)))
  BY <1>2, <1>5, <1>7 DEF LittleEndian, Half
<1>9. Half(b, n) = w + ByteMod * (x + ByteMod * (y + ByteMod * z))
  BY <1>5, <1>7 DEF Half
<1>10. w + ByteMod * (x + ByteMod * (y + ByteMod * (z + ByteMod * t)))
         = HalfMod * t + (w + ByteMod * (x + ByteMod * (y + ByteMod * z)))
  <2>1. ByteMod \in Nat /\ HalfMod = ByteMod * (ByteMod * (ByteMod * ByteMod))
    BY Moduli
  <2> QED
    BY <2>1
<1>11. LittleEndian(e) = HalfMod * t + Half(b, n)
  BY <1>8, <1>9, <1>10
<1> QED
  BY <1>4, <1>7, <1>11 DEF Number, Word

\* What is cut out of a sequence.
LEMMA ExcerptAt ==
  ASSUME NEW key \in Seq(Bytes), NEW n \in Nat, 8 * n + 8 <= Len(key), NEW i \in 1 .. 8
  PROVE  SubSeq(key, 8 * n + 1, 8 * n + 8)[i] = key[8 * n + 1 + (i - 1)]
<1>1. PICK m, l : m = 8 * n + 1 /\ l = 8 * n + 8
  OBVIOUS
<1>2. m \in Int /\ l \in Int /\ i \in 1 .. l - m + 1 /\ m + i - 1 = m + (i - 1)
  BY <1>1
<1>3. \A j \in m .. l : key[j] \in Bytes
  <2>1. \A j \in m .. l : j \in 1 .. Len(key)
    BY <1>1
  <2> QED
    BY <2>1, ElementOfSeq
<1>4. SubSeq(key, m, l)[i] = key[m + i - 1]
  BY <1>2, <1>3, SubSeqProperties
<1> QED
  BY <1>1, <1>2, <1>4

LEMMA StartNumbers ==
  ASSUME NEW key \in Seq(Bytes), Len(key) >= 16
  PROVE  LET k(n) == LittleEndian(SubSeq(key, 8 * n + 1, 8 * n + 8))
             c(n) == HalfMod * InitialHalves[2 * n + 2] + InitialHalves[2 * n + 1]
         IN /\ Start(key) \in States
            /\ Numbers(Start(key))
                 = <<WXor(k(0), c(0)), WXor(k(1), c(1)), WXor(k(0), c(2)), WXor(k(1), c(3))>>
<1> DEFINE k(n) == LittleEndian(SubSeq(key, 8 * n + 1, 8 * n + 8))
           c(n) == HalfMod * InitialHalves[2 * n + 2] + InitialHalves[2 * n + 1]
           initial(n) == [l |-> InitialHalves[2 * n + 1], h |-> InitialHalves[2 * n + 2]]
<1>1. ASSUME NEW n \in 0 .. 1
      PROVE  Word(key, 8 * n + 1) \in HalfPairs /\ Number(Word(key, 8 * n + 1)) = k(n)
  <2>1. 8 * n + 1 \in Nat /\ \A i \in 0 .. 7 : key[8 * n + 1 + i] \in Bytes
    OBVIOUS
  <2>2. \A i \in 1 .. 8 : SubSeq(key, 8 * n + 1, 8 * n + 8)[i] = key[8 * n + 1 + (i - 1)]
    <3>1. n \in Nat /\ 8 * n + 8 <= Len(key)
      OBVIOUS
    <3> QED
      BY <3>1, ExcerptAt
  <2> QED
    BY <2>1, <2>2, WordNumber
<1>2. ASSUME NEW n \in 0 .. 3 PROVE initial(n) \in HalfPairs /\ Number(initial(n)) = c(n)
  <2>1. 2 * n + 1 \in 1 .. 8 /\ 2 * n + 2 \in 1 .. 8
    OBVIOUS
  <2>2. InitialHalves[2 * n + 1] \in Halves /\ InitialHalves[2 * n + 2] \in Halves
    BY <2>1, InitialHalvesAssumption
  <2> QED
    BY <2>2 DEF Number, HalfPairs
<1> HIDE DEF k, c, initial
<1>3. Start(key) = [n \in 0 .. 3 |-> Xor(Word(key, IF n \in {0, 2} THEN 1 ELSE 9), initial(n))]
  BY DEF Start, initial
<1>4. PICK u, w : u = Word(key, 1) /\ w = Word(key, 9)
  OBVIOUS
<1>5. u \in HalfPairs /\ w \in HalfPairs /\ Number(u) = k(0) /\ Number(w) = k(1)
  <2>1. 8 * 0 + 1 = 1 /\ 8 * 1 + 1 = 9
    OBVIOUS
  <2> QED
    BY <1>1, <1>4, <2>1
<1>6. /\ Start(key)[0] = Xor(u, initial(0)) /\ Start(key)[1] = Xor(w, initial(1))
      /\ Start(key)[2] = Xor(u, initial(2)) /\ Start(key)[3] = Xor(w, initial(3))
  BY <1>3, <1>4
<1>7. /\ Xor(u, initial(0)) \in HalfPairs /\ Number(Xor(u, initial(0))) = WXor(k(0), c(0))
      /\ Xor(w, initial(1)) \in HalfPairs /\ Number(Xor(w, initial(1))) = WXor(k(1), c(1))
      /\ Xor(u, initial(2)) \in HalfPairs /\ Number(Xor(u, initial(2))) = WXor(k(0), c(2))
      /\ Xor(w, initial(3)) \in HalfPairs /\ Number(Xor(w, initial(3))) = WXor(k(1), c(3))
  BY <1>2, <1>5, XorNumber
<1>8. Start(key) \in States
  <2>1. \A n \in 0 .. 3 : n = 0 \/ n = 1 \/ n = 2 \/ n = 3
    OBVIOUS
  <2>2. \A n \in 0 .. 3 : Start(key)[n] \in HalfPairs
    BY <1>6, <1>7, <2>1
  <2>3. Start(key) = [n \in 0 .. 3 |-> Start(key)[n]]
    BY <1>3
  <2> QED
    BY <2>2, <2>3 DEF States
<1>9. Numbers(Start(key))
        = <<WXor(k(0), c(0)), WXor(k(1), c(1)), WXor(k(0), c(2)), WXor(k(1), c(3))>>
  BY <1>6, <1>7 DEF Numbers
<1> QED
  BY <1>8, <1>9 DEF k, c

LEMMA Concatenated ==
  ASSUME NEW S, NEW s \in Seq(S), NEW t \in Seq(S)
  PROVE  /\ s \o t \in Seq(S) /\ Len(s \o t) = Len(s) + Len(t)
         /\ \A i \in 1 .. Len(s) + Len(t) :
              (s \o t)[i] = IF i <= Len(s) THEN s[i] ELSE t[i - Len(s)]
OBVIOUS

LEMMA PaddedBytes ==
  ASSUME NEW msg \in Seq(Bytes)
  PROVE  LET last == Len(msg) \div 8 + 1
         IN /\ Padded(msg) \in Seq(Bytes) /\ Len(Padded(msg)) = 8 * last
            /\ \A at \in 1 .. 8 * last :
                 Padded(msg)[at] = IF at <= Len(msg) THEN msg[at]
                                   ELSE IF at = 8 * last THEN Len(msg) % ByteMod ELSE 0
<1> DEFINE len == Len(msg)
           last == len \div 8 + 1
           zeros == (15 - (len % 8)) % 8
           pad == [n \in 1 .. zeros |-> 0]
           end == <<len % ByteMod>>
<1>1. len \in Nat /\ last \in Nat /\ zeros \in Nat /\ len + zeros + 1 = 8 * last
  OBVIOUS
<1>2. 0 \in Bytes /\ len % ByteMod \in Bytes
  BY <1>1, Moduli DEF Bytes
<1>3. Padded(msg) = (msg \o pad) \o end
  BY DEF Padded
<1>4. pad \in Seq(Bytes) /\ Len(pad) = zeros /\ \A i \in 1 .. zeros : pad[i] = 0
  <2> HIDE DEF zeros
  <2> QED
    BY <1>1, <1>2
<1>5. end \in Seq(Bytes) /\ Len(end) = 1 /\ end[1] = len % ByteMod
  BY <1>2
<1> HIDE DEF pad, end
<1>6. PICK front : front = msg \o pad
  OBVIOUS
<1>7. /\ front \in Seq(Bytes) /\ Len(front) = len + zeros
      /\ \A i \in 1 .. len + zeros : front[i] = IF i <= len THEN msg[i] ELSE 0
  <2>0. front \in Seq(Bytes) /\ Len(front) = Len(msg) + Len(pad)
        /\ \A i \in 1 .. Len(msg) + Len(pad) :
             front[i] = IF i <= Len(msg) THEN msg[i] ELSE pad[i - Len(msg)]
    BY <1>4, <1>6, Concatenated
  <2>1. front \in Seq(Bytes) /\ Len(front) = len + zeros
    BY <1>4, <2>0
  <2>2. \A i \in 1 .. len + zeros : front[i] = IF i <= len THEN msg[i] ELSE pad[i - len]
    BY <1>4, <2>0
  <2>3. \A i \in 1 .. len + zeros : i <= len \/ i - len \in 1 .. zeros
    BY <1>1
  <2> QED
    BY <1>4, <2>1, <2>2, <2>3
<1>8. /\ Padded(msg) \in Seq(Bytes) /\ Len(Padded(msg)) = len + zeros + 1
      /\ \A i \in 1 .. len + zeros + 1 :
           Padded(msg)[i] = IF i <= len + zeros THEN front[i] ELSE end[1]
  <2>1. PICK whole : whole = front \o end
    OBVIOUS
  <2>5. Padded(msg) = whole
    BY <1>3, <1>6, <2>1
  <2>0. whole \in Seq(Bytes) /\ Len(whole) = Len(front) + Len(end)
        /\ \A i \in 1 .. Len(front) + Len(end) :
             whole[i] = IF i <= Len(front) THEN front[i] ELSE end[i - Len(front)]
    BY <1>5, <1>7, <2>1, Concatenated
  <2>2. Padded(msg) \in Seq(Bytes) /\ Len(Padded(msg)) = len + zeros + 1
    BY <1>5, <1>7, <2>0, <2>5
  <2>3. \A i \in 1 .. len + zeros + 1 :
           Padded(msg)[i] = IF i <= len + zeros THEN front[i] ELSE end[i - (len + zeros)]
    BY <1>5, <1>7, <2>0, <2>5
  <2>4. \A i \in 1 .. len + zeros + 1 : ~(i <= len + zeros) => i - (len + zeros) = 1
    BY <1>1
  <2> QED
    BY <2>2, <2>3, <2>4
<1>9. ASSUME NEW at \in 1 .. 8 * last
      PROVE  Padded(msg)[at] = IF at <= len THEN msg[at]
                               ELSE IF at = 8 * last THEN len % ByteMod ELSE 0
  <2> HIDE DEF zeros, last, len
  <2>1. at \in 1 .. len + zeros + 1
    BY <1>1
  <2>2. CASE at <= len + zeros
    <3>1. at \in 1 .. len + zeros /\ at # 8 * last
      BY <1>1, <2>1, <2>2
    <3>2. Padded(msg)[at] = front[at]
      BY <1>8, <2>1, <2>2
    <3> QED
      BY <1>7, <3>1, <3>2
  <2>3. CASE ~(at <= len + zeros)
    <3>1. at = 8 * last /\ ~(at <= len)
      BY <1>1, <2>1, <2>3
    <3>2. Padded(msg)[at] = end[1]
      BY <1>8, <2>1, <2>3
    <3> QED
      BY <1>5, <3>1, <3>2
  <2> QED
    BY <2>2, <2>3
<1> QED
  BY <1>1, <1>8, <1>9

\* The code's _sip computes SipHash-2-4, on any message and any key of 16 bytes.
THEOREM SipIsSipHash24 ==
  ASSUME NEW key \in Seq(Bytes), Len(key) >= 16, NEW msg \in Seq(Bytes)
  PROVE  Sip(key, msg) \in HalfPairs /\ Number(Sip(key, msg)) = SipHash24(key, msg)
<1> DEFINE last == Len(msg) \div 8 + 1
           mb == Padded(msg)
           words == [n \in 1 .. Len(mb) \div 8 |-> Word(mb, 8 * n - 7)]
<1>1. /\ last \in Nat /\ mb \in Seq(Bytes) /\ Len(mb) \div 8 = last
      /\ \A at \in 1 .. 8 * last :
           mb[at] = IF at <= Len(msg) THEN msg[at]
                    ELSE IF at = 8 * last THEN Len(msg) % ByteMod ELSE 0
      /\ Len(mb) = 8 * last
  <2>1. last \in Nat
    OBVIOUS
  <2>2. /\ mb \in Seq(Bytes) /\ Len(mb) = 8 * last
        /\ \A at \in 1 .. 8 * last :
             mb[at] = IF at <= Len(msg) THEN msg[at]
                      ELSE IF at = 8 * last THEN Len(msg) % ByteMod ELSE 0
    BY PaddedBytes, Zenon
  <2> HIDE DEF last, mb
  <2> QED
    BY <2>1, <2>2
<1> HIDE DEF mb
<1>2. ASSUME NEW n \in 1 .. last
      PROVE  Word(mb, 8 * n - 7) \in HalfPairs /\ Number(Word(mb, 8 * n - 7)) = Parsed(msg)[n]
  <2> DEFINE byte(at) == IF at <= Len(msg) THEN msg[at]
                         ELSE IF at = 8 * last THEN Len(msg) % ByteMod ELSE 0
             e == [i \in 1 .. 8 |-> byte(8 * (n - 1) + i)]
  <2>1. Parsed(msg)[n] = LittleEndian(e)
    BY DEF Parsed
  <2> HIDE DEF last
  <2>2. 8 * n - 7 \in Nat /\ \A i \in 0 .. 7 : (8 * n - 7) + i \in 1 .. 8 * last
    BY <1>1
  <2>3. \A i \in 0 .. 7 : mb[(8 * n - 7) + i] \in Bytes
    BY <1>1, <2>2
  <2>4. ASSUME NEW i \in 1 .. 8 PROVE e[i] = mb[(8 * n - 7) + (i - 1)]
    <3>1. (8 * n - 7) + (i - 1) = 8 * (n - 1) + i /\ i - 1 \in 0 .. 7
      BY <1>1
    <3>2. mb[(8 * n - 7) + (i - 1)] = byte((8 * n - 7) + (i - 1))
      BY <1>1, <2>2, <3>1
    <3>3. e[i] = byte(8 * (n - 1) + i)
      OBVIOUS
    <3> QED
      BY <3>1, <3>2, <3>3
  <2> HIDE DEF e
  <2> QED
    BY <2>1, <2>2, <2>3, <2>4, WordNumber
<1>3. words \in Seq(HalfPairs) /\ Len(words) = last
      /\ \A n \in 1 .. last : words[n] = Word(mb, 8 * n - 7)
  <2>1. words = [n \in 1 .. last |-> Word(mb, 8 * n - 7)]
    BY <1>1
  <2>2. last \in Nat
    BY <1>1
  <2> HIDE DEF last, words
  <2>3. Len(words) = last /\ \A n \in 1 .. last : words[n] = Word(mb, 8 * n - 7)
    BY <2>1, <2>2
  <2>4. words \in Seq(HalfPairs)
    <3>1. \A n \in 1 .. last : Word(mb, 8 * n - 7) \in HalfPairs
      BY <1>2
    <3> QED
      BY <2>1, <2>2, <3>1
  <2> QED
    BY <2>3, <2>4
<1>4. Len(Parsed(msg)) = last
  BY DEF Parsed
<1>5. PICK start : start = Start(key)
  OBVIOUS
<1>6. PICK absorbed : absorbed = Absorb(start, words)
  OBVIOUS
<1>7. Sip(key, msg) = Folded(Finish(absorbed))
  BY <1>5, <1>6 DEF Sip, mb
<1> HIDE DEF words, last
<1>8. start \in States
  BY <1>5, StartNumbers
<1>9. absorbed \in States /\ Numbers(absorbed) = SipAbsorb(Numbers(start), Parsed(msg))
  BY <1>2, <1>3, <1>4, <1>6, <1>8, AbsorbNumbers
<1>10. PICK finished : finished = Finish(absorbed)
  OBVIOUS
<1>11. /\ finished \in States
       /\ Numbers(finished) = TwoSipRounds(TwoSipRounds(WXorInto(Numbers(absorbed), 3, ByteMod - 1)))
  BY <1>9, <1>10, FinishNumbers
<1>12. /\ Folded(finished) \in HalfPairs
       /\ Number(Folded(finished)) = LET u == Numbers(finished)
                                     IN WXor(WXor(u[1], u[2]), WXor(u[3], u[4]))
  BY <1>11, FoldedNumber
<1>13. SipHash24(key, msg) = LET u == Numbers(finished)
                             IN WXor(WXor(u[1], u[2]), WXor(u[3], u[4]))
  BY <1>5, <1>9, <1>11, StartNumbers DEF SipHash24, WXorInto
<1> QED
  BY <1>7, <1>10, <1>12, <1>13

------------------------------------------------------------------------------
(* The tokens. *)

\* What is signed of a visitor.
WellFormed(cookie) == cookie.id \in Seq(Bytes) /\ cookie.issuedAt \in Bytes

Issued == {"answered", "received", "lost"}

TokenInv ==
  /\ viewer \in Viewers
  /\ HasVisitor(jar) => WellFormed(jar)
  /\ \A r \in Requests :
       /\ HasVisitor(carried[r]) => WellFormed(carried[r])
       /\ rpc[r] = "answered" => WellFormed(reply[r].cookie)
       /\ reply[r] # NoReply =>
            /\ rpc[r] \in Issued
            /\ reply[r].token.sig \in HalfPairs
            /\ Told(r).new => Told(r).issuedAt \in 0 .. Told(r).ts
            /\ HasVisitor(reply[r].cookie)

LEMMA TextsAreBytes ==
  /\ Fpid \in Seq(Bytes) /\ \A n \in 0 .. MaxTime : n \in Bytes
  /\ \A r \in Requests : Uuid[r] \in Seq(Bytes)
  /\ \A v \in Viewers : v.ip \in Seq(Bytes) /\ v.asn \in Seq(Bytes)
  /\ \A c \in Foreign : WellFormed(c)
<1>1. \A text \in Seq(Bytes \ {Bar}) : text \in Seq(Bytes)
  OBVIOUS
<1>2. \A n \in 0 .. Bar - 1 : n \in Bytes
  BY TimeAssumption, Moduli DEF Bytes
<1>3. \A n \in 0 .. MaxTime : n \in Bytes
  BY TimeAssumption, <1>2, Moduli DEF Bytes
<1> QED
  BY <1>1, <1>2, <1>3, TextAssumption, TimeAssumption DEF WellFormed

LEMMA BarredBytes ==
  ASSUME NEW text \in Seq(Bytes), NEW rest \in Seq(Bytes)
  PROVE  Barred(text, rest) \in Seq(Bytes)
<1>1. <<Bar>> \in Seq(Bytes)
  BY TimeAssumption
<1> QED
  BY <1>1 DEF Barred

LEMMA SignedBytes ==
  ASSUME NEW t, t.id \in Seq(Bytes), t.issuedAt \in Bytes
  PROVE  /\ CookieText(t.id, t.issuedAt) \in Seq(Bytes)
         /\ (t.ip \in Seq(Bytes) /\ t.asn \in Seq(Bytes) /\ t.ts \in Bytes)
              => Canonical(t) \in Seq(Bytes)
<1>1. \A n \in Bytes : Decimal(n) \in Seq(Bytes)
  BY DEF Decimal
<1>2. CookieText(t.id, t.issuedAt) \in Seq(Bytes)
  BY <1>1, BarredBytes, TextsAreBytes DEF CookieText
<1>3. ASSUME t.ip \in Seq(Bytes), t.asn \in Seq(Bytes), t.ts \in Bytes
      PROVE  Canonical(t) \in Seq(Bytes)
  <2>1. Barred(t.asn, Decimal(t.ts)) \in Seq(Bytes)
    BY <1>1, <1>3, BarredBytes
  <2>2. Barred(t.ip, Barred(t.asn, Decimal(t.ts))) \in Seq(Bytes)
    BY <1>3, <2>1, BarredBytes
  <2>3. Barred(Decimal(t.issuedAt), Barred(t.ip, Barred(t.asn, Decimal(t.ts)))) \in Seq(Bytes)
    BY <1>1, <2>2, BarredBytes
  <2> QED
    BY <2>3, BarredBytes DEF Canonical
<1> QED
  BY <1>2, <1>3

\* What the function signs verifies.
LEMMA ResponseVerifies ==
  ASSUME SyncTypeOK, EdgeTypes, TokenInv, NEW r \in Requests, replica # NoKey
  PROVE  LET answer == Response(r)
             payload == answer.token.payload
             visitor == answer.cookie
             key == Key[replica]
         IN /\ answer.key = replica /\ HasVisitor(visitor) /\ WellFormed(visitor)
            /\ answer.token.sig \in HalfPairs
            /\ Verifies(answer.token.sig, key, Canonical(payload))
            /\ payload.new =>
                 /\ Verifies(visitor.sig, key, CookieText(visitor.id, visitor.issuedAt))
                 /\ payload.issuedAt \in 0 .. payload.ts
<1> DEFINE key == Key[replica]
           cookie == Cookie(r, key)
           payload == Payload(r, cookie)
           answer == Response(r)
<1>1. key \in Seq(Bytes) /\ Len(key) >= 16
  BY KeyAssumption DEF SyncTypeOK
<1>2. answer.key = replica /\ answer.cookie = cookie /\ answer.token = Token(key, payload)
  BY DEF Response
<1>3. /\ payload.id = cookie.id /\ payload.issuedAt = cookie.issuedAt
      /\ payload.new = (~HasVisitor(carried[r]))
      /\ payload.ip = viewer.ip /\ payload.asn = viewer.asn /\ payload.ts = clock
  BY DEF Payload
<1>4. HasVisitor(cookie)
  BY <1>2, ResponseRepeats
<1>5. WellFormed(cookie)
  <2>1. CASE HasVisitor(carried[r])
    BY <2>1 DEF Cookie, TokenInv
  <2>2. CASE ~HasVisitor(carried[r])
    <3>1. cookie.id = Uuid[r] /\ cookie.issuedAt = clock
      BY <2>2 DEF Cookie, Mint, Visitor
    <3> QED
      BY <3>1, TextsAreBytes DEF WellFormed, EdgeTypes
  <2> QED
    BY <2>1, <2>2
<1>6. ASSUME ~HasVisitor(carried[r])
      PROVE  /\ cookie.sig = Sip(key, CookieText(cookie.id, cookie.issuedAt))
             /\ cookie.issuedAt = clock
  BY <1>6 DEF Cookie, Mint, Visitor
<1> HIDE DEF cookie, payload
<1>7. Canonical(payload) \in Seq(Bytes)
  <2>1. payload.id \in Seq(Bytes) /\ payload.issuedAt \in Bytes
    BY <1>3, <1>5 DEF WellFormed
  <2>2. payload.ip \in Seq(Bytes) /\ payload.asn \in Seq(Bytes) /\ payload.ts \in Bytes
    BY <1>3, TextsAreBytes DEF TokenInv, EdgeTypes
  <2> QED
    BY <2>1, <2>2, SignedBytes
<1>8. answer.token.payload = payload /\ answer.token.sig = Sip(key, Canonical(payload))
  BY <1>2 DEF Token
<1> HIDE DEF answer, key
<1>9. answer.token.sig \in HalfPairs /\ Verifies(answer.token.sig, key, Canonical(payload))
  BY <1>1, <1>7, <1>8, SipIsSipHash24 DEF Verifies
<1>10. ASSUME payload.new
       PROVE  /\ Verifies(cookie.sig, key, CookieText(cookie.id, cookie.issuedAt))
              /\ payload.issuedAt \in 0 .. payload.ts
  <2>1. ~HasVisitor(carried[r])
    BY <1>3, <1>10
  <2>2. CookieText(cookie.id, cookie.issuedAt) \in Seq(Bytes)
    BY <1>5, SignedBytes DEF WellFormed
  <2>3. Verifies(cookie.sig, key, CookieText(cookie.id, cookie.issuedAt))
    BY <1>1, <1>6, <2>1, <2>2, SipIsSipHash24 DEF Verifies
  <2>4. payload.issuedAt = clock /\ payload.ts = clock /\ clock \in Nat
    BY <1>3, <1>6, <2>1, TimeAssumption DEF EdgeTypes
  <2> QED
    BY <2>3, <2>4
<1> QED
  BY <1>2, <1>4, <1>5, <1>8, <1>9, <1>10 DEF answer, key

LEMMA TokenInit == EdgeInit => TokenInv
<1> SUFFICES ASSUME EdgeInit PROVE TokenInv
  OBVIOUS
<1>1. viewer \in Viewers /\ jar \in {NoCookie} \cup Malformed \cup Foreign
  BY DEF EdgeInit
<1>2. HasVisitor(jar) => WellFormed(jar)
  BY <1>1, TextsAreBytes DEF HasVisitor
<1>3. \A r \in Requests : rpc[r] = "unsent" /\ carried[r] = NoCookie /\ reply[r] = NoReply
  BY DEF EdgeInit
<1>4. ~HasVisitor(NoCookie)
  BY DEF HasVisitor
<1> QED
  BY <1>1, <1>2, <1>3, <1>4 DEF TokenInv

\* Whatever a step does to a request but answer it.
LEMMA TokenStep ==
  SyncTypeOK /\ EdgeTypes /\ TokenInv /\ IdentityInv /\ [EdgeNext]_allVars => TokenInv'
<1> SUFFICES ASSUME SyncTypeOK, EdgeTypes, TokenInv, IdentityInv, [EdgeNext]_allVars
             PROVE  TokenInv'
  OBVIOUS
<1> USE DEF TokenInv
<1>1. CASE UNCHANGED <<viewer, jar, rpc, carried, reply>>
  BY <1>1 DEF HasVisitor, WellFormed, Told
<1>2. ASSUME NEW r \in Requests, Send(r) PROVE TokenInv'
  <2>1. /\ rpc[r] = "unsent" /\ rpc'[r] = "sent" /\ carried'[r] = jar
        /\ \A q \in Requests \ {r} : rpc'[q] = rpc[q] /\ carried'[q] = carried[q]
        /\ UNCHANGED <<viewer, jar, reply>>
    BY <1>2 DEF Send, EdgeTypes
  <2> QED
    BY <2>1 DEF HasVisitor, WellFormed, Told, Issued
<1>3. ASSUME NEW r \in Requests, Receive(r) PROVE TokenInv'
  <2>1. /\ rpc[r] = "answered" /\ rpc'[r] = "received" /\ jar' = reply[r].cookie
        /\ \A q \in Requests \ {r} : rpc'[q] = rpc[q]
        /\ UNCHANGED <<viewer, carried, reply>>
    BY <1>3 DEF Receive, EdgeTypes
  <2> QED
    BY <2>1 DEF HasVisitor, WellFormed, Told, Issued
<1>4. ASSUME NEW r \in Requests, LoseReply(r) PROVE TokenInv'
  <2>1. /\ rpc[r] = "answered" /\ rpc'[r] = "lost"
        /\ \A q \in Requests \ {r} : rpc'[q] = rpc[q]
        /\ UNCHANGED <<viewer, jar, carried, reply>>
    BY <1>4 DEF LoseReply, EdgeTypes
  <2> QED
    BY <2>1 DEF HasVisitor, WellFormed, Told, Issued
<1>5. ASSUME NEW r \in Requests, Unavailable(r) PROVE TokenInv'
  <2>1. /\ rpc[r] = "sent" /\ rpc'[r] = "unavailable"
        /\ \A q \in Requests \ {r} : rpc'[q] = rpc[q]
        /\ UNCHANGED <<viewer, jar, carried, reply>>
    BY <1>5 DEF Unavailable, EdgeTypes
  <2> QED
    BY <2>1 DEF HasVisitor, WellFormed, Told, Issued
<1>6. ASSUME NEW r \in Requests, Answer(r) PROVE TokenInv'
  <2> DEFINE answer == Response(r)
  <2>1. /\ rpc'[r] = "answered" /\ reply'[r] = answer /\ replica # NoKey
        /\ \A q \in Requests \ {r} : rpc'[q] = rpc[q] /\ reply'[q] = reply[q]
        /\ UNCHANGED <<viewer, jar, carried>>
    BY <1>6 DEF Answer, EdgeTypes
  <2>2. /\ HasVisitor(answer.cookie) /\ WellFormed(answer.cookie)
        /\ answer.token.sig \in HalfPairs
        /\ answer.token.payload.new =>
             answer.token.payload.issuedAt \in 0 .. answer.token.payload.ts
    BY <2>1, ResponseVerifies
  <2> HIDE DEF answer
  <2> QED
    BY <2>1, <2>2 DEF HasVisitor, WellFormed, Told, Issued
<1> QED
  BY <1>1, <1>2, <1>3, <1>4, <1>5, <1>6 DEF EdgeNext, Tick, AllServed, allVars, edgeVars

LEMMA EdgeInvariant ==
  EdgeSpec => [](SyncTypeOK /\ SyncInv /\ EdgeTypes /\ IdentityInv /\ TokenInv)
  BY SyncInvariant, IdentityInit, EdgeTypesStep, IdentityStep, TokenInit, TokenStep, PTL
     DEF EdgeSpec

\* The type invariant of the edge function: a response is of a request that was
\* answered, its signature is two halves, and it does not come from the future.
THEOREM EdgeTypeCorrect == EdgeSpec => []EdgeTypeOK
<1>1. SyncTypeOK /\ EdgeTypes /\ TokenInv => EdgeTypeOK
  BY DEF EdgeTypes, TokenInv, EdgeTypeOK, Issued
<1> QED
  BY <1>1, EdgeInvariant, PTL

\* Every token, and every cookie minted with one, verifies by SipHash-2-4 as it is
\* defined, under the key the function read, and under the secret once its copy is
\* at the edge: for all texts, keys and widths of a byte.
THEOREM TokensVerifyHolds == EdgeSpec => TokensVerify
<1> DEFINE Verifying(r) ==
      (reply[r] = NoReply /\ reply'[r] # NoReply) =>
        LET answer == reply'[r]
            key == Key[IF synced /\ replica = stored THEN secret ELSE answer.key]
            visitor == answer.cookie
        IN /\ Verifies(answer.token.sig, key, Canonical(answer.token.payload))
           /\ answer.token.payload.new =>
                Verifies(visitor.sig, key, CookieText(visitor.id, visitor.issuedAt))
<1>1. ASSUME SyncTypeOK, SyncInv, EdgeTypes, TokenInv, [EdgeNext]_allVars, NEW r \in Requests
      PROVE  Verifying(r)
  <2> SUFFICES ASSUME reply[r] = NoReply, reply'[r] # NoReply PROVE Verifying(r)
    OBVIOUS
  <2>1. \E q \in Requests : Answer(q)
    BY <1>1 DEF EdgeNext, Tick, Send, Receive, LoseReply, Unavailable, AllServed,
                allVars, edgeVars
  <2>2. PICK q \in Requests : Answer(q)
    BY <2>1
  <2>3. q = r
    BY <1>1, <2>2 DEF Answer, EdgeTypes
  <2> DEFINE answer == Response(r)
  <2>4. reply'[r] = answer /\ replica # NoKey
    BY <1>1, <2>2, <2>3 DEF Answer, EdgeTypes
  <2>5. /\ answer.key = replica
        /\ Verifies(answer.token.sig, Key[replica], Canonical(answer.token.payload))
        /\ answer.token.payload.new =>
             Verifies(answer.cookie.sig, Key[replica],
                      CookieText(answer.cookie.id, answer.cookie.issuedAt))
    BY <1>1, <2>4, ResponseVerifies
  <2> HIDE DEF answer
  <2>6. (IF synced /\ replica = stored THEN secret ELSE answer.key) = replica
    BY <1>1, <2>5 DEF SyncInv, KvsHoldsTheSecret
  <2> QED
    BY <2>4, <2>5, <2>6
<1>2. SyncTypeOK /\ SyncInv /\ EdgeTypes /\ TokenInv /\ [EdgeNext]_allVars
        => [\A r \in Requests : Verifying(r)]_allVars
  BY <1>1
<1> QED
  BY <1>2, EdgeInvariant, PTL DEF EdgeSpec, TokensVerify
==============================================================================
