-------------------------- MODULE MeasurementProofs ---------------------------
(***************************************************************************)
(* Proofs about Measurement: peekConn replays, whatever the client sends;  *)
(* whatever a client offers, the parser finds in its ClientHello, and the  *)
(* JA4 is of that; and the corrections of the round-trip times, whatever   *)
(* they are.                                                               *)
(*                                                                         *)
(* The parser's loops are functions of the number of rounds.  That such a  *)
(* function exists, and what it ends at, is proved through sets of numbers *)
(* of rounds, which have a least element; see IterationExists and UpTo.    *)
(***************************************************************************)
EXTENDS Measurement, SequenceTheorems, FiniteSetTheorems, FunctionTheorems, TLAPS

------------------------------------------------------------------------------
(* Loops. *)

\* Numbers have a least one.
LEMMA Least ==
  ASSUME NEW T \in SUBSET Nat, T # {}
  PROVE  \E x \in T : \A y \in T : ~(y < x)
<1>1. IsWellFoundedOn(OpToRel(<, Nat), Nat)
  BY NatLessThanWellFounded
<1>2. \E x \in T : \A y \in T : <<y, x>> \notin OpToRel(<, Nat)
  BY <1>1, WFMin
<1> QED
  BY <1>2 DEF OpToRel

\* What holds of 0 and is passed on holds of all up to N.
LEMMA UpTo ==
  ASSUME NEW N \in Nat, NEW T, 0 \in T, \A n \in 1 .. N : n - 1 \in T => n \in T
  PROVE  \A n \in 0 .. N : n \in T
<1> DEFINE U == (0 .. N) \ T
<1>1. SUFFICES ASSUME U # {} PROVE FALSE
  OBVIOUS
<1>2. U \in SUBSET Nat
  OBVIOUS
<1> HIDE DEF U
<1>3. PICK x \in U : \A y \in U : ~(y < x)
  BY <1>1, <1>2, Least
<1>4. x \in 1 .. N /\ x \notin T
  BY <1>3 DEF U
<1>5. x - 1 \notin T
  BY <1>4
<1>6. x - 1 \in U
  BY <1>4, <1>5 DEF U
<1> QED
  BY <1>3, <1>4, <1>6

\* g repeats the steps, starting from start.
Iterates(g, start, step, N) ==
  /\ g[0] = start
  /\ \A n \in 1 .. N : g[n] = step[n][g[n - 1]]

\* Repeated steps reach a value after each number of rounds.
LEMMA IterationExists ==
  ASSUME NEW S, NEW N \in Nat, NEW start \in S, NEW step \in [1 .. N -> [S -> S]]
  PROVE  \E g \in [0 .. N -> S] : Iterates(g, start, step, N)
<1> DEFINE Has(m) == \E g \in [0 .. m -> S] : Iterates(g, start, step, m)
           T == {m \in 0 .. N : Has(m)}
<1>1. 0 \in T
  <2>1. [n \in 0 .. 0 |-> start] \in [0 .. 0 -> S]
    OBVIOUS
  <2>2. Iterates([n \in 0 .. 0 |-> start], start, step, 0)
    BY DEF Iterates
  <2> QED
    BY <2>1, <2>2
<1>2. ASSUME NEW n \in 1 .. N, n - 1 \in T PROVE n \in T
  <2>1. PICK m \in Nat : n = m + 1
    OBVIOUS
  <2>2. m \in T /\ m + 1 \in 1 .. N /\ step[m + 1] \in [S -> S]
    BY <1>2, <2>1
  <2>3. PICK g \in [0 .. m -> S] : Iterates(g, start, step, m)
    BY <2>2
  <2> DEFINE h == [k \in 0 .. m + 1 |-> IF k = m + 1 THEN step[m + 1][g[m]] ELSE g[k]]
  <2>4. g[m] \in S /\ step[m + 1][g[m]] \in S
    BY <2>2, <2>3
  <2>5. h \in [0 .. m + 1 -> S]
    BY <2>4
  <2>6. h[0] = start
    BY <2>3 DEF Iterates
  <2>7. ASSUME NEW k \in 1 .. m + 1 PROVE h[k] = step[k][h[k - 1]]
    <3>1. CASE k = m + 1
      BY <3>1
    <3>2. CASE k # m + 1
      <4>1. k \in 1 .. m /\ k - 1 \in 0 .. m /\ k \in 0 .. m
        BY <3>2
      <4>2. g[k] = step[k][g[k - 1]]
        BY <2>3, <4>1, Zenon DEF Iterates
      <4> QED
        BY <3>2, <4>1, <4>2
    <3> QED
      BY <3>1, <3>2
  <2>8. Iterates(h, start, step, m + 1)
    BY <2>6, <2>7 DEF Iterates
  <2> HIDE DEF h
  <2> QED
    BY <2>1, <2>2, <2>5, <2>8
<1> HIDE DEF T, Has
<1>3. N \in T
  <2>1. \A n \in 0 .. N : n \in T
    BY <1>1, <1>2, UpTo, Zenon
  <2> QED
    BY <2>1
<1> QED
  BY <1>3 DEF T, Has

Agree(f, g, N) ==
  /\ f[0] = g[0]
  /\ \A n \in 1 .. N : f[n - 1] = g[n - 1] => f[n] = g[n]

\* Two functions that begin alike and go on alike are alike.
LEMMA SameValues ==
  ASSUME NEW N \in Nat, NEW f, NEW g, Agree(f, g, N)
  PROVE  \A n \in 0 .. N : f[n] = g[n]
<1> DEFINE T == {n \in 0 .. N : f[n] = g[n]}
<1>1. 0 \in T
  BY DEF Agree
<1>2. \A n \in 1 .. N : n - 1 \in T => n \in T
  BY DEF Agree
<1> HIDE DEF T
<1>3. \A n \in 0 .. N : n \in T
  BY <1>1, <1>2, UpTo, Zenon
<1> QED
  BY <1>3 DEF T

------------------------------------------------------------------------------
(* The loops of the parser, and of what it parses. *)

\* The loops that leave values out.
LeavesOut(f, values, others) ==
  /\ f[0] = <<>>
  /\ \A n \in 1 .. Len(values) : f[n] = IF values[n] \in others THEN f[n - 1] ELSE Append(f[n - 1], values[n])

LEMMA WithoutLoop ==
  ASSUME NEW S, NEW values \in Seq(S), NEW others
  PROVE  \E f \in [0 .. Len(values) -> Seq(S)] :
           LeavesOut(f, values, others) /\ Without(values, others) = f[Len(values)]
<1> DEFINE N == Len(values)
           R == Seq(S)
           start == <<>>
           Step(n, list) == IF values[n] \in others THEN list ELSE Append(list, values[n])
           step == [n \in 1 .. N |-> [list \in R |-> Step(n, list)]]
           Unfold(f) == [n \in 0 .. N |-> IF n = 0 THEN start ELSE Step(n, f[n - 1])]
           loop == CHOOSE f : f = Unfold(f)
<1>1. Without(values, others) = loop[N]
  BY DEF Without
<1>2. N \in Nat /\ start \in R
  BY LenProperties, EmptySeq
<1>3. \A n \in 1 .. N, list \in R : Step(n, list) \in R
  BY ElementOfSeq, AppendProperties
<1> HIDE DEF N, R, start, loop, Step
<1>4. step \in [1 .. N -> [R -> R]]
  BY <1>3
<1>5. \A n \in 1 .. N, list \in R : step[n][list] = Step(n, list)
  OBVIOUS
<1> HIDE DEF step
<1>6. PICK g \in [0 .. N -> R] : Iterates(g, start, step, N)
  BY <1>2, <1>4, IterationExists
<1>7. \A n \in 1 .. N : g[n - 1] \in R /\ g[n] = Step(n, g[n - 1])
  <2> SUFFICES ASSUME NEW n \in 1 .. N PROVE g[n - 1] \in R /\ g[n] = Step(n, g[n - 1])
    OBVIOUS
  <2>1. n - 1 \in 0 .. N
    BY <1>2
  <2>2. g[n] = step[n][g[n - 1]]
    BY <1>6, Zenon DEF Iterates
  <2> QED
    BY <1>5, <2>1, <2>2
<1>8. g = Unfold(g)
  BY <1>2, <1>6, <1>7 DEF Iterates
<1>9. PICK k : k = loop /\ k = Unfold(k)
  <2> HIDE DEF Unfold
  <2> QED
    BY <1>8 DEF loop
<1>10. k[0] = start /\ \A n \in 1 .. N : k[n] = Step(n, k[n - 1])
  <2>1. \A n \in 0 .. N : Unfold(k)[n] = IF n = 0 THEN start ELSE Step(n, k[n - 1])
    OBVIOUS
  <2> HIDE DEF Unfold
  <2>2. \A n \in 0 .. N : k[n] = IF n = 0 THEN start ELSE Step(n, k[n - 1])
    BY <1>9, <2>1
  <2> QED
    BY <1>2, <2>2
<1>11. \A n \in 0 .. N : k[n] = g[n]
  <2>1. k[0] = g[0]
    BY <1>6, <1>10 DEF Iterates
  <2>2. \A n \in 1 .. N : k[n - 1] = g[n - 1] => k[n] = g[n]
    BY <1>7, <1>10, Zenon
  <2>3. Agree(k, g, N)
    BY <2>1, <2>2, Zenon DEF Agree
  <2> QED
    BY <1>2, <2>3, SameValues
<1>12. g[0] = start /\ loop[N] = g[N]
  BY <1>2, <1>6, <1>9, <1>11 DEF Iterates
<1>13. LeavesOut(g, values, others)
  BY <1>7, <1>12 DEF LeavesOut, N, start, Step
<1> QED
  BY <1>1, <1>12, <1>13 DEF N, R

\* Parts, put together from the last one on.
PutsTogether(f, parts) ==
  /\ f[0] = <<>>
  /\ \A n \in 1 .. Len(parts) : f[n] = parts[Len(parts) - n + 1] \o f[n - 1]

LEMMA ChainLoop ==
  ASSUME NEW S, NEW parts \in Seq(Seq(S))
  PROVE  \E f \in [0 .. Len(parts) -> Seq(S)] :
           PutsTogether(f, parts) /\ Chain(parts) = f[Len(parts)]
<1> DEFINE N == Len(parts)
           R == Seq(S)
           start == <<>>
           Step(n, last) == parts[Len(parts) - n + 1] \o last
           step == [n \in 1 .. N |-> [last \in R |-> Step(n, last)]]
           Unfold(f) == [n \in 0 .. N |-> IF n = 0 THEN start ELSE Step(n, f[n - 1])]
           loop == CHOOSE f : f = Unfold(f)
<1>1. Chain(parts) = loop[N]
  BY DEF Chain
<1>2. N \in Nat /\ start \in R
  BY LenProperties, EmptySeq
<1>3. \A n \in 1 .. N, last \in R : Step(n, last) \in R
  <2>1. Len(parts) \in Nat
    BY LenProperties
  <2>2. \A n \in 1 .. N : parts[Len(parts) - n + 1] \in Seq(S)
    BY <2>1, ElementOfSeq
  <2> QED
    BY <2>2, ConcatProperties
<1> HIDE DEF N, R, start, loop, Step
<1>4. step \in [1 .. N -> [R -> R]]
  BY <1>3
<1>5. \A n \in 1 .. N, last \in R : step[n][last] = Step(n, last)
  OBVIOUS
<1> HIDE DEF step
<1>6. PICK g \in [0 .. N -> R] : Iterates(g, start, step, N)
  BY <1>2, <1>4, IterationExists
<1>7. \A n \in 1 .. N : g[n - 1] \in R /\ g[n] = Step(n, g[n - 1])
  <2> SUFFICES ASSUME NEW n \in 1 .. N PROVE g[n - 1] \in R /\ g[n] = Step(n, g[n - 1])
    OBVIOUS
  <2>1. n - 1 \in 0 .. N
    BY <1>2
  <2>2. g[n] = step[n][g[n - 1]]
    BY <1>6, Zenon DEF Iterates
  <2> QED
    BY <1>5, <2>1, <2>2
<1>8. g = Unfold(g)
  BY <1>2, <1>6, <1>7 DEF Iterates
<1>9. PICK k : k = loop /\ k = Unfold(k)
  <2> HIDE DEF Unfold
  <2> QED
    BY <1>8 DEF loop
<1>10. k[0] = start /\ \A n \in 1 .. N : k[n] = Step(n, k[n - 1])
  <2>1. \A n \in 0 .. N : Unfold(k)[n] = IF n = 0 THEN start ELSE Step(n, k[n - 1])
    OBVIOUS
  <2> HIDE DEF Unfold
  <2>2. \A n \in 0 .. N : k[n] = IF n = 0 THEN start ELSE Step(n, k[n - 1])
    BY <1>9, <2>1
  <2> QED
    BY <1>2, <2>2
<1>11. \A n \in 0 .. N : k[n] = g[n]
  <2>1. k[0] = g[0]
    BY <1>6, <1>10 DEF Iterates
  <2>2. \A n \in 1 .. N : k[n - 1] = g[n - 1] => k[n] = g[n]
    BY <1>7, <1>10, Zenon
  <2>3. Agree(k, g, N)
    BY <2>1, <2>2, Zenon DEF Agree
  <2> QED
    BY <1>2, <2>3, SameValues
<1>12. g[0] = start /\ loop[N] = g[N]
  BY <1>2, <1>6, <1>9, <1>11 DEF Iterates
<1>13. PutsTogether(g, parts)
  BY <1>7, <1>12 DEF PutsTogether, N, start, Step
<1> QED
  BY <1>1, <1>12, <1>13 DEF N, R

------------------------------------------------------------------------------
(* What the parser makes of any bytes. *)

\* What begins at position i.
LEMMA FromTyped ==
  ASSUME NEW S, NEW b \in Seq(S), NEW i \in Nat \ {0}
  PROVE  /\ From(b, i) \in Seq(S)
         /\ Len(From(b, i)) = IF i <= Len(b) THEN Len(b) - i + 1 ELSE 0
         /\ \A k \in 1 .. Len(b) - i + 1 : From(b, i)[k] = b[i + k - 1]
<1>1. Len(b) \in Nat /\ \A k \in i .. Len(b) : b[k] \in S
  BY LenProperties, ElementOfSeq
<1> QED
  BY <1>1, SubSeqProperties DEF From

\* The first n.
LEMMA PrefixTyped ==
  ASSUME NEW S, NEW b \in Seq(S), NEW n \in 0 .. Len(b)
  PROVE  /\ SubSeq(b, 1, n) \in Seq(S) /\ Len(SubSeq(b, 1, n)) = n
         /\ \A k \in 1 .. n : SubSeq(b, 1, n)[k] = b[k]
<1>1. Len(b) \in Nat /\ n \in Nat /\ \A k \in 1 .. n : b[k] \in S
  BY LenProperties, ElementOfSeq
<1> QED
  BY <1>1, SubSeqProperties

LEMMA PartTyped ==
  ASSUME NEW S, NEW b \in Seq(S), NEW i \in Nat \ {0}, NEW n \in Nat, n <= Len(b)
  PROVE  SubSeq(b, i, n) \in Seq(S)
<1>1. Len(b) \in Nat /\ \A k \in i .. n : b[k] \in S
  BY LenProperties, ElementOfSeq
<1> QED
  BY <1>1, SubSeqProperties

\* The numbers of a byte, and of two.
LEMMA ByteIs == \A n \in Int : n \in Byte <=> 0 <= n /\ n <= 255
  BY SMTT(40) DEF Byte

LEMMA UInt16Is == \A n \in Int : n \in UInt16 <=> 0 <= n /\ n <= 65535
  BY SMTT(40) DEF UInt16

LEMMA NumbersAreNat == Byte \subseteq Nat /\ UInt16 \subseteq Nat
  BY SMT DEF Byte, UInt16

LEMMA TwoBytes ==
  ASSUME NEW high \in Byte, NEW low \in Byte
  PROVE  high * 256 + low \in UInt16
<1>1. high \in Nat /\ low \in Nat /\ high <= 255 /\ low <= 255
  BY NumbersAreNat, ByteIs, SMT
<1>2. high * 256 + low \in Int /\ 0 <= high * 256 + low /\ high * 256 + low <= 65535
  BY <1>1, SMT
<1> QED
  BY <1>2, UInt16Is, SMT

\* What is read is in range, of any bytes.
LEMMA WordTyped ==
  ASSUME NEW b \in Seq(Byte), NEW i \in 1 .. Len(b) - 1
  PROVE  Word(b, i) \in UInt16
<1>1. Len(b) \in Nat
  BY LenProperties
<1>2. b[i] \in Byte /\ b[i + 1] \in Byte
  BY <1>1, ElementOfSeq
<1> QED
  BY <1>2, TwoBytes DEF Word

LEMMA WordsTyped ==
  ASSUME NEW b \in Seq(Byte)
  PROVE  /\ Words(b) \in Seq(UInt16) /\ Len(Words(b)) = Len(b) \div 2
         /\ \A i \in 1 .. Len(b) \div 2 : Words(b)[i] = Word(b, 2 * i - 1)
<1> DEFINE N == Len(b) \div 2
<1>1. Len(b) \in Nat
  BY LenProperties
<1>2. N \in Nat
  BY <1>1
<1>3. \A i \in 1 .. N : Word(b, 2 * i - 1) \in UInt16
  <2> SUFFICES ASSUME NEW i \in 1 .. N PROVE Word(b, 2 * i - 1) \in UInt16
    OBVIOUS
  <2>1. 2 * i - 1 \in 1 .. Len(b) - 1
    BY <1>1
  <2> QED
    BY <2>1, WordTyped
<1>4. Words(b) = [i \in 1 .. N |-> Word(b, 2 * i - 1)]
  BY DEF Words
<1> HIDE DEF N
<1>5. Words(b) \in Seq(UInt16)
  BY <1>2, <1>3, <1>4, IsASeq
<1>6. Len(Words(b)) = N
  BY <1>2, <1>4
<1>7. \A i \in 1 .. N : Words(b)[i] = Word(b, 2 * i - 1)
  BY <1>4
<1> QED
  BY <1>5, <1>6, <1>7 DEF N

LEMMA Vector8Typed ==
  ASSUME NEW b \in Seq(Byte), Has8(b)
  PROVE  Value8(b) \in Seq(Byte) /\ After8(b) \in Seq(Byte)
<1>1. Len(b) \in Nat /\ Len(b) >= 1 /\ Len(b) - 1 >= b[1] /\ b[1] \in Byte
  BY LenProperties, ElementOfSeq DEF Has8
<1>2. PICK n \in Nat : n = b[1]
  BY <1>1, NumbersAreNat
<1>3. 1 + n \in Nat /\ 1 + n <= Len(b) /\ 2 + n \in Nat \ {0}
  BY <1>1, <1>2
<1>4. SubSeq(b, 2, 1 + n) \in Seq(Byte)
  BY <1>3, PartTyped
<1>5. From(b, 2 + n) \in Seq(Byte)
  BY <1>3, FromTyped
<1> QED
  BY <1>2, <1>4, <1>5 DEF Value8, After8

LEMMA Vector16Typed ==
  ASSUME NEW b \in Seq(Byte), Has16(b)
  PROVE  Value16(b) \in Seq(Byte) /\ After16(b) \in Seq(Byte) /\ Word(b, 1) \in UInt16
<1>1. Len(b) \in Nat /\ Len(b) >= 2
  BY LenProperties DEF Has16
<1>2. Word(b, 1) \in UInt16
  BY <1>1, WordTyped
<1>3. PICK n \in Nat : n = Word(b, 1)
  BY <1>2, NumbersAreNat
<1>4. Len(b) - 2 >= n
  BY <1>3 DEF Has16
<1>5. 2 + n \in Nat /\ 2 + n <= Len(b) /\ 3 + n \in Nat \ {0}
  BY <1>1, <1>3, <1>4
<1>6. SubSeq(b, 3, 2 + n) \in Seq(Byte)
  BY <1>5, PartTyped
<1>7. From(b, 3 + n) \in Seq(Byte)
  BY <1>5, FromTyped
<1> QED
  BY <1>2, <1>3, <1>6, <1>7 DEF Value16, After16

LEMMA PairsTyped ==
  ASSUME NEW b \in Seq(Byte), NEW n \in Nat
  PROVE  Pairs(b, n) \in Seq(UInt16)
<1>1. Len(b) \in Nat
  BY LenProperties
<1>2. AtMost(n + (n % 2), Len(b)) \in 0 .. Len(b)
  BY <1>1 DEF AtMost
<1> QED
  BY <1>2, PrefixTyped, WordsTyped DEF Pairs

ParsedProtocols == [rest : Seq(Byte), protocols : Seq(Seq(Byte))]

LEMMA NextProtocolTyped ==
  ASSUME NEW s \in ParsedProtocols
  PROVE  NextProtocol(s) \in ParsedProtocols
<1>1. s.rest \in Seq(Byte) /\ s.protocols \in Seq(Seq(Byte))
  BY DEF ParsedProtocols
<1>2. CASE Has8(s.rest)
  <2>1. After8(s.rest) \in Seq(Byte) /\ Append(s.protocols, Value8(s.rest)) \in Seq(Seq(Byte))
    BY <1>1, <1>2, Vector8Typed, AppendProperties
  <2> QED
    BY <1>2, <2>1 DEF NextProtocol, ParsedProtocols
<1> QED
  BY <1>2 DEF NextProtocol

LEMMA SigAlgsOfTyped ==
  ASSUME NEW b \in Seq(Byte)
  PROVE  SigAlgsOf(b) \in Seq(UInt16)
<1>1. CASE Len(b) < 2
  BY <1>1, EmptySeq DEF SigAlgsOf
<1>2. CASE ~(Len(b) < 2)
  <2>1. 1 \in 1 .. Len(b) - 1
    BY <1>2, LenProperties
  <2>2. Word(b, 1) \in Nat
    BY <2>1, WordTyped, NumbersAreNat
  <2> QED
    BY <1>2, <2>2, FromTyped, PairsTyped DEF SigAlgsOf
<1> QED
  BY <1>1, <1>2

LEMMA VersionsOfTyped ==
  ASSUME NEW b \in Seq(Byte)
  PROVE  VersionsOf(b) \in Seq(UInt16)
<1>1. CASE Len(b) < 1
  BY <1>1, EmptySeq DEF VersionsOf
<1>2. CASE ~(Len(b) < 1)
  <2>1. 1 \in 1 .. Len(b)
    BY <1>2, LenProperties
  <2>2. b[1] \in Nat
    BY <2>1, ElementOfSeq, NumbersAreNat
  <2>3. From(b, 2) \in Seq(Byte)
    BY FromTyped
  <2>4. Pairs(From(b, 2), b[1]) \in Seq(UInt16)
    BY <2>2, <2>3, PairsTyped
  <2> QED
    BY <1>2, <2>4 DEF VersionsOf
<1> QED
  BY <1>1, <1>2

\* The loop over protocol names.
ReadsProtocols(f, b) ==
  /\ f[0] = [rest |-> b, protocols |-> <<>>]
  /\ \A n \in 1 .. Len(b) : f[n] = NextProtocol(f[n - 1])

LEMMA ProtocolLoop ==
  ASSUME NEW b \in Seq(Byte)
  PROVE  \E f \in [0 .. Len(b) -> ParsedProtocols] :
           ReadsProtocols(f, b) /\ ProtocolList(b) = f[Len(b)].protocols
<1> DEFINE N == Len(b)
           R == ParsedProtocols
           start == [rest |-> b, protocols |-> <<>>]
           Step(n, s) == NextProtocol(s)
           step == [n \in 1 .. N |-> [s \in R |-> Step(n, s)]]
           Unfold(f) == [n \in 0 .. N |-> IF n = 0 THEN start ELSE Step(n, f[n - 1])]
           loop == CHOOSE f : f = Unfold(f)
<1>1. ProtocolList(b) = loop[N].protocols
  BY DEF ProtocolList
<1>2. N \in Nat /\ start \in R
  BY LenProperties, EmptySeq DEF ParsedProtocols
<1>3. \A n \in 1 .. N, s \in R : Step(n, s) \in R
  BY NextProtocolTyped
<1> HIDE DEF N, R, start, loop, Step
<1>4. step \in [1 .. N -> [R -> R]]
  BY <1>3
<1>5. \A n \in 1 .. N, s \in R : step[n][s] = Step(n, s)
  OBVIOUS
<1> HIDE DEF step
<1>6. PICK g \in [0 .. N -> R] : Iterates(g, start, step, N)
  BY <1>2, <1>4, IterationExists
<1>7. \A n \in 1 .. N : g[n - 1] \in R /\ g[n] = Step(n, g[n - 1])
  <2> SUFFICES ASSUME NEW n \in 1 .. N PROVE g[n - 1] \in R /\ g[n] = Step(n, g[n - 1])
    OBVIOUS
  <2>1. n - 1 \in 0 .. N
    BY <1>2
  <2>2. g[n] = step[n][g[n - 1]]
    BY <1>6, Zenon DEF Iterates
  <2> QED
    BY <1>5, <2>1, <2>2
<1>8. g = Unfold(g)
  BY <1>2, <1>6, <1>7 DEF Iterates
<1>9. PICK k : k = loop /\ k = Unfold(k)
  <2> HIDE DEF Unfold
  <2> QED
    BY <1>8 DEF loop
<1>10. k[0] = start /\ \A n \in 1 .. N : k[n] = Step(n, k[n - 1])
  <2>1. \A n \in 0 .. N : Unfold(k)[n] = IF n = 0 THEN start ELSE Step(n, k[n - 1])
    OBVIOUS
  <2> HIDE DEF Unfold
  <2>2. \A n \in 0 .. N : k[n] = IF n = 0 THEN start ELSE Step(n, k[n - 1])
    BY <1>9, <2>1
  <2> QED
    BY <1>2, <2>2
<1>11. \A n \in 0 .. N : k[n] = g[n]
  <2>1. k[0] = g[0]
    BY <1>6, <1>10 DEF Iterates
  <2>2. \A n \in 1 .. N : k[n - 1] = g[n - 1] => k[n] = g[n]
    BY <1>7, <1>10, Zenon
  <2>3. Agree(k, g, N)
    BY <2>1, <2>2, Zenon DEF Agree
  <2> QED
    BY <1>2, <2>3, SameValues
<1>12. g[0] = start /\ loop[N] = g[N]
  BY <1>2, <1>6, <1>9, <1>11 DEF Iterates
<1>13. ReadsProtocols(g, b)
  BY <1>7, <1>12 DEF ReadsProtocols, N, start, Step
<1> QED
  BY <1>1, <1>12, <1>13 DEF N, R

LEMMA AlpnOfTyped ==
  ASSUME NEW b \in Seq(Byte)
  PROVE  AlpnOf(b) \in Seq(Seq(Byte))
<1>1. CASE Len(b) < 2
  BY <1>1, EmptySeq DEF AlpnOf
<1>2. CASE ~(Len(b) < 2)
  <2>1. 1 \in 1 .. Len(b) - 1 /\ Len(b) \in Nat
    BY <1>2, LenProperties
  <2>2. Word(b, 1) \in Nat
    BY <2>1, WordTyped, NumbersAreNat
  <2> DEFINE n == AtMost(2 + Word(b, 1), Len(b))
             names == SubSeq(b, 3, n)
  <2>3. n \in Nat /\ n <= Len(b)
    BY <2>1, <2>2 DEF AtMost
  <2>4. AlpnOf(b) = ProtocolList(names)
    BY <1>2 DEF AlpnOf
  <2> HIDE DEF n
  <2>5. names \in Seq(Byte)
    BY <2>3, PartTyped
  <2> HIDE DEF names
  <2>6. PICK f \in [0 .. Len(names) -> ParsedProtocols] : ProtocolList(names) = f[Len(names)].protocols
    BY <2>5, ProtocolLoop
  <2>7. f[Len(names)] \in ParsedProtocols
    BY <2>5, LenProperties
  <2> QED
    BY <2>4, <2>6, <2>7 DEF ParsedProtocols
<1> QED
  BY <1>1, <1>2

ParsedFields ==
  [version : UInt16, cipherSuites : Seq(UInt16), extensions : Seq(UInt16), hasSNI : BOOLEAN,
   sigAlgs : Seq(UInt16), alpnProtocols : Seq(Seq(Byte)), supportedVersions : Seq(UInt16)]

ParsedExtensions == [rest : Seq(Byte), fields : ParsedFields]

LEMMA WithExtensionTyped ==
  ASSUME NEW f \in ParsedFields, NEW type \in UInt16, NEW body \in Seq(Byte)
  PROVE  WithExtension(f, type, body) \in ParsedFields
<1>1. /\ f.extensions \in Seq(UInt16) /\ f.hasSNI \in BOOLEAN /\ f.sigAlgs \in Seq(UInt16)
      /\ f.alpnProtocols \in Seq(Seq(Byte)) /\ f.supportedVersions \in Seq(UInt16)
  BY DEF ParsedFields
<1>2. Append(f.extensions, type) \in Seq(UInt16)
  BY <1>1, AppendProperties
<1>3. f.sigAlgs \o (IF type = 13 THEN SigAlgsOf(body) ELSE <<>>) \in Seq(UInt16)
  BY <1>1, SigAlgsOfTyped, ConcatProperties, EmptySeq
<1>4. f.alpnProtocols \o (IF type = 16 THEN AlpnOf(body) ELSE <<>>) \in Seq(Seq(Byte))
  BY <1>1, AlpnOfTyped, ConcatProperties, EmptySeq
<1>5. f.supportedVersions \o (IF type = 43 THEN VersionsOf(body) ELSE <<>>) \in Seq(UInt16)
  BY <1>1, VersionsOfTyped, ConcatProperties, EmptySeq
<1>6. f.hasSNI \/ (type = 0 /\ Len(body) >= 5) \in BOOLEAN
  OBVIOUS
<1>7. f.version \in UInt16 /\ f.cipherSuites \in Seq(UInt16)
  BY DEF ParsedFields
<1> QED
  BY <1>1, <1>2, <1>3, <1>4, <1>5, <1>6, <1>7 DEF WithExtension, ParsedFields

LEMMA NextExtensionTyped ==
  ASSUME NEW s \in ParsedExtensions
  PROVE  NextExtension(s) \in ParsedExtensions
<1> DEFINE value == From(s.rest, 3)
<1>1. s.rest \in Seq(Byte) /\ s.fields \in ParsedFields
  BY DEF ParsedExtensions
<1>2. value \in Seq(Byte)
  BY <1>1, FromTyped
<1>3. NextExtension(s) =
        IF Len(s.rest) < 4 \/ ~Has16(value) THEN s
        ELSE [rest |-> After16(value),
              fields |-> WithExtension(s.fields, Word(s.rest, 1), Value16(value))]
  BY DEF NextExtension
<1> HIDE DEF value
<1>4. CASE ~(Len(s.rest) < 4 \/ ~Has16(value))
  <2>1. 1 \in 1 .. Len(s.rest) - 1
    BY <1>1, <1>4, LenProperties
  <2>2. Word(s.rest, 1) \in UInt16
    BY <1>1, <2>1, WordTyped
  <2>3. After16(value) \in Seq(Byte) /\ Value16(value) \in Seq(Byte)
    BY <1>2, <1>4, Vector16Typed
  <2>4. WithExtension(s.fields, Word(s.rest, 1), Value16(value)) \in ParsedFields
    BY <1>1, <2>2, <2>3, WithExtensionTyped
  <2> QED
    BY <1>3, <1>4, <2>3, <2>4 DEF ParsedExtensions
<1> QED
  BY <1>3, <1>4

\* The loop over the extensions.
ReadsExtensions(f, fields, b) ==
  /\ f[0] = [rest |-> b, fields |-> fields]
  /\ \A n \in 1 .. Len(b) \div 4 : f[n] = NextExtension(f[n - 1])

LEMMA ExtensionLoop ==
  ASSUME NEW b \in Seq(Byte), NEW fields \in ParsedFields
  PROVE  \E f \in [0 .. Len(b) \div 4 -> ParsedExtensions] :
           ReadsExtensions(f, fields, b) /\ WithExtensions(fields, b) = f[Len(b) \div 4].fields
<1> DEFINE N == Len(b) \div 4
           R == ParsedExtensions
           start == [rest |-> b, fields |-> fields]
           Step(n, s) == NextExtension(s)
           step == [n \in 1 .. N |-> [s \in R |-> Step(n, s)]]
           Unfold(f) == [n \in 0 .. N |-> IF n = 0 THEN start ELSE Step(n, f[n - 1])]
           loop == CHOOSE f : f = Unfold(f)
<1>1. WithExtensions(fields, b) = loop[N].fields
  BY DEF WithExtensions
<1>2. N \in Nat /\ start \in R
  BY LenProperties DEF ParsedExtensions
<1>3. \A n \in 1 .. N, s \in R : Step(n, s) \in R
  BY NextExtensionTyped
<1> HIDE DEF N, R, start, loop, Step
<1>4. step \in [1 .. N -> [R -> R]]
  BY <1>3
<1>5. \A n \in 1 .. N, s \in R : step[n][s] = Step(n, s)
  OBVIOUS
<1> HIDE DEF step
<1>6. PICK g \in [0 .. N -> R] : Iterates(g, start, step, N)
  BY <1>2, <1>4, IterationExists
<1>7. \A n \in 1 .. N : g[n - 1] \in R /\ g[n] = Step(n, g[n - 1])
  <2> SUFFICES ASSUME NEW n \in 1 .. N PROVE g[n - 1] \in R /\ g[n] = Step(n, g[n - 1])
    OBVIOUS
  <2>1. n - 1 \in 0 .. N
    BY <1>2
  <2>2. g[n] = step[n][g[n - 1]]
    BY <1>6, Zenon DEF Iterates
  <2> QED
    BY <1>5, <2>1, <2>2
<1>8. g = Unfold(g)
  BY <1>2, <1>6, <1>7 DEF Iterates
<1>9. PICK k : k = loop /\ k = Unfold(k)
  <2> HIDE DEF Unfold
  <2> QED
    BY <1>8 DEF loop
<1>10. k[0] = start /\ \A n \in 1 .. N : k[n] = Step(n, k[n - 1])
  <2>1. \A n \in 0 .. N : Unfold(k)[n] = IF n = 0 THEN start ELSE Step(n, k[n - 1])
    OBVIOUS
  <2> HIDE DEF Unfold
  <2>2. \A n \in 0 .. N : k[n] = IF n = 0 THEN start ELSE Step(n, k[n - 1])
    BY <1>9, <2>1
  <2> QED
    BY <1>2, <2>2
<1>11. \A n \in 0 .. N : k[n] = g[n]
  <2>1. k[0] = g[0]
    BY <1>6, <1>10 DEF Iterates
  <2>2. \A n \in 1 .. N : k[n - 1] = g[n - 1] => k[n] = g[n]
    BY <1>7, <1>10, Zenon
  <2>3. Agree(k, g, N)
    BY <2>1, <2>2, Zenon DEF Agree
  <2> QED
    BY <1>2, <2>3, SameValues
<1>12. g[0] = start /\ loop[N] = g[N]
  BY <1>2, <1>6, <1>9, <1>11 DEF Iterates
<1>13. ReadsExtensions(g, fields, b)
  BY <1>7, <1>12 DEF ReadsExtensions, N, start, Step
<1> QED
  BY <1>1, <1>12, <1>13 DEF N, R

\* The parts of a message that is not refused.
LEMMA PartsTyped ==
  ASSUME NEW data \in Seq(Byte), Parses(data), NEW d, d = Body(data)
  PROVE  /\ d \in Seq(Byte) /\ Word(d, 1) \in UInt16
         /\ CipherPart(d) \in Seq(Byte) /\ Has16(CipherPart(d))
         /\ ExtensionPart(d) \in Seq(Byte)
         /\ Len(ExtensionPart(d)) < 2 \/ Has16(ExtensionPart(d))
<1>1. Len(data) \in Nat /\ Len(data) >= 4 /\ Len(data) - 4 >= HelloLength(data)
  BY LenProperties DEF Parses
<1>2. HelloLength(data) \in Nat
  <2>1. 2 \in 1 .. Len(data) /\ 3 \in 1 .. Len(data) - 1
    BY <1>1
  <2>2. data[2] \in Byte /\ Word(data, 3) \in UInt16
    BY <2>1, ElementOfSeq, WordTyped
  <2>3. data[2] \in Nat /\ Word(data, 3) \in Nat
    BY <2>2, NumbersAreNat
  <2> QED
    BY <2>3 DEF HelloLength
<1>3. d \in Seq(Byte)
  BY <1>1, <1>2, PartTyped DEF Body
<1>4. /\ Len(d) >= 34
      /\ Has8(SessionPart(d))
      /\ Has16(CipherPart(d)) /\ Has8(CompressionPart(d))
      /\ Len(ExtensionPart(d)) < 2 \/ Has16(ExtensionPart(d))
  BY DEF Parses
<1>5. Word(d, 1) \in UInt16
  BY <1>3, <1>4, LenProperties, WordTyped
<1>6. SessionPart(d) \in Seq(Byte)
  BY <1>3, FromTyped DEF SessionPart
<1>7. CipherPart(d) \in Seq(Byte)
  BY <1>4, <1>6, Vector8Typed DEF CipherPart
<1>8. CompressionPart(d) \in Seq(Byte)
  BY <1>4, <1>7, Vector16Typed DEF CompressionPart
<1>9. ExtensionPart(d) \in Seq(Byte)
  BY <1>4, <1>8, Vector8Typed DEF ExtensionPart
<1> QED
  BY <1>3, <1>4, <1>5, <1>7, <1>9

\* What parseClientHello returns for a message it does not refuse.
LEMMA FieldsTyped ==
  ASSUME NEW data \in Seq(Byte), Parses(data)
  PROVE  Fields(data) \in ParsedFields
<1>1. PICK d : d = Body(data)
  OBVIOUS
<1>2. PICK part : part = ExtensionPart(d)
  OBVIOUS
<1> DEFINE f == [version           |-> Word(d, 1),
                 cipherSuites      |-> Words(Value16(CipherPart(d))),
                 extensions        |-> <<>>,
                 hasSNI            |-> FALSE,
                 sigAlgs           |-> <<>>,
                 alpnProtocols     |-> <<>>,
                 supportedVersions |-> <<>>]
<1>3. Fields(data) = IF Len(part) < 2 THEN f ELSE WithExtensions(f, Value16(part))
  BY <1>1, <1>2 DEF Fields
<1>4. /\ Word(d, 1) \in UInt16
      /\ CipherPart(d) \in Seq(Byte) /\ Has16(CipherPart(d))
      /\ part \in Seq(Byte) /\ (Len(part) < 2 \/ Has16(part))
  BY <1>1, <1>2, PartsTyped
<1>5. Words(Value16(CipherPart(d))) \in Seq(UInt16)
  BY <1>4, Vector16Typed, WordsTyped
<1>6. f \in ParsedFields
  BY <1>4, <1>5, EmptySeq DEF ParsedFields
<1> HIDE DEF f
<1>7. CASE ~(Len(part) < 2)
  <2>1. Value16(part) \in Seq(Byte)
    BY <1>4, <1>7, Vector16Typed
  <2>2. PICK v \in Seq(Byte) : v = Value16(part)
    BY <2>1
  <2>3. PICK g \in [0 .. Len(v) \div 4 -> ParsedExtensions] :
          ReadsExtensions(g, f, v) /\ WithExtensions(f, v) = g[Len(v) \div 4].fields
    BY <1>6, ExtensionLoop, Zenon
  <2> DEFINE N == Len(v) \div 4
  <2>4. N \in 0 .. N
    BY LenProperties
  <2>5. g[N] \in ParsedExtensions
    BY <2>4
  <2> QED
    BY <1>3, <1>7, <2>2, <2>3, <2>5 DEF ParsedExtensions
<1> QED
  BY <1>3, <1>6, <1>7

------------------------------------------------------------------------------
(* What computeJA4 makes of the fields. *)

\* A bijection, without the choice of its inverse.
LEMMA BijectionIs ==
  ASSUME NEW A, NEW B, NEW p
  PROVE  p \in Bijection(A, B)
           <=> /\ p \in [A -> B] /\ \A a, b \in A : p[a] = p[b] => a = b
               /\ \A b \in B : \E a \in A : p[a] = b
  BY DEF Bijection, Injection, IsInjective, Surjection

\* What is left is a selection of the positions.
LEMMA WithoutSelects ==
  ASSUME NEW S, NEW values \in Seq(S), NEW others
  PROVE  /\ Without(values, others) \in Seq(S)
         /\ \E p \in Bijection(1 .. Len(Without(values, others)),
                               {i \in 1 .. Len(values) : values[i] \notin others}) :
              \A k \in 1 .. Len(Without(values, others)) : Without(values, others)[k] = values[p[k]]
<1>1. PICK f \in [0 .. Len(values) -> Seq(S)] :
        LeavesOut(f, values, others) /\ Without(values, others) = f[Len(values)]
  BY WithoutLoop, Zenon
<1> DEFINE Left(n) == {i \in 1 .. n : values[i] \notin others}
           Selects(list, n) == \E p \in Bijection(1 .. Len(list), Left(n)) :
                                 \A k \in 1 .. Len(list) : list[k] = values[p[k]]
           N == Len(values)
<1>2. N \in Nat /\ \A n \in 1 .. N : values[n] \in S
  BY LenProperties, ElementOfSeq
<1> HIDE DEF N
<1> DEFINE T == {n \in 0 .. N : Selects(f[n], n)}
<1>3. 0 \in T
  <2> DEFINE p == [x \in {} |-> x]
  <2>1. p \in Bijection({}, {})
    BY Fun_IsBij
  <2>2. Left(0) = {} /\ 1 .. Len(<<>>) = {}
    BY EmptySeq
  <2>3. Selects(<<>>, 0)
    BY <2>1, <2>2
  <2> HIDE DEF Selects
  <2> QED
    BY <1>1, <1>2, <2>3 DEF LeavesOut
<1>4. ASSUME NEW n \in 1 .. N, n - 1 \in T PROVE n \in T
  <2>1. n \in Nat /\ n - 1 \in 0 .. N /\ n \in 0 .. N
    BY <1>2
  <2>2. PICK old \in Seq(S) : old = f[n - 1]
    BY <2>1
  <2>3. PICK L \in Nat : L = Len(old)
    BY LenProperties
  <2>4. PICK p \in Bijection(1 .. L, Left(n - 1)) : \A k \in 1 .. L : old[k] = values[p[k]]
    BY <1>4, <2>2, <2>3
  <2>5. /\ p \in [1 .. L -> Left(n - 1)] /\ \A a, b \in 1 .. L : p[a] = p[b] => a = b
        /\ \A t \in Left(n - 1) : \E k \in 1 .. L : p[k] = t
    <3>1. PICK D : D = Left(n - 1)
      OBVIOUS
    <3>2. p \in Bijection(1 .. L, D)
      BY <2>4, <3>1
    <3> HIDE DEF Left
    <3> QED
      BY <3>1, <3>2, BijectionIs
  <2>7. CASE values[n] \in others
    <3>1. f[n] = old
      BY <1>1, <2>2, <2>7 DEF LeavesOut, N
    <3>2. Left(n) = Left(n - 1)
      BY <2>1, <2>7
    <3>3. Selects(old, n)
      BY <2>3, <2>4, <3>2
    <3> HIDE DEF Selects
    <3> QED
      BY <2>1, <3>1, <3>3
  <2>8. CASE values[n] \notin others
    <3>1. PICK new : new = Append(old, values[n])
      OBVIOUS
    <3>2. f[n] = new
      BY <1>1, <2>2, <2>8, <3>1 DEF LeavesOut, N
    <3>3. /\ Len(new) = L + 1 /\ new[L + 1] = values[n]
          /\ \A k \in 1 .. L : new[k] = old[k]
      BY <1>2, <2>3, <3>1, AppendProperties
    <3>4. Left(n) = Left(n - 1) \cup {n} /\ n \notin Left(n - 1)
      BY <2>1, <2>8
    <3> HIDE DEF Left
    <3> DEFINE q == [k \in 1 .. L + 1 |-> IF k = L + 1 THEN n ELSE p[k]]
    <3>5. q \in [1 .. L + 1 -> Left(n)]
      BY <2>5, <3>4
    <3>6. \A a, b \in 1 .. L + 1 : q[a] = q[b] => a = b
      BY <2>5, <3>4
    <3>7. \A t \in Left(n) : \E k \in 1 .. L + 1 : q[k] = t
      <4>1. q[L + 1] = n /\ \A k \in 1 .. L : q[k] = p[k] /\ k \in 1 .. L + 1
        OBVIOUS
      <4> QED
        BY <2>5, <3>4, <4>1
    <3>8. q \in Bijection(1 .. L + 1, Left(n))
      BY <3>5, <3>6, <3>7, Fun_IsBij
    <3>9. \A k \in 1 .. L + 1 : new[k] = values[q[k]]
      BY <2>4, <3>3, SMTT(40)
    <3> HIDE DEF q
    <3>10. Selects(new, n)
      BY <3>3, <3>8, <3>9
    <3> HIDE DEF Selects
    <3> QED
      BY <2>1, <3>2, <3>10
  <2> QED
    BY <2>7, <2>8
<1> HIDE DEF T, Selects
<1>5. \A n \in 0 .. N : n \in T
  BY <1>2, <1>3, <1>4, UpTo
<1>6. N \in T /\ f[N] \in Seq(S)
  BY <1>2, <1>5
<1> QED
  BY <1>1, <1>6 DEF T, Selects, N

------------------------------------------------------------------------------
(* Lists: how often a value occurs in what is left, and in what is sorted. *)

\* How many positions there are.
LEMMA IntervalIsFinite ==
  ASSUME NEW n \in Nat
  PROVE  IsFiniteSet(1 .. n) /\ Cardinality(1 .. n) = n
  BY FS_Interval

LEMMA UpToIsFinite ==
  ASSUME NEW n \in Nat, NEW A \in SUBSET (1 .. n)
  PROVE  IsFiniteSet(A) /\ Cardinality(A) \in 0 .. n
<1>1. IsFiniteSet(1 .. n) /\ Cardinality(1 .. n) = n
  BY IntervalIsFinite
<1>2. IsFiniteSet(A) /\ Cardinality(A) <= n
  BY <1>1, FS_Subset
<1>3. Cardinality(A) \in Nat
  BY <1>2, FS_CardinalityType
<1> QED
  BY <1>2, <1>3

LEMMA SameNumber ==
  ASSUME NEW A, IsFiniteSet(A), NEW B, NEW p \in Bijection(A, B), NEW P \in SUBSET B
  PROVE  Cardinality({k \in A : p[k] \in P}) = Cardinality(P)
<1> DEFINE Q == {k \in A : p[k] \in P}
           q == [k \in Q |-> p[k]]
<1>1. /\ p \in [A -> B] /\ \A a, b \in A : p[a] = p[b] => a = b
      /\ \A b \in B : \E a \in A : p[a] = b
  BY BijectionIs
<1>2. IsFiniteSet(Q)
  BY FS_Subset
<1>3. q \in [Q -> P]
  OBVIOUS
<1>4. \A a, b \in Q : q[a] = q[b] => a = b
  BY <1>1
<1>5. \A b \in P : \E a \in Q : q[a] = b
  <2> SUFFICES ASSUME NEW b \in P PROVE \E a \in Q : q[a] = b
    OBVIOUS
  <2>1. PICK a \in A : p[a] = b
    BY <1>1
  <2> QED
    BY <2>1
<1> HIDE DEF Q, q
<1>6. q \in Bijection(Q, P)
  BY <1>3, <1>4, <1>5, BijectionIs
<1>7. ExistsBijection(Q, P)
  BY <1>6 DEF ExistsBijection
<1>8. Cardinality(P) = Cardinality(Q)
  BY <1>2, <1>7, FS_Bijection
<1> QED
  BY <1>8 DEF Q

At(list, v) == {i \in 1 .. Len(list) : list[i] = v}

\* Two lists with the same values at the positions that p pairs.
LEMMA SameCounts ==
  ASSUME NEW S, NEW list \in Seq(S), NEW values \in Seq(S), NEW B \in SUBSET (1 .. Len(values)),
         NEW p \in Bijection(1 .. Len(list), B), \A k \in 1 .. Len(list) : list[k] = values[p[k]]
  PROVE  \A v : (\A i \in At(values, v) : i \in B) =>
                  Cardinality(At(list, v)) = Cardinality(At(values, v))
<1> SUFFICES ASSUME NEW v, \A i \in At(values, v) : i \in B
             PROVE  Cardinality(At(list, v)) = Cardinality(At(values, v))
  OBVIOUS
<1>1. IsFiniteSet(1 .. Len(list))
  BY LenProperties, UpToIsFinite
<1>2. \A k \in 1 .. Len(list) : p[k] \in B
  BY BijectionIs
<1>3. {k \in 1 .. Len(list) : p[k] \in At(values, v)} = At(list, v)
  BY <1>2 DEF At
<1>4. At(values, v) \in SUBSET B
  OBVIOUS
<1> QED
  BY <1>1, <1>3, <1>4, SameNumber

\* The list has the values that are not left out, each as often as it was.
Keeps(list, S, values, others) ==
  /\ list \in Seq(S)
  /\ Len(list) = Cardinality({i \in 1 .. Len(values) : values[i] \notin others})
  /\ \A v : Cardinality(At(list, v)) = IF v \in others THEN 0 ELSE Cardinality(At(values, v))
  /\ Range(list) = Range(values) \ others

LEMMA WithoutCounts ==
  ASSUME NEW S, NEW values \in Seq(S), NEW others
  PROVE  Keeps(Without(values, others), S, values, others)
<1> DEFINE B == {i \in 1 .. Len(values) : values[i] \notin others}
<1>1. PICK list \in Seq(S) : list = Without(values, others)
  BY WithoutSelects
<1>2. PICK p \in Bijection(1 .. Len(list), B) : \A k \in 1 .. Len(list) : list[k] = values[p[k]]
  BY <1>1, WithoutSelects
<1>3. /\ \A k \in 1 .. Len(list) : p[k] \in B /\ list[k] = values[p[k]]
      /\ \A b \in B : \E k \in 1 .. Len(list) : p[k] = b
  <2> HIDE DEF B
  <2> QED
    BY <1>2, BijectionIs, SMTT(40)
<1>4. B \in SUBSET (1 .. Len(values))
  OBVIOUS
<1>5. Len(list) = Cardinality(B)
  <2>1. IsFiniteSet(1 .. Len(list)) /\ Cardinality(1 .. Len(list)) = Len(list)
    <3>1. Len(list) \in Nat
      BY <1>1, LenProperties
    <3> QED
      BY <3>1, IntervalIsFinite
  <2> HIDE DEF B
  <2>2. ExistsBijection(1 .. Len(list), B)
    BY <1>2 DEF ExistsBijection
  <2> QED
    BY <2>1, <2>2, FS_Bijection
<1>6. ASSUME NEW v
      PROVE Cardinality(At(list, v)) = IF v \in others THEN 0 ELSE Cardinality(At(values, v))
  <2>1. CASE v \in others
    <3>1. At(list, v) = {}
      BY <1>3, <2>1 DEF At
    <3> QED
      BY <2>1, <3>1, FS_EmptySet
  <2>2. CASE v \notin others
    <3>1. \A i \in At(values, v) : i \in B
      BY <2>2 DEF At
    <3> HIDE DEF B
    <3>2. Cardinality(At(list, v)) = Cardinality(At(values, v))
      BY <1>1, <1>2, <1>4, <3>1, SameCounts
    <3> QED
      BY <2>2, <3>2
  <2> QED
    BY <2>1, <2>2
<1>7. Range(list) = Range(values) \ others
  <2>1. DOMAIN list = 1 .. Len(list) /\ DOMAIN values = 1 .. Len(values)
    BY <1>1, LenProperties
  <2>2. ASSUME NEW v \in Range(list) PROVE v \in Range(values) \ others
    <3>1. PICK k \in 1 .. Len(list) : v = list[k]
      BY <2>1 DEF Range
    <3>2. p[k] \in B /\ v = values[p[k]]
      BY <1>3, <3>1
    <3> QED
      BY <2>1, <3>2 DEF Range
  <2>3. ASSUME NEW v \in Range(values), v \notin others PROVE v \in Range(list)
    <3>1. PICK i \in 1 .. Len(values) : v = values[i]
      BY <2>1 DEF Range
    <3>2. PICK k \in 1 .. Len(list) : p[k] = i
      BY <1>3, <2>3, <3>1
    <3>3. list[k] = v
      BY <1>3, <3>1, <3>2
    <3> QED
      BY <2>1, <3>3 DEF Range
  <2> QED
    BY <2>2, <2>3
<1> QED
  BY <1>1, <1>5, <1>6, <1>7, Zenon DEF Keeps

------------------------------------------------------------------------------
(* Sorting by rank. *)

\* Sorted by rank (Before): the same values, each as often, in ascending order.
LEMMA SortedOrders ==
  ASSUME NEW values \in Seq(UInt16), NEW list, list = Sorted(values)
  PROVE  /\ list \in Seq(UInt16) /\ Len(list) = Len(values)
         /\ \A i \in 1 .. Len(values) - 1 : list[i] <= list[i + 1]
         /\ \A v : Cardinality(At(list, v)) = Cardinality(At(values, v))
<1> DEFINE N == Len(values)
           I == 1 .. N
           Rank(i) == Cardinality(Before(values, i))
<1>1. N \in Nat /\ \A i \in I : values[i] \in Nat
  <2>1. N \in Nat /\ \A i \in I : values[i] \in UInt16
    BY LenProperties, ElementOfSeq
  <2> QED
    BY <2>1, NumbersAreNat
<1>2. \A i \in I : Before(values, i) \in SUBSET I /\ i \notin Before(values, i)
  BY <1>1 DEF Before
<1>3. ASSUME NEW i \in I, NEW j \in I, j \in Before(values, i)
      PROVE  Rank(j) < Rank(i)
  <2>1. Before(values, j) \subseteq Before(values, i)
    <3>1. SUFFICES ASSUME NEW k \in Before(values, j) PROVE k \in Before(values, i)
      OBVIOUS
    <3>2. k \in I /\ (values[k] < values[j] \/ (values[k] = values[j] /\ k < j))
      BY DEF Before
    <3>3. values[j] < values[i] \/ (values[j] = values[i] /\ j < i)
      BY <1>3 DEF Before
    <3>4. values[k] < values[i] \/ (values[k] = values[i] /\ k < i)
      BY <1>1, <3>2, <3>3
    <3> QED
      BY <3>2, <3>4 DEF Before
  <2>2. j \notin Before(values, j)
    BY <1>2
  <2>3. IsFiniteSet(Before(values, i)) /\ Rank(i) \in Nat /\ Rank(j) \in Nat
    BY <1>1, <1>2, UpToIsFinite
  <2>4. Rank(j) <= Rank(i) /\ Rank(j) # Rank(i)
    BY <1>3, <2>1, <2>2, <2>3, FS_Subset
  <2> QED
    BY <2>3, <2>4
<1>4. \A i \in I : Rank(i) \in 0 .. N - 1
  <2> SUFFICES ASSUME NEW i \in I PROVE Rank(i) \in 0 .. N - 1
    OBVIOUS
  <2>1. Rank(i) \in 0 .. N
    BY <1>1, <1>2, UpToIsFinite
  <2>2. Rank(i) # N
    <3>1. IsFiniteSet(I) /\ Cardinality(I) = N
      BY <1>1, IntervalIsFinite
    <3>2. Before(values, i) # I
      BY <1>2
    <3> QED
      BY <1>2, <3>1, <3>2, FS_Subset
  <2> QED
    BY <1>1, <2>1, <2>2
<1> DEFINE place == [i \in I |-> Rank(i) + 1]
<1> HIDE DEF N, Rank
<1>5. place \in [I -> I]
  BY <1>1, <1>4
<1>6. \A i, j \in I : place[i] = place[j] => i = j
  <2> SUFFICES ASSUME NEW i \in I, NEW j \in I, i # j PROVE place[i] # place[j]
    OBVIOUS
  <2>1. i \in Before(values, j) \/ j \in Before(values, i)
    BY <1>1 DEF Before, N
  <2>2. Rank(i) < Rank(j) \/ Rank(j) < Rank(i)
    BY <1>3, <2>1
  <2>3. Rank(i) \in Int /\ Rank(j) \in Int
    BY <1>1, <1>4
  <2> QED
    BY <2>2, <2>3
<1>7. \A n \in I : \E i \in I : place[i] = n
  <2> HIDE DEF place
  <2>1. place \in Injection(I, I)
    BY <1>5, <1>6, Fun_IsInj
  <2>2. IsFiniteSet(I)
    BY <1>1, IntervalIsFinite
  <2>3. place \in Surjection(I, I)
    BY <2>1, <2>2, FS_Injection
  <2> QED
    BY <2>3 DEF Surjection
<1>8. \A n \in I : \E i \in I : Rank(i) = n - 1
  <2> SUFFICES ASSUME NEW n \in I PROVE \E i \in I : Rank(i) = n - 1
    OBVIOUS
  <2>1. PICK i \in I : place[i] = n
    BY <1>7
  <2>2. Rank(i) + 1 = n /\ Rank(i) \in Int
    BY <1>1, <1>4, <2>1
  <2> QED
    BY <2>2
<1> DEFINE q == [n \in I |-> CHOOSE i \in I : Rank(i) = n - 1]
<1>9. \A n \in I : q[n] \in I /\ Rank(q[n]) = n - 1
  BY <1>8
<1>10. list = [n \in I |-> values[q[n]]]
  BY DEF Sorted, Rank, N
<1> HIDE DEF q
<1>11. list \in Seq(UInt16) /\ Len(list) = N /\ \A n \in I : list[n] = values[q[n]]
  <2>1. \A n \in I : values[q[n]] \in UInt16
    BY <1>9, ElementOfSeq DEF N
  <2>2. list \in Seq(UInt16)
    BY <1>1, <1>10, <2>1, IsASeq
  <2> QED
    BY <1>1, <1>10, <2>2
<1>12. \A i \in 1 .. N - 1 : list[i] <= list[i + 1]
  <2> SUFFICES ASSUME NEW i \in 1 .. N - 1 PROVE list[i] <= list[i + 1]
    OBVIOUS
  <2>1. i \in I /\ i + 1 \in I
    BY <1>1
  <2>2. q[i] \in I /\ q[i + 1] \in I /\ Rank(q[i]) = i - 1 /\ Rank(q[i + 1]) = i
    BY <1>9, <2>1
  <2>3. q[i + 1] \notin Before(values, q[i])
    BY <1>3, <2>2
  <2>4. ~(values[q[i + 1]] < values[q[i]])
    BY <2>2, <2>3 DEF Before, N
  <2> QED
    BY <1>1, <1>11, <2>1, <2>2, <2>4, SMTT(40)
<1>13. q \in Bijection(I, I)
  <2>1. q \in [I -> I]
    BY <1>9 DEF q
  <2>2. \A m, n \in I : q[m] = q[n] => m = n
    BY <1>1, <1>9
  <2>3. \A i \in I : \E n \in I : q[n] = i
    <3> SUFFICES ASSUME NEW i \in I PROVE \E n \in I : q[n] = i
      OBVIOUS
    <3>1. PICK n \in I : n = Rank(i) + 1
      BY <1>1, <1>4
    <3>2. Rank(q[n]) = Rank(i)
      BY <1>1, <1>4, <1>9, <3>1
    <3>3. q[n] = i
      BY <1>6, <1>9, <3>2
    <3> QED
      BY <3>3
  <2> QED
    BY <2>1, <2>2, <2>3, BijectionIs
<1>14. \A v : Cardinality(At(list, v)) = Cardinality(At(values, v))
  <2> SUFFICES ASSUME NEW v PROVE Cardinality(At(list, v)) = Cardinality(At(values, v))
    OBVIOUS
  <2>1. \A i \in At(values, v) : i \in I
    BY DEF At, N
  <2>2. /\ q \in Bijection(1 .. Len(list), I) /\ I \in SUBSET (1 .. Len(values))
        /\ \A k \in 1 .. Len(list) : list[k] = values[q[k]]
    BY <1>11, <1>13 DEF N
  <2> HIDE DEF I
  <2> QED
    BY <1>11, <2>1, <2>2, SameCounts
<1> QED
  BY <1>11, <1>12, <1>14 DEF N

------------------------------------------------------------------------------
(* What the parser finds in what was encoded. *)

\* Of three parts, the second and the third are where they were put.
LEMMA JoinedParts ==
  ASSUME NEW S, NEW a \in Seq(S), NEW b \in Seq(S), NEW r \in Seq(S)
  PROVE  /\ a \o (b \o r) \in Seq(S) /\ Len(a \o (b \o r)) = Len(a) + Len(b) + Len(r)
         /\ SubSeq(a \o (b \o r), Len(a) + 1, Len(a) + Len(b)) = b
         /\ From(a \o (b \o r), Len(a) + Len(b) + 1) = r
         /\ \A i \in 1 .. Len(a) : (a \o (b \o r))[i] = a[i]
<1> DEFINE s == a \o (b \o r)
<1>1. Len(a) \in Nat /\ Len(b) \in Nat /\ Len(r) \in Nat
  BY LenProperties
<1>2. /\ b \o r \in Seq(S) /\ Len(b \o r) = Len(b) + Len(r)
      /\ \A i \in 1 .. Len(b) + Len(r) : (b \o r)[i] = IF i <= Len(b) THEN b[i] ELSE r[i - Len(b)]
  BY ConcatProperties
<1>3. /\ s \in Seq(S) /\ Len(s) = Len(a) + (Len(b) + Len(r))
      /\ \A i \in 1 .. Len(a) + (Len(b) + Len(r)) :
           s[i] = IF i <= Len(a) THEN a[i] ELSE (b \o r)[i - Len(a)]
  BY <1>2, ConcatProperties
<1>4. PICK t \in Seq(S) : t = s
  BY <1>3
<1>5. \A i \in 1 .. Len(a) : t[i] = a[i]
  BY <1>1, <1>3, <1>4
<1>6. \A i \in 1 .. Len(b) : t[Len(a) + i] = b[i]
  BY <1>1, <1>2, <1>3, <1>4
<1>7. \A i \in 1 .. Len(r) : t[Len(a) + Len(b) + i] = r[i]
  BY <1>1, <1>2, <1>3, <1>4
<1>8. Len(t) = Len(a) + Len(b) + Len(r)
  BY <1>1, <1>3, <1>4
<1>9. \A i \in 1 .. Len(t) : t[i] \in S
  BY ElementOfSeq
<1> HIDE DEF s
<1>10. SubSeq(t, Len(a) + 1, Len(a) + Len(b)) = b
  <2>1. PICK m \in Int : m = Len(a) + 1
    BY <1>1
  <2>2. PICK n \in Int : n = Len(a) + Len(b)
    BY <1>1
  <2>3. \A i \in m .. n : t[i] \in S
    BY <1>1, <1>8, <1>9, <2>1, <2>2
  <2>4. /\ SubSeq(t, m, n) \in Seq(S)
        /\ Len(SubSeq(t, m, n)) = IF m <= n THEN n - m + 1 ELSE 0
        /\ \A i \in 1 .. n - m + 1 : SubSeq(t, m, n)[i] = t[m + i - 1]
    BY <2>3, SubSeqProperties
  <2>5. Len(SubSeq(t, m, n)) = Len(b)
    BY <1>1, <2>1, <2>2, <2>4
  <2>6. \A i \in 1 .. Len(b) : SubSeq(t, m, n)[i] = b[i]
    <3> SUFFICES ASSUME NEW i \in 1 .. Len(b) PROVE SubSeq(t, m, n)[i] = b[i]
      OBVIOUS
    <3>1. i \in 1 .. n - m + 1 /\ m + i - 1 = Len(a) + i
      BY <1>1, <2>1, <2>2
    <3> QED
      BY <1>6, <2>4, <3>1
  <2> QED
    BY <2>1, <2>2, <2>4, <2>5, <2>6, SeqEqual
<1>11. From(t, Len(a) + Len(b) + 1) = r
  <2>1. PICK m \in Nat \ {0} : m = Len(a) + Len(b) + 1
    BY <1>1
  <2>2. /\ From(t, m) \in Seq(S)
        /\ Len(From(t, m)) = IF m <= Len(t) THEN Len(t) - m + 1 ELSE 0
        /\ \A i \in 1 .. Len(t) - m + 1 : From(t, m)[i] = t[m + i - 1]
    BY FromTyped
  <2>3. Len(From(t, m)) = Len(r)
    BY <1>1, <1>8, <2>1, <2>2
  <2>4. \A i \in 1 .. Len(r) : From(t, m)[i] = r[i]
    <3> SUFFICES ASSUME NEW i \in 1 .. Len(r) PROVE From(t, m)[i] = r[i]
      OBVIOUS
    <3>1. i \in 1 .. Len(t) - m + 1 /\ m + i - 1 = Len(a) + Len(b) + i
      BY <1>1, <1>8, <2>1
    <3> QED
      BY <1>7, <2>2, <3>1
  <2> QED
    BY <2>1, <2>2, <2>3, <2>4, SeqEqual
<1> QED
  BY <1>4, <1>5, <1>8, <1>10, <1>11 DEF s

\* The two bytes of a number are the number.
LEMMA HighLow ==
  ASSUME NEW v \in UInt16
  PROVE  v \div 256 \in Byte /\ v % 256 \in Byte /\ (v \div 256) * 256 + (v % 256) = v
<1>1. v \in Nat /\ v <= 65535
  BY NumbersAreNat, UInt16Is, SMT
<1>2. v \div 256 \in Nat /\ v \div 256 <= 255
  BY <1>1, SMT
<1>3. v % 256 \in Nat /\ v % 256 <= 255 /\ (v \div 256) * 256 + (v % 256) = v
  BY <1>1, SMT
<1> QED
  BY <1>2, <1>3, ByteIs, SMT

LEMMA ByteOne ==
  ASSUME NEW n \in Byte
  PROVE  <<n>> \in Seq(Byte) /\ Len(<<n>>) = 1 /\ <<n>>[1] = n
  OBVIOUS

LEMMA TwoIs ==
  ASSUME NEW v \in UInt16
  PROVE  /\ Two(v) \in Seq(Byte) /\ Len(Two(v)) = 2
         /\ Two(v)[1] = v \div 256 /\ Two(v)[2] = v % 256
         /\ Two(v)[1] * 256 + Two(v)[2] = v
<1>1. PICK h \in Byte, l \in Byte : h = v \div 256 /\ l = v % 256 /\ h * 256 + l = v
  BY HighLow
<1>2. Two(v) = <<h, l>>
  BY <1>1 DEF Two
<1>3. <<h, l>> \in Seq(Byte) /\ Len(<<h, l>>) = 2 /\ <<h, l>>[1] = h /\ <<h, l>>[2] = l
  OBVIOUS
<1> QED
  BY <1>1, <1>2, <1>3

Joins(v, a, b) == v = a \o b

\* A vector, and what follows it.
LEMMA Vector8Reads ==
  ASSUME NEW b \in Seq(Byte), NEW r \in Seq(Byte), Len(b) \in Byte, NEW v, Joins(v, Vector8(b), r)
  PROVE  /\ v \in Seq(Byte) /\ Len(v) = 1 + Len(b) + Len(r)
         /\ Has8(v) /\ v[1] = Len(b) /\ Value8(v) = b /\ After8(v) = r
<1>1. Len(b) \in Nat /\ Len(r) \in Nat
  BY LenProperties
<1>2. Len(b) \in Byte
  OBVIOUS
<1>3. PICK a \in Seq(Byte) : Vector8(b) = a \o b /\ Len(a) = 1 /\ a[1] = Len(b)
  BY <1>2, ByteOne DEF Vector8
<1>4. v = a \o (b \o r)
  BY <1>3, ConcatAssociative, SMTT(40) DEF Joins
<1>5. /\ v \in Seq(Byte) /\ Len(v) = Len(a) + Len(b) + Len(r)
      /\ SubSeq(v, Len(a) + 1, Len(a) + Len(b)) = b
      /\ From(v, Len(a) + Len(b) + 1) = r
      /\ \A i \in 1 .. Len(a) : v[i] = a[i]
  BY <1>4, JoinedParts, SMTT(40)
<1>6. v[1] = Len(b)
  BY <1>3, <1>5
<1>7. Len(a) + 1 = 2 /\ Len(a) + Len(b) = 1 + Len(b) /\ Len(a) + Len(b) + 1 = 2 + Len(b)
  BY <1>1, <1>3
<1>8. Len(v) = 1 + Len(b) + Len(r) /\ SubSeq(v, 2, 1 + Len(b)) = b /\ From(v, 2 + Len(b)) = r
  BY <1>3, <1>5, <1>7
<1>9. Has8(v)
  BY <1>1, <1>6, <1>8 DEF Has8
<1> QED
  BY <1>5, <1>6, <1>8, <1>9 DEF Value8, After8

LEMMA Vector16Reads ==
  ASSUME NEW b \in Seq(Byte), NEW r \in Seq(Byte), Len(b) \in UInt16, NEW v, Joins(v, Vector16(b), r)
  PROVE  /\ v \in Seq(Byte) /\ Len(v) = 2 + Len(b) + Len(r)
         /\ Has16(v) /\ Word(v, 1) = Len(b) /\ Value16(v) = b /\ After16(v) = r
<1>1. Len(b) \in Nat /\ Len(r) \in Nat
  BY LenProperties
<1>2. Len(b) \in UInt16
  OBVIOUS
<1>3. PICK a \in Seq(Byte) : a = Two(Len(b))
  BY <1>2, TwoIs
<1>4. Len(a) = 2 /\ a[1] * 256 + a[2] = Len(b)
  BY <1>2, <1>3, TwoIs, SMTT(40)
<1>5. v = a \o (b \o r)
  BY <1>3, ConcatAssociative DEF Vector16, Joins
<1>6. /\ v \in Seq(Byte) /\ Len(v) = Len(a) + Len(b) + Len(r)
      /\ SubSeq(v, Len(a) + 1, Len(a) + Len(b)) = b
      /\ From(v, Len(a) + Len(b) + 1) = r
      /\ \A i \in 1 .. Len(a) : v[i] = a[i]
  BY <1>5, JoinedParts, SMTT(40)
<1>7. Word(v, 1) = Len(b)
  BY <1>4, <1>6 DEF Word
<1>8. Len(a) + 1 = 3 /\ Len(a) + Len(b) = 2 + Len(b) /\ Len(a) + Len(b) + 1 = 3 + Len(b)
  BY <1>1, <1>4
<1>9. Len(v) = 2 + Len(b) + Len(r) /\ SubSeq(v, 3, 2 + Len(b)) = b /\ From(v, 3 + Len(b)) = r
  BY <1>4, <1>6, <1>8
<1>10. Has16(v)
  BY <1>1, <1>7, <1>9 DEF Has16
<1> QED
  BY <1>6, <1>7, <1>9, <1>10 DEF Value16, After16

\* Numbers of two bytes each are read as they were.
LEMMA TwoEachReads ==
  ASSUME NEW values \in Seq(UInt16)
  PROVE  /\ TwoEach(values) \in Seq(Byte) /\ Len(TwoEach(values)) = 2 * Len(values)
         /\ Words(TwoEach(values)) = values
<1> DEFINE N == Len(values)
           At2(i) == IF i % 2 = 1 THEN values[(i + 1) \div 2] \div 256 ELSE values[i \div 2] % 256
<1>1. N \in Nat /\ \A i \in 1 .. N : values[i] \in UInt16
  BY LenProperties, ElementOfSeq
<1>2. \A v \in UInt16 : /\ v \div 256 \in Byte /\ v % 256 \in Byte
                         /\ (v \div 256) * 256 + (v % 256) = v
  BY HighLow
<1>3. \A i \in 1 .. 2 * N : At2(i) \in Byte
  <2> SUFFICES ASSUME NEW i \in 1 .. 2 * N PROVE At2(i) \in Byte
    OBVIOUS
  <2>1. CASE i % 2 = 1
    <3>1. (i + 1) \div 2 \in 1 .. N
      BY <1>1, <2>1
    <3> QED
      BY <1>1, <1>2, <2>1, <3>1
  <2>2. CASE i % 2 # 1
    <3>1. i \div 2 \in 1 .. N
      BY <1>1, <2>2
    <3> QED
      BY <1>1, <1>2, <2>2, <3>1
  <2> QED
    BY <2>1, <2>2
<1>4. PICK t : t = TwoEach(values)
  OBVIOUS
<1>5. t = [i \in 1 .. 2 * N |-> At2(i)]
  BY <1>4 DEF TwoEach
<1>6. 2 * N \in Nat
  BY <1>1
<1>7. \A i \in 1 .. N : At2(2 * i - 1) = values[i] \div 256 /\ At2(2 * i) = values[i] % 256
  <2> SUFFICES ASSUME NEW i \in 1 .. N
               PROVE At2(2 * i - 1) = values[i] \div 256 /\ At2(2 * i) = values[i] % 256
    OBVIOUS
  <2>1. /\ (2 * i - 1) % 2 = 1 /\ ((2 * i - 1) + 1) \div 2 = i
        /\ (2 * i) % 2 # 1 /\ (2 * i) \div 2 = i
    BY <1>1
  <2> QED
    BY <2>1
<1> HIDE DEF At2, N
<1>8. t \in Seq(Byte) /\ Len(t) = 2 * N
  <2>1. t \in Seq(Byte)
    BY <1>3, <1>5, <1>6, IsASeq
  <2> QED
    BY <1>5, <1>6, <2>1
<1>9. \A i \in 1 .. N : Word(t, 2 * i - 1) = values[i]
  <2> SUFFICES ASSUME NEW i \in 1 .. N PROVE Word(t, 2 * i - 1) = values[i]
    OBVIOUS
  <2>1. 2 * i - 1 \in 1 .. 2 * N /\ 2 * i \in 1 .. 2 * N /\ (2 * i - 1) + 1 = 2 * i
    BY <1>1
  <2>2. t[2 * i - 1] = values[i] \div 256 /\ t[(2 * i - 1) + 1] = values[i] % 256
    BY <1>5, <1>7, <2>1
  <2> QED
    BY <1>1, <1>2, <2>2 DEF Word
<1>10. Words(t) \in Seq(UInt16) /\ Len(Words(t)) = N
       /\ \A i \in 1 .. N : Words(t)[i] = Word(t, 2 * i - 1)
  <2>1. Len(t) \div 2 = N
    BY <1>1, <1>8
  <2> QED
    BY <1>8, <2>1, WordsTyped
<1>11. Words(t) = values
  BY <1>9, <1>10, SeqEqual DEF N
<1> QED
  BY <1>4, <1>8, <1>11 DEF N

LEMMA PairsOfTwoEach ==
  ASSUME NEW values \in Seq(UInt16), NEW b, b = TwoEach(values)
  PROVE  Pairs(b, Len(b)) = values
<1>1. b \in Seq(Byte) /\ Len(b) = 2 * Len(values) /\ Words(b) = values
  BY TwoEachReads
<1>2. Len(values) \in Nat
  BY LenProperties
<1>3. AtMost(Len(b) + (Len(b) % 2), Len(b)) = Len(b)
  BY <1>1, <1>2 DEF AtMost
<1>4. SubSeq(b, 1, Len(b)) = b
  BY <1>1, SubSeqFull
<1> QED
  BY <1>1, <1>3, <1>4 DEF Pairs

------------------------------------------------------------------------------
(* Parts, one after the other. *)

\* What follows the first k parts.
Rests(rest, parts) ==
  /\ rest[0] = Chain(parts) /\ rest[Len(parts)] = <<>>
  /\ \A k \in 1 .. Len(parts) : rest[k - 1] = parts[k] \o rest[k]

\* What follows each of the parts that are put together.
LEMMA ChainRests ==
  ASSUME NEW S, NEW parts \in Seq(Seq(S))
  PROVE  \E rest \in [0 .. Len(parts) -> Seq(S)] : Rests(rest, parts)
<1>1. PICK f \in [0 .. Len(parts) -> Seq(S)] :
        PutsTogether(f, parts) /\ Chain(parts) = f[Len(parts)]
  BY ChainLoop, Zenon
<1> DEFINE N == Len(parts)
           rest == [k \in 0 .. N |-> f[N - k]]
<1>2. N \in Nat
  BY LenProperties
<1>3. rest \in [0 .. N -> Seq(S)]
  BY <1>2
<1>4. rest[0] = Chain(parts) /\ rest[N] = <<>>
  BY <1>1, <1>2 DEF PutsTogether
<1>5. ASSUME NEW k \in 1 .. N PROVE rest[k - 1] = parts[k] \o rest[k]
  <2> DEFINE n == N - k + 1
  <2>1. n \in 1 .. N
    BY <1>2
  <2>2. f[n] = parts[N - n + 1] \o f[n - 1]
    <3> HIDE DEF n
    <3> QED
      BY <1>1, <2>1 DEF PutsTogether
  <2>3. N - n + 1 = k /\ n = N - (k - 1) /\ n - 1 = N - k /\ k - 1 \in 0 .. N /\ k \in 0 .. N
    BY <1>2, <2>1
  <2> QED
    BY <2>2, <2>3
<1> QED
  BY <1>3, <1>4, <1>5 DEF Rests

\* Each part takes at least m of the length.
LEMMA RestsShorten ==
  ASSUME NEW S, NEW parts \in Seq(Seq(S)), NEW rest \in [0 .. Len(parts) -> Seq(S)],
         Rests(rest, parts), NEW m \in Nat, \A k \in 1 .. Len(parts) : m <= Len(parts[k])
  PROVE  /\ m * Len(parts) <= Len(rest[0])
         /\ \A k \in 1 .. Len(parts) : Len(parts[k]) <= Len(rest[0])
<1> DEFINE N == Len(parts)
           T == {k \in 0 .. N : m * k + Len(rest[k]) <= Len(rest[0])}
<1>1. N \in Nat
  BY LenProperties
<1>2. \A k \in 0 .. N : rest[k] \in Seq(S) /\ Len(rest[k]) \in Nat
  BY LenProperties
<1>3. ASSUME NEW k \in 1 .. N
      PROVE  /\ k - 1 \in 0 .. N /\ k \in 0 .. N /\ Len(parts[k]) \in Nat
             /\ Len(rest[k - 1]) = Len(parts[k]) + Len(rest[k])
  <2>1. k - 1 \in 0 .. N /\ k \in 0 .. N
    BY <1>1
  <2>2. parts[k] \in Seq(S) /\ rest[k] \in Seq(S)
    BY <2>1, ElementOfSeq
  <2>3. rest[k - 1] = parts[k] \o rest[k]
    BY DEF Rests
  <2> QED
    BY <2>1, <2>2, <2>3, ConcatProperties, LenProperties
<1>4. 0 \in T
  BY <1>1, <1>2
<1>5. ASSUME NEW k \in 1 .. N, k - 1 \in T PROVE k \in T
  <2>1. m * (k - 1) + Len(rest[k - 1]) <= Len(rest[0])
    BY <1>5
  <2>2. PICK a \in Int : a = m * (k - 1)
    OBVIOUS
  <2>3. m * k = a + m
    BY <2>2
  <2>4. m <= Len(parts[k]) /\ Len(rest[k - 1]) = Len(parts[k]) + Len(rest[k])
    BY <1>3
  <2>5. Len(parts[k]) \in Nat /\ Len(rest[k]) \in Nat /\ Len(rest[0]) \in Nat /\ k \in 0 .. N
    BY <1>1, <1>2, <1>3
  <2>7. a + Len(rest[k - 1]) <= Len(rest[0])
    BY <2>1, <2>2
  <2>6. (a + m) + Len(rest[k]) <= Len(rest[0])
    BY <2>4, <2>5, <2>7, SMTT(40)
  <2> QED
    BY <2>3, <2>5, <2>6
<1>6. \A k \in 0 .. N : m * k + Len(rest[k]) <= Len(rest[0])
  <2> HIDE DEF T
  <2>1. \A k \in 0 .. N : k \in T
    BY <1>1, <1>4, <1>5, UpTo
  <2> QED
    BY <2>1 DEF T
<1>7. m * N <= Len(rest[0])
  <2>1. N \in 0 .. N /\ 0 \in 0 .. N
    BY <1>1
  <2>2. PICK a \in Int : a = m * N
    BY <1>1
  <2> QED
    BY <1>2, <1>6, <2>1, <2>2
<1>8. ASSUME NEW k \in 1 .. N PROVE Len(parts[k]) <= Len(rest[0])
  <2>1. m * (k - 1) + Len(rest[k - 1]) <= Len(rest[0])
    BY <1>3, <1>6
  <2>2. PICK a \in Nat : a = m * (k - 1)
    <3>1. k - 1 \in Nat
      OBVIOUS
    <3> QED
      BY <3>1
  <2>3. Len(rest[0]) \in Nat /\ Len(rest[k]) \in Nat
    BY <1>1, <1>2, <1>3
  <2>4. a + Len(rest[k - 1]) <= Len(rest[0])
    BY <2>1, <2>2
  <2>5. Len(parts[k]) \in Nat /\ Len(rest[k - 1]) = Len(parts[k]) + Len(rest[k])
    BY <1>3
  <2>6. Len(rest[k - 1]) <= Len(rest[0])
    <3>1. Len(rest[k - 1]) \in Nat
      BY <1>2, <1>3
    <3> QED
      BY <2>3, <2>4, <3>1
  <2>7. PICK p \in Nat : p = Len(parts[k])
    BY <2>5
  <2>8. PICK q \in Nat : q = Len(rest[k])
    BY <2>3
  <2>9. p + q <= Len(rest[0])
    BY <2>5, <2>6, <2>7, <2>8
  <2> QED
    BY <2>3, <2>7, <2>9
<1> QED
  BY <1>7, <1>8

\* A loop that has come to its end stays there.
Arrives(f, K, N, x) ==
  /\ f[K] = x
  /\ \A n \in 1 .. N : f[n - 1] = x => f[n] = x

LEMMA Stays ==
  ASSUME NEW K \in Nat, NEW N \in Nat, K <= N, NEW f, NEW x, Arrives(f, K, N, x)
  PROVE  f[N] = x
<1> DEFINE T == {n \in 0 .. N : K <= n => f[n] = x}
<1>1. 0 \in T
  BY DEF Arrives
<1>2. ASSUME NEW n \in 1 .. N, n - 1 \in T PROVE n \in T
  <2>1. CASE K <= n - 1
    BY <1>2, <2>1 DEF Arrives
  <2>2. CASE ~(K <= n - 1)
    BY <2>2 DEF Arrives
  <2> QED
    BY <2>1, <2>2
<1>3. N \in T
  <2> HIDE DEF T
  <2>1. \A n \in 0 .. N : n \in T
    BY <1>1, <1>2, UpTo
  <2> QED
    BY <2>1
<1> QED
  BY <1>3

\* One more.
LEMMA PrefixExtends ==
  ASSUME NEW S, NEW s \in Seq(S), NEW n \in 1 .. Len(s)
  PROVE  SubSeq(s, 1, n) = Append(SubSeq(s, 1, n - 1), s[n])
<1>1. Len(s) \in Nat /\ 1 \in 1 .. Len(s) /\ n - 1 \in 0 .. Len(s)
  BY LenProperties
<1>2. SubSeq(s, 1, n) = SubSeq(s, 1, n - 1) \o <<s[n]>>
  BY <1>1, SubSeqRecursiveSecond
<1>3. SubSeq(s, 1, n - 1) \in Seq(S) /\ s[n] \in S
  BY <1>1, PrefixTyped, ElementOfSeq
<1> QED
  BY <1>2, <1>3, AppendIsConcat

\* The names of protocols.
LEMMA ProtocolsRead ==
  ASSUME NEW names \in Seq(Seq(Byte)), \A n \in 1 .. Len(names) : Len(names[n]) \in Byte,
         NEW parts, parts = [n \in 1 .. Len(names) |-> Vector8(names[n])]
  PROVE  parts \in Seq(Seq(Byte)) /\ ProtocolList(Chain(parts)) = names
<1>1. PICK K \in Nat : K = Len(names)
  BY LenProperties
<1>2. \A n \in 1 .. K : names[n] \in Seq(Byte)
  BY <1>1, ElementOfSeq
<1>3. \A n \in 1 .. K : Vector8(names[n]) \in Seq(Byte) /\ Len(Vector8(names[n])) >= 1
  <2> SUFFICES ASSUME NEW n \in 1 .. K
               PROVE  Vector8(names[n]) \in Seq(Byte) /\ Len(Vector8(names[n])) >= 1
    OBVIOUS
  <2>1. names[n] \in Seq(Byte) /\ Len(names[n]) \in Nat /\ Len(names[n]) \in Byte
    BY <1>1, <1>2, LenProperties
  <2>2. PICK a \in Seq(Byte) : a = <<Len(names[n])>> /\ Len(a) = 1
    BY <2>1, ByteOne
  <2> QED
    BY <2>1, <2>2, ConcatProperties DEF Vector8
<1>4. parts \in Seq(Seq(Byte)) /\ Len(parts) = K /\ \A n \in 1 .. K : parts[n] = Vector8(names[n])
  <2>1. parts = [n \in 1 .. K |-> Vector8(names[n])]
    BY <1>1
  <2>2. parts \in Seq(Seq(Byte))
    BY <1>3, <2>1, IsASeq
  <2> QED
    BY <2>1, <2>2
<1>5. PICK rest \in [0 .. K -> Seq(Byte)] : Rests(rest, parts)
  BY <1>4, ChainRests
<1>6. PICK b \in Seq(Byte) : b = Chain(parts) /\ b = rest[0]
  <2>1. 0 \in 0 .. K
    OBVIOUS
  <2>2. rest[0] \in Seq(Byte)
    BY <2>1
  <2> QED
    BY <1>5, <2>2 DEF Rests
<1>7. PICK N \in Nat : N = Len(b)
  BY LenProperties
<1>8. PICK f \in [0 .. N -> ParsedProtocols] : ReadsProtocols(f, b) /\ ProtocolList(b) = f[N].protocols
  BY <1>7, ProtocolLoop
<1>9. K <= N
  <2>1. 1 * Len(parts) <= Len(rest[0])
    <3>1. \A k \in 1 .. Len(parts) : 1 <= Len(parts[k])
      BY <1>3, <1>4
    <3>2. rest \in [0 .. Len(parts) -> Seq(Byte)]
      BY <1>4
    <3> QED
      BY <1>4, <1>5, <3>1, <3>2, RestsShorten
  <2> QED
    BY <1>4, <1>6, <1>7, <2>1
<1> DEFINE State(n) == [rest |-> rest[n], protocols |-> SubSeq(names, 1, n)]
           T == {n \in 0 .. K : f[n] = State(n)}
<1>10. 0 \in T
  <2>1. f[0] = [rest |-> b, protocols |-> <<>>]
    BY <1>8 DEF ReadsProtocols
  <2>2. SubSeq(names, 1, 0) = <<>>
    BY SubSeqEmpty
  <2>3. f[0] = State(0)
    BY <1>6, <2>1, <2>2
  <2> HIDE DEF State
  <2> QED
    BY <2>3
<1>11. ASSUME NEW n \in 1 .. K, n - 1 \in T PROVE n \in T
  <2>1. n \in 1 .. N /\ n \in 1 .. Len(names) /\ n \in 0 .. K
    BY <1>1, <1>9
  <2>2. f[n] = NextProtocol(f[n - 1])
    BY <1>7, <1>8, <2>1 DEF ReadsProtocols
  <2>3. PICK v : v = rest[n - 1]
    OBVIOUS
  <2>4. v = Vector8(names[n]) \o rest[n]
    BY <1>4, <1>5, <2>3 DEF Rests
  <2>5. Has8(v) /\ Value8(v) = names[n] /\ After8(v) = rest[n]
    <3>1. PICK name \in Seq(Byte) : name = names[n] /\ Len(name) \in Byte
      BY <1>2, <2>1
    <3>2. PICK after \in Seq(Byte) : after = rest[n]
      BY <2>1
    <3>3. Joins(v, Vector8(name), after)
      BY <2>4, <3>1, <3>2 DEF Joins
    <3>4. Has8(v) /\ Value8(v) = name /\ After8(v) = after
      BY <3>1, <3>3, Vector8Reads
    <3> QED
      BY <3>1, <3>2, <3>4
  <2>6. f[n - 1] = [rest |-> v, protocols |-> SubSeq(names, 1, n - 1)]
    BY <1>11, <2>3
  <2>7. SubSeq(names, 1, n) = Append(SubSeq(names, 1, n - 1), names[n])
    BY <2>1, PrefixExtends
  <2>8. f[n] = State(n)
    <3>1. PICK s : s = f[n - 1]
      OBVIOUS
    <3>2. s.rest = v /\ s.protocols = SubSeq(names, 1, n - 1)
      BY <2>6, <3>1
    <3>3. f[n] = [rest |-> After8(v), protocols |-> Append(s.protocols, Value8(v))]
      BY <2>2, <2>5, <3>1, <3>2 DEF NextProtocol
    <3> QED
      BY <2>5, <2>7, <3>2, <3>3
  <2> HIDE DEF State
  <2> QED
    BY <2>1, <2>8
<1>12. f[K] = State(K)
  <2> HIDE DEF T
  <2>1. \A n \in 0 .. K : n \in T
    BY <1>10, <1>11, UpTo
  <2> QED
    BY <2>1 DEF T
<1>13. State(K) = [rest |-> <<>>, protocols |-> names]
  BY <1>1, <1>4, <1>5, SubSeqFull DEF Rests
<1>14. f[N] = [rest |-> <<>>, protocols |-> names]
  <2> DEFINE x == [rest |-> <<>>, protocols |-> names]
  <2>1. ~Has8(<<>>)
    BY EmptySeq DEF Has8
  <2>2. NextProtocol(x) = x
    BY <2>1 DEF NextProtocol
  <2>3. f[K] = x
    BY <1>12, <1>13
  <2> HIDE DEF x
  <2>4. \A n \in 1 .. N : f[n - 1] = x => f[n] = x
    BY <1>7, <1>8, <2>2 DEF ReadsProtocols
  <2>5. Arrives(f, K, N, x)
    BY <2>3, <2>4, Zenon DEF Arrives
  <2>6. f[N] = x
    BY <1>9, <2>5, Stays
  <2> QED
    BY <2>6 DEF x
<1> QED
  BY <1>4, <1>6, <1>8, <1>14

------------------------------------------------------------------------------
(* Offers. *)

\* The values that isGREASE recognises are those of RFC 8701.
LEMMA GreaseIs == GreaseValues = GREASE
<1>1. ASSUME NEW v \in GreaseValues PROVE v \in GREASE
  <2>1. v \in UInt16 /\ v \div 256 = v % 256 /\ v % 16 = 10
    BY DEF GreaseValues, IsGREASE
  <2>2. v \in Nat /\ v <= 65535
    BY <2>1, NumbersAreNat, UInt16Is, SMT
  <2>3. PICK q \in Nat : q = v \div 256 /\ v = 257 * q /\ q <= 255
    <3>1. v \div 256 \in Nat /\ v \div 256 <= 255 /\ v = 256 * (v \div 256) + (v % 256)
      BY <2>2, SMT
    <3>2. v = 257 * (v \div 256)
      BY <2>1, <3>1, SMT
    <3> QED
      BY <3>1, <3>2, SMT
  <2>4. q % 16 = 10
    BY <2>1, <2>3, SMT
  <2>5. PICK i \in Nat : i = q \div 16 /\ q = 16 * i + 10
    BY <2>4, SMT
  <2>6. i \in 0 .. 15 /\ v = 2570 + 4112 * i
    BY <2>3, <2>5, SMT
  <2> QED
    BY <2>6, SMT DEF GREASE
<1>2. ASSUME NEW v \in GREASE PROVE v \in GreaseValues
  <2>1. PICK i \in 0 .. 15 : v = 2570 + 4112 * i
    BY SMT DEF GREASE
  <2>2. v \in Nat /\ v <= 65535
    BY <2>1, SMT
  <2>3. v = 257 * (16 * i + 10)
    BY <2>1, SMT
  <2>4. v \div 256 = 16 * i + 10 /\ v % 256 = 16 * i + 10 /\ v % 16 = 10
    BY <2>1, SMT
  <2>5. v \in UInt16
    BY <2>2, UInt16Is, SMT
  <2> QED
    BY <2>4, <2>5, SMT DEF GreaseValues, IsGREASE
<1> QED
  BY <1>1, <1>2

\* What is in an offer.
LEMMA OfferTyped ==
  ASSUME NEW o, IsOffer(o)
  PROVE  /\ o.version \in UInt16
         /\ o.random \in Seq(Byte) /\ Len(o.random) = 32
         /\ o.session \in Seq(Byte) /\ Len(o.session) \in Byte
         /\ o.ciphers \in Seq(UInt16) /\ o.extensions \in Seq(UInt16)
         /\ \A i, k \in 1 .. Len(o.extensions) : o.extensions[i] = o.extensions[k] => i = k
         /\ \A i \in 1 .. Len(o.extensions) : o.others[i] \in Seq(Byte)
         /\ o.host \in Seq(Byte) /\ o.sigAlgs \in Seq(UInt16)
         /\ o.protocols \in Seq(Seq(Byte))
         /\ \A n \in 1 .. Len(o.protocols) : Len(o.protocols[n]) \in Byte
         /\ o.versions \in Seq(UInt16) /\ Len(TwoEach(o.versions)) \in Byte
<1>1. /\ o.random \in Seq(Byte) /\ Len(o.random) = 32
      /\ o.ciphers \in Seq(UInt16) /\ o.extensions \in Seq(UInt16)
      /\ \A i, k \in 1 .. Len(o.extensions) : o.extensions[i] = o.extensions[k] => i = k
      /\ \A i \in 1 .. Len(o.extensions) : o.others[i] \in Seq(Byte)
      /\ o.host \in Seq(Byte) /\ o.sigAlgs \in Seq(UInt16)
      /\ o.protocols \in Seq(Seq(Byte))
  <2>1. o.random \in Seq(Byte) /\ Len(o.random) = 32
    BY SMTT(40) DEF IsOffer
  <2>2. o.ciphers \in Seq(UInt16) /\ o.extensions \in Seq(UInt16)
    BY SMTT(40) DEF IsOffer
  <2>3. \A i, k \in 1 .. Len(o.extensions) : o.extensions[i] = o.extensions[k] => i = k
    BY SMTT(40) DEF IsOffer
  <2>4. o.others \in [1 .. Len(o.extensions) -> Seq(Byte)]
    BY SMTT(40) DEF IsOffer
  <2>5. \A i \in 1 .. Len(o.extensions) : o.others[i] \in Seq(Byte)
    BY <2>4, Zenon
  <2>6. o.host \in Seq(Byte) /\ o.sigAlgs \in Seq(UInt16)
    BY SMTT(40) DEF IsOffer
  <2>7. o.protocols \in Seq(Seq(Byte))
    BY SMT DEF IsOffer
  <2> QED
    BY <2>1, <2>2, <2>3, <2>5, <2>6, <2>7, Zenon
<1>2. o.version \in UInt16
  <2>1. o.version \in 768 .. 772
    BY SMT DEF IsOffer
  <2>2. o.version \in Int /\ 0 <= o.version /\ o.version <= 65535
    BY <2>1, SMT
  <2> QED
    BY <2>1, <2>2, UInt16Is, SMTT(40)
<1>3. o.session \in Seq(Byte) /\ Len(o.session) \in Byte
  <2>1. o.session \in Seq(Byte) /\ Len(o.session) <= 32
    BY SMTT(40) DEF IsOffer
  <2>2. Len(o.session) \in Nat
    BY <2>1, LenProperties, SMT
  <2> QED
    BY <2>1, <2>2, ByteIs, SMTT(40)
<1>4. \A n \in 1 .. Len(o.protocols) : Len(o.protocols[n]) \in Byte
  <2>1. \A n \in 1 .. Len(o.protocols) : Len(o.protocols[n]) \in 1 .. 255
    BY SMT DEF IsOffer
  <2>2. \A n \in 1 .. 255 : n \in Byte
    BY ByteIs, SMT
  <2> SUFFICES ASSUME NEW n \in 1 .. Len(o.protocols) PROVE Len(o.protocols[n]) \in Byte
    OBVIOUS
  <2>3. Len(o.protocols[n]) \in 1 .. 255
    BY <2>1, SMTT(40)
  <2> QED
    BY <2>2, <2>3
<1>5. o.versions \in Seq(UInt16)
  <2>1. o.versions \in Seq((768 .. 772) \cup GREASE)
    BY SMT DEF IsOffer
  <2>2. (768 .. 772) \subseteq UInt16
    BY UInt16Is, SMT
  <2>3. GREASE \subseteq UInt16
    BY GreaseIs, SMT DEF GreaseValues
  <2>4. \A v \in (768 .. 772) \cup GREASE : v \in UInt16
    BY <2>2, <2>3, SMT
  <2>5. PICK V : V = (768 .. 772) \cup GREASE
    OBVIOUS
  <2>6. \A v \in V : v \in UInt16
    BY <2>4, <2>5, SMT
  <2>7. V \subseteq UInt16
    BY <2>6
  <2>8. o.versions \in Seq(V)
    BY <2>1, <2>5, SMT
  <2> QED
    BY <2>7, <2>8, SeqMonotonic
<1>6. Len(TwoEach(o.versions)) \in Byte
  <2>1. Len(o.versions) <= 127
    BY SMT DEF IsOffer
  <2>2. Len(o.versions) \in Nat /\ Len(TwoEach(o.versions)) = 2 * Len(o.versions)
    BY <1>5, LenProperties, TwoEachReads, SMT
  <2>3. 2 * Len(o.versions) \in Int /\ 0 <= 2 * Len(o.versions) /\ 2 * Len(o.versions) <= 255
    BY <2>1, <2>2, SMT
  <2> QED
    BY <2>2, <2>3, ByteIs, SMT
<1> QED
  BY <1>1, <1>2, <1>3, <1>4, <1>5, <1>6

------------------------------------------------------------------------------
(* What is sent fits into the lengths it is sent with. *)

LEMMA BytesAreNats ==
  ASSUME NEW b \in Seq(Byte)
  PROVE  b \in Seq(Nat) /\ Len(b) \in Nat
  BY NumbersAreNat, SeqMonotonic, LenProperties

LEMMA TwoLength ==
  ASSUME NEW v \in Nat
  PROVE  Two(v) \in Seq(Nat) /\ Len(Two(v)) = 2
<1>1. PICK h \in Nat, l \in Nat : h = v \div 256 /\ l = v % 256
  <2>1. v \div 256 \in Nat /\ v % 256 \in Nat
    BY SMT
  <2> QED
    BY <2>1
<1>2. Two(v) = <<h, l>>
  BY <1>1 DEF Two
<1> QED
  BY <1>2

LEMMA Vector16Length ==
  ASSUME NEW b \in Seq(Nat)
  PROVE  Vector16(b) \in Seq(Nat) /\ Len(b) \in Nat /\ Len(Vector16(b)) = 2 + Len(b)
<1>1. Len(b) \in Nat
  BY LenProperties
<1>2. PICK t \in Seq(Nat) : t = Two(Len(b)) /\ Len(t) = 2
  BY <1>1, TwoLength
<1>3. Vector16(b) = t \o b
  BY <1>2 DEF Vector16
<1>4. t \o b \in Seq(Nat) /\ Len(t \o b) = Len(t) + Len(b)
  BY ConcatProperties
<1> QED
  BY <1>1, <1>2, <1>3, <1>4

LEMMA Vector8Length ==
  ASSUME NEW b \in Seq(Nat)
  PROVE  Vector8(b) \in Seq(Nat) /\ Len(b) \in Nat /\ Len(Vector8(b)) = 1 + Len(b)
<1>1. Len(b) \in Nat
  BY LenProperties
<1>2. <<Len(b)>> \in Seq(Nat) /\ Len(<<Len(b)>>) = 1
  BY <1>1
<1> QED
  BY <1>1, <1>2, ConcatProperties DEF Vector8

LEMMA TwoEachLength ==
  ASSUME NEW values \in Seq(UInt16)
  PROVE  /\ TwoEach(values) \in Seq(Byte) /\ TwoEach(values) \in Seq(Nat)
         /\ Len(TwoEach(values)) \in Nat
  BY TwoEachReads, BytesAreNats

LEMMA ProtocolsOf ==
  ASSUME NEW o, IsOffer(o)
  PROVE  Protocols(o) \in Seq(Byte) /\ ProtocolList(Protocols(o)) = o.protocols
<1>1. PICK parts : parts = [n \in 1 .. Len(o.protocols) |-> Vector8(o.protocols[n])]
  OBVIOUS
<1>2. PICK names : names = o.protocols
  OBVIOUS
<1>3. names \in Seq(Seq(Byte)) /\ \A n \in 1 .. Len(names) : Len(names[n]) \in Byte
  <2>1. o.protocols \in Seq(Seq(Byte)) /\ \A n \in 1 .. Len(o.protocols) : Len(o.protocols[n]) \in Byte
    BY OfferTyped, Zenon
  <2> QED
    BY <1>2, <2>1, Zenon
<1>4. parts \in Seq(Seq(Byte)) /\ ProtocolList(Chain(parts)) = names
  <2>1. parts = [n \in 1 .. Len(names) |-> Vector8(names[n])]
    BY <1>1, <1>2
  <2> QED
    BY <1>3, <2>1, ProtocolsRead
<1>5. PICK rest \in [0 .. Len(parts) -> Seq(Byte)] : Rests(rest, parts)
  BY <1>4, ChainRests
<1>6. 0 \in 0 .. Len(parts)
  BY <1>4, LenProperties
<1>7. rest[0] \in Seq(Byte) /\ rest[0] = Chain(parts)
  BY <1>5, <1>6 DEF Rests
<1> QED
  BY <1>1, <1>2, <1>4, <1>7 DEF Protocols

\* The lengths of the parts, which fit into what they are encoded in.
LEMMA BodyLength ==
  ASSUME NEW o, IsOffer(o), NEW i \in 1 .. Len(o.extensions)
  PROVE  /\ ExtensionBody(o, i) \in Seq(Nat) /\ Len(ExtensionBody(o, i)) \in Nat
         /\ o.extensions[i] = 0 => Len(ExtensionBody(o, i)) = 5 + Len(o.host)
         /\ o.extensions[i] = 13 => Len(ExtensionBody(o, i)) = 2 + Len(TwoEach(o.sigAlgs))
         /\ o.extensions[i] = 16 => Len(ExtensionBody(o, i)) = 2 + Len(Protocols(o))
<1>1. PICK type : type = o.extensions[i]
  OBVIOUS
<1>2. PICK body : body = ExtensionBody(o, i)
  OBVIOUS
<1>3. body =
        IF type = 0 THEN Vector16(<<0>> \o Vector16(o.host))
        ELSE IF type = 13 THEN Vector16(TwoEach(o.sigAlgs))
        ELSE IF type = 16 THEN Vector16(Protocols(o))
        ELSE IF type = 43 THEN Vector8(TwoEach(o.versions))
        ELSE o.others[i]
  BY <1>1, <1>2 DEF ExtensionBody
<1>4. /\ o.host \in Seq(Nat) /\ Len(o.host) \in Nat
      /\ TwoEach(o.sigAlgs) \in Seq(Nat) /\ TwoEach(o.versions) \in Seq(Nat)
      /\ Protocols(o) \in Seq(Nat) /\ o.others[i] \in Seq(Nat)
  BY OfferTyped, ProtocolsOf, BytesAreNats, TwoEachLength
<1>5. CASE type = 0
  <2>1. PICK h \in Seq(Nat) : h = Vector16(o.host) /\ Len(h) = 2 + Len(o.host)
    BY <1>4, Vector16Length
  <2>2. <<0>> \in Seq(Nat) /\ Len(<<0>>) = 1
    OBVIOUS
  <2>3. <<0>> \o h \in Seq(Nat) /\ Len(<<0>> \o h) = Len(<<0>>) + Len(h)
    BY <2>2, ConcatProperties
  <2>4. PICK b \in Seq(Nat) : b = <<0>> \o Vector16(o.host) /\ Len(b) = 3 + Len(o.host)
    <3>1. Len(<<0>> \o h) = 3 + Len(o.host)
      BY <1>4, <2>1, <2>2, <2>3
    <3> QED
      BY <2>1, <2>3, <3>1
  <2>5. body = Vector16(b)
    BY <1>3, <1>5, <2>4
  <2>6. body \in Seq(Nat) /\ Len(body) = 2 + Len(b)
    BY <2>5, Vector16Length
  <2> QED
    BY <1>1, <1>2, <1>4, <1>5, <2>4, <2>6
<1>6. CASE type = 13
  <2>1. body = Vector16(TwoEach(o.sigAlgs))
    BY <1>3, <1>6
  <2>2. body \in Seq(Nat) /\ Len(body) = 2 + Len(TwoEach(o.sigAlgs)) /\ Len(TwoEach(o.sigAlgs)) \in Nat
    BY <1>4, <2>1, Vector16Length
  <2> QED
    BY <1>1, <1>2, <1>6, <2>2
<1>7. CASE type = 16
  <2>1. body = Vector16(Protocols(o))
    BY <1>3, <1>7
  <2>2. body \in Seq(Nat) /\ Len(body) = 2 + Len(Protocols(o)) /\ Len(Protocols(o)) \in Nat
    BY <1>4, <2>1, Vector16Length
  <2> QED
    BY <1>1, <1>2, <1>7, <2>2
<1>8. CASE type \notin {0, 13, 16}
  <2>1. body = IF type = 43 THEN Vector8(TwoEach(o.versions)) ELSE o.others[i]
    BY <1>3, <1>8
  <2>2. Vector8(TwoEach(o.versions)) \in Seq(Nat)
    BY <1>4, Vector8Length
  <2>3. body \in Seq(Nat)
    BY <1>4, <2>1, <2>2, Zenon
  <2>4. Len(body) \in Nat
    BY <2>3, LenProperties
  <2> QED
    BY <1>1, <1>2, <1>8, <2>3, <2>4
<1> QED
  BY <1>5, <1>6, <1>7, <1>8

LEMMA ExtensionLength ==
  ASSUME NEW o, IsOffer(o), NEW i \in 1 .. Len(o.extensions)
  PROVE  /\ Extension(o, i) \in Seq(Nat)
         /\ Len(Extension(o, i)) = 4 + Len(ExtensionBody(o, i))
<1>1. PICK body \in Seq(Nat) : body = ExtensionBody(o, i)
  BY BodyLength
<1>2. o.extensions[i] \in Nat
  BY OfferTyped, ElementOfSeq, NumbersAreNat
<1>3. PICK t \in Seq(Nat) : t = Two(o.extensions[i]) /\ Len(t) = 2
  BY <1>2, TwoLength
<1>4. PICK v \in Seq(Nat) : v = Vector16(body) /\ Len(v) = 2 + Len(body) /\ Len(body) \in Nat
  BY Vector16Length
<1>5. t \o v \in Seq(Nat) /\ Len(t \o v) = Len(t) + Len(v)
  BY ConcatProperties
<1>6. Extension(o, i) = t \o v
  BY <1>1, <1>3, <1>4 DEF Extension
<1> QED
  BY <1>1, <1>3, <1>4, <1>5, <1>6

LEMMA ExtensionsLength ==
  ASSUME NEW o, IsOffer(o)
  PROVE  /\ Extensions(o) \in Seq(Nat) /\ Len(Extensions(o)) \in Nat
         /\ \A i \in 1 .. Len(o.extensions) :
              Len(ExtensionBody(o, i)) + 4 <= Len(Extensions(o))
<1>1. PICK N \in Nat : N = Len(o.extensions)
  BY OfferTyped, LenProperties
<1>2. PICK parts : parts = [i \in 1 .. N |-> Extension(o, i)]
  OBVIOUS
<1>3. \A i \in 1 .. N : Extension(o, i) \in Seq(Nat)
  BY <1>1, ExtensionLength
<1>4. parts \in Seq(Seq(Nat)) /\ Len(parts) = N /\ \A i \in 1 .. N : parts[i] = Extension(o, i)
  <2>1. parts \in Seq(Seq(Nat))
    BY <1>2, <1>3, IsASeq
  <2> QED
    BY <1>2, <2>1
<1>5. PICK rest \in [0 .. Len(parts) -> Seq(Nat)] : Rests(rest, parts)
  BY <1>4, ChainRests
<1>6. rest[0] \in Seq(Nat) /\ rest[0] = Chain(parts)
  <2>1. 0 \in 0 .. Len(parts)
    BY <1>4
  <2> QED
    BY <1>5, <2>1 DEF Rests
<1>7. \A k \in 1 .. Len(parts) : Len(parts[k]) <= Len(rest[0])
  <2>1. \A k \in 1 .. Len(parts) : 0 <= Len(parts[k])
    BY <1>4, ElementOfSeq, LenProperties
  <2> QED
    BY <1>4, <1>5, <2>1, RestsShorten
<1>8. Extensions(o) = rest[0]
  BY <1>1, <1>2, <1>6 DEF Extensions
<1>9. ASSUME NEW i \in 1 .. N PROVE Len(ExtensionBody(o, i)) + 4 <= Len(Extensions(o))
  <2>1. Len(Extension(o, i)) = 4 + Len(ExtensionBody(o, i)) /\ Len(ExtensionBody(o, i)) \in Nat
    BY <1>1, ExtensionLength, BodyLength
  <2>2. Len(Extension(o, i)) <= Len(Extensions(o))
    BY <1>4, <1>7, <1>8
  <2> QED
    BY <2>1, <2>2
<1> QED
  BY <1>1, <1>6, <1>8, <1>9, LenProperties

\* The list of extensions that is sent.
LEMMA ExtendedLength ==
  ASSUME NEW o, IsOffer(o)
  PROVE  /\ Extended(o) \in Seq(Nat) /\ Len(Extended(o)) \in Nat
         /\ o.extensions # <<>> => Len(Extended(o)) = 2 + Len(Extensions(o))
<1>1. CASE o.extensions = <<>>
  <2>1. Extended(o) = <<>>
    BY <1>1 DEF Extended
  <2>2. <<>> \in Seq(Nat) /\ Len(<<>>) \in Nat
    OBVIOUS
  <2> QED
    BY <1>1, <2>1, <2>2
<1>2. CASE o.extensions # <<>>
  <2>1. Extended(o) = Vector16(Extensions(o))
    BY <1>2 DEF Extended
  <2>2. PICK b \in Seq(Nat) : b = Extensions(o) /\ Len(b) \in Nat
    BY ExtensionsLength
  <2>3. Vector16(b) \in Seq(Nat) /\ Len(Vector16(b)) = 2 + Len(b)
    BY Vector16Length
  <2> QED
    BY <2>1, <2>2, <2>3
<1> QED
  BY <1>1, <1>2

LEMMA JoinLength ==
  ASSUME NEW a \in Seq(Nat), NEW b \in Seq(Nat)
  PROVE  /\ a \o b \in Seq(Nat) /\ Len(a) \in Nat /\ Len(b) \in Nat
         /\ Len(a \o b) = Len(a) + Len(b)
  BY ConcatProperties, LenProperties

LEMMA HelloLengths ==
  ASSUME NEW o, IsOffer(o)
  PROVE  /\ HelloBody(o) \in Seq(Nat) /\ Len(HelloBody(o)) \in Nat
         /\ Len(Hello(o)) = 4 + Len(HelloBody(o))
         /\ Len(TwoEach(o.ciphers)) + Len(Extended(o)) <= Len(HelloBody(o))
<1>1. PICK v \in Seq(Nat) : v = Two(o.version)
  <2>1. o.version \in Nat
    BY OfferTyped, NumbersAreNat
  <2> QED
    BY <2>1, TwoLength
<1>2. PICK r \in Seq(Nat) : r = o.random
  BY OfferTyped, BytesAreNats
<1>3. PICK s \in Seq(Nat) : s = Vector8(o.session)
  BY OfferTyped, BytesAreNats, Vector8Length
<1>4. PICK c \in Seq(Nat) :
        c = Vector16(TwoEach(o.ciphers)) /\ Len(TwoEach(o.ciphers)) <= Len(c) /\ Len(TwoEach(o.ciphers)) \in Nat
  <2>1. PICK b \in Seq(Nat) : b = TwoEach(o.ciphers) /\ Len(b) \in Nat
    BY OfferTyped, TwoEachLength
  <2>2. Vector16(b) \in Seq(Nat) /\ Len(Vector16(b)) = 2 + Len(b)
    BY Vector16Length
  <2>3. Len(b) <= Len(Vector16(b))
    BY <2>1, <2>2
  <2> QED
    BY <2>1, <2>2, <2>3
<1>5. PICK m \in Seq(Nat) : m = Vector8(<<0>>)
  <2>1. <<0>> \in Seq(Nat)
    OBVIOUS
  <2> QED
    BY <2>1, Vector8Length
<1>6. PICK e \in Seq(Nat) : e = Extended(o)
  BY ExtendedLength
<1>7. HelloBody(o) = v \o (r \o (s \o (c \o (m \o e))))
  BY <1>1, <1>2, <1>3, <1>4, <1>5, <1>6 DEF HelloBody
<1>8. PICK t5 \in Seq(Nat) : t5 = m \o e /\ Len(t5) = Len(m) + Len(e)
  BY JoinLength
<1>9. PICK t4 \in Seq(Nat) : t4 = c \o t5 /\ Len(t4) = Len(c) + Len(t5)
  BY JoinLength
<1>10. PICK t3 \in Seq(Nat) : t3 = s \o t4 /\ Len(t3) = Len(s) + Len(t4)
  BY JoinLength
<1>11. PICK t2 \in Seq(Nat) : t2 = r \o t3 /\ Len(t2) = Len(r) + Len(t3)
  BY JoinLength
<1>12. PICK t1 \in Seq(Nat) : t1 = v \o t2 /\ Len(t1) = Len(v) + Len(t2)
  BY JoinLength
<1>13. HelloBody(o) = t1
  BY <1>7, <1>8, <1>9, <1>10, <1>11, <1>12
<1>14. /\ Len(v) \in Nat /\ Len(r) \in Nat /\ Len(s) \in Nat /\ Len(c) \in Nat
       /\ Len(m) \in Nat /\ Len(e) \in Nat
  BY LenProperties
<1>15. Len(t1) = Len(v) + (Len(r) + (Len(s) + (Len(c) + (Len(m) + Len(e)))))
  BY <1>8, <1>9, <1>10, <1>11, <1>12
<1>16. Len(t1) \in Nat /\ Len(TwoEach(o.ciphers)) + Len(e) <= Len(t1)
  <2>1. Len(t1) \in Nat /\ Len(c) + Len(e) <= Len(t1)
    BY <1>14, <1>15
  <2> QED
    BY <1>4, <1>14, <2>1
<1>17. Len(Hello(o)) = 4 + Len(t1)
  <2>1. <<1, 0>> \in Seq(Nat) /\ Len(<<1, 0>>) = 2
    OBVIOUS
  <2>2. PICK w \in Seq(Nat) : w = Vector16(t1) /\ Len(w) = 2 + Len(t1)
    BY Vector16Length
  <2>3. Len(<<1, 0>> \o w) = Len(<<1, 0>>) + Len(w)
    BY <2>1, JoinLength
  <2>4. Hello(o) = <<1, 0>> \o w
    BY <1>13, <2>2 DEF Hello
  <2> QED
    BY <1>16, <2>1, <2>2, <2>3, <2>4
<1> QED
  BY <1>6, <1>13, <1>16, <1>17

\* The lengths of what is sent are numbers of two bytes.
LEMMA Fits ==
  ASSUME NEW o, IsOffer(o)
  PROVE  /\ Len(HelloBody(o)) \in UInt16 /\ Len(TwoEach(o.ciphers)) \in UInt16
         /\ o.extensions # <<>> => Len(Extensions(o)) \in UInt16
<1>1. Len(Hello(o)) <= 16384
  BY SMT DEF IsOffer
<1>2. /\ Len(HelloBody(o)) \in Nat
      /\ Len(Hello(o)) = 4 + Len(HelloBody(o))
      /\ Len(TwoEach(o.ciphers)) + Len(Extended(o)) <= Len(HelloBody(o))
  BY HelloLengths, SMT
<1>3. Len(HelloBody(o)) <= 65535
  BY <1>1, <1>2, SMT
<1>4. Len(TwoEach(o.ciphers)) \in Nat /\ Len(Extended(o)) \in Nat
  BY OfferTyped, TwoEachLength, ExtendedLength, SMT
<1>5. Len(TwoEach(o.ciphers)) <= 65535 /\ Len(Extended(o)) <= 65535
  BY <1>2, <1>3, <1>4, SMT
<1>6. ASSUME o.extensions # <<>> PROVE Len(Extensions(o)) \in UInt16
  <2>1. Len(Extended(o)) = 2 + Len(Extensions(o)) /\ Len(Extensions(o)) \in Nat
    BY <1>6, ExtendedLength, ExtensionsLength, SMT
  <2>2. Len(Extensions(o)) <= 65535
    BY <1>5, <2>1, SMT
  <2> QED
    BY <2>1, <2>2, UInt16Is, SMT
<1> QED
  BY <1>2, <1>3, <1>4, <1>5, <1>6, UInt16Is, SMTT(40)

\* A vector that nothing follows.
LEMMA Vector16Alone ==
  ASSUME NEW b \in Seq(Byte), Len(b) \in UInt16
  PROVE  /\ Vector16(b) \in Seq(Byte) /\ Len(Vector16(b)) = 2 + Len(b) /\ Len(b) \in Nat
         /\ Word(Vector16(b), 1) = Len(b) /\ From(Vector16(b), 3) = b
<1>1. b \in Seq(Nat) /\ Len(b) \in Nat
  BY BytesAreNats
<1>2. PICK r \in Seq(Byte) : r = <<>>
  BY EmptySeq
<1>3. Vector16(b) \in Seq(Nat) /\ Len(Vector16(b)) = 2 + Len(b)
  BY <1>1, Vector16Length
<1>4. PICK v \in Seq(Nat) : v = Vector16(b) /\ Len(v) = 2 + Len(b)
  BY <1>3
<1>5. Joins(v, Vector16(b), r)
  BY <1>2, <1>4, ConcatEmptySeq DEF Joins
<1>6. v \in Seq(Byte) /\ Word(v, 1) = Len(b) /\ Value16(v) = b
  BY <1>5, Vector16Reads
<1>7. From(v, 3) = b
  BY <1>4, <1>6 DEF From, Value16
<1> QED
  BY <1>1, <1>4, <1>6, <1>7

LEMMA Vector8Alone ==
  ASSUME NEW b \in Seq(Byte), Len(b) \in Byte
  PROVE  /\ Vector8(b) \in Seq(Byte) /\ Len(Vector8(b)) = 1 + Len(b) /\ Len(b) \in Nat
         /\ Vector8(b)[1] = Len(b) /\ From(Vector8(b), 2) = b
<1>1. b \in Seq(Nat) /\ Len(b) \in Nat
  BY BytesAreNats
<1>2. PICK r \in Seq(Byte) : r = <<>>
  BY EmptySeq
<1>3. Vector8(b) \in Seq(Nat) /\ Len(Vector8(b)) = 1 + Len(b)
  BY <1>1, Vector8Length
<1>4. PICK v \in Seq(Nat) : v = Vector8(b) /\ Len(v) = 1 + Len(b)
  BY <1>3
<1>5. Joins(v, Vector8(b), r)
  BY <1>2, <1>4, ConcatEmptySeq DEF Joins
<1>6. v \in Seq(Byte) /\ v[1] = Len(b) /\ Value8(v) = b
  BY <1>5, Vector8Reads
<1>7. From(v, 2) = b
  BY <1>4, <1>6 DEF From, Value8
<1> QED
  BY <1>1, <1>4, <1>6, <1>7

\* What parseClientHello takes from the extensions it knows.
LEMMA BodyRead ==
  ASSUME NEW o, IsOffer(o), NEW i \in 1 .. Len(o.extensions)
  PROVE  /\ ExtensionBody(o, i) \in Seq(Byte) /\ Len(ExtensionBody(o, i)) \in UInt16
         /\ o.extensions[i] = 0 => Len(ExtensionBody(o, i)) >= 5
         /\ o.extensions[i] = 13 => SigAlgsOf(ExtensionBody(o, i)) = o.sigAlgs
         /\ o.extensions[i] = 16 => AlpnOf(ExtensionBody(o, i)) = o.protocols
         /\ o.extensions[i] = 43 => VersionsOf(ExtensionBody(o, i)) = o.versions
<1>1. PICK type : type = o.extensions[i]
  OBVIOUS
<1>2. PICK body : body = ExtensionBody(o, i)
  OBVIOUS
<1>3. body =
        IF type = 0 THEN Vector16(<<0>> \o Vector16(o.host))
        ELSE IF type = 13 THEN Vector16(TwoEach(o.sigAlgs))
        ELSE IF type = 16 THEN Vector16(Protocols(o))
        ELSE IF type = 43 THEN Vector8(TwoEach(o.versions))
        ELSE o.others[i]
  BY <1>1, <1>2 DEF ExtensionBody
<1>4. PICK max \in Nat : /\ \A n \in Nat : n <= max => n \in UInt16
                         /\ Len(body) \in Nat /\ Len(body) <= max
  <2>1. o.extensions # <<>>
    OBVIOUS
  <2>2. Len(Extensions(o)) \in UInt16
    BY <2>1, Fits
  <2>3. PICK max \in Nat : max = Len(Extensions(o))
    BY <2>2, NumbersAreNat
  <2>4. \A n \in Nat : n <= max => n \in UInt16
    BY <2>2, <2>3, UInt16Is, SMT
  <2>5. Len(body) \in Nat /\ Len(body) <= max
    BY <1>2, <2>3, BodyLength, ExtensionsLength
  <2> QED
    BY <2>4, <2>5
<1>5. Len(body) \in UInt16
  BY <1>4
<1>6. o.host \in Seq(Byte) /\ o.sigAlgs \in Seq(UInt16) /\ o.versions \in Seq(UInt16)
  BY OfferTyped
<1>7. <<>> \in Seq(Byte)
  BY EmptySeq
<1>8. CASE type = 0
  <2>1. Len(body) = 5 + Len(o.host) /\ Len(o.host) \in Nat
    BY <1>1, <1>2, <1>6, <1>8, BodyLength, LenProperties
  <2>2. Len(o.host) \in UInt16
    BY <1>4, <2>1
  <2>3. PICK h \in Seq(Byte) : h = Vector16(o.host) /\ Len(h) = 2 + Len(o.host)
    <3>1. PICK host \in Seq(Byte) : host = o.host
      BY <1>6
    <3>2. Vector16(host) \in Seq(Byte) /\ Len(Vector16(host)) = 2 + Len(host)
      BY <2>2, <3>1, Vector16Alone
    <3> QED
      BY <3>1, <3>2
  <2>4. 0 \in Byte
    BY ByteIs
  <2>5. <<0>> \in Seq(Byte) /\ Len(<<0>>) = 1
    BY <2>4
  <2>6. PICK b \in Seq(Byte) : b = <<0>> \o Vector16(o.host) /\ Len(b) = 3 + Len(o.host)
    <3>1. <<0>> \o h \in Seq(Byte) /\ Len(<<0>> \o h) = Len(<<0>>) + Len(h)
      BY <2>5, ConcatProperties
    <3>2. Len(<<0>> \o h) = 3 + Len(o.host)
      BY <2>1, <2>3, <2>5, <3>1
    <3> QED
      BY <2>3, <3>1, <3>2
  <2>7. body = Vector16(b)
    BY <1>3, <1>8, <2>6
  <2>8. Len(b) \in UInt16
    BY <1>4, <2>1, <2>6
  <2>9. body \in Seq(Byte)
    BY <2>7, <2>8, Vector16Alone
  <2>10. Len(body) >= 5
    BY <2>1
  <2> QED
    BY <1>1, <1>2, <1>5, <1>8, <2>9, <2>10
<1>9. CASE type = 13
  <2>1. Len(body) = 2 + Len(TwoEach(o.sigAlgs)) /\ Len(TwoEach(o.sigAlgs)) \in Nat
    BY <1>1, <1>2, <1>6, <1>9, BodyLength, TwoEachLength
  <2>2. PICK values \in Seq(UInt16) : values = o.sigAlgs
    BY <1>6
  <2>3. PICK b \in Seq(Byte) : b = TwoEach(values) /\ b = TwoEach(o.sigAlgs)
    BY <2>2, TwoEachLength
  <2>4. Len(b) \in UInt16
    BY <1>4, <2>1, <2>3
  <2>5. body = Vector16(b)
    BY <1>3, <1>9, <2>3
  <2>6. /\ body \in Seq(Byte) /\ Len(body) = 2 + Len(b) /\ Len(b) \in Nat
        /\ Word(body, 1) = Len(b) /\ From(body, 3) = b
    BY <2>4, <2>5, Vector16Alone
  <2>7. Pairs(b, Len(b)) = values
    BY <2>3, PairsOfTwoEach
  <2>8. ~(Len(body) < 2)
    BY <2>6
  <2>9. SigAlgsOf(body) = values
    BY <2>6, <2>7, <2>8 DEF SigAlgsOf
  <2> QED
    BY <1>1, <1>2, <1>5, <1>9, <2>2, <2>6, <2>9
<1>10. CASE type = 16
  <2>1. Len(body) = 2 + Len(Protocols(o)) /\ ProtocolList(Protocols(o)) = o.protocols
    BY <1>1, <1>2, <1>10, BodyLength, ProtocolsOf
  <2>2. PICK b \in Seq(Byte) : b = Protocols(o) /\ Len(b) \in Nat
    BY ProtocolsOf, LenProperties
  <2>3. Len(b) \in UInt16
    BY <1>4, <2>1, <2>2
  <2>4. body = Vector16(b)
    BY <1>3, <1>10, <2>2
  <2>5. /\ body \in Seq(Byte) /\ Len(body) = 2 + Len(b)
        /\ Word(body, 1) = Len(b) /\ From(body, 3) = b
    BY <2>3, <2>4, Vector16Alone
  <2>6. ~(Len(body) < 2) /\ AtMost(2 + Len(b), Len(body)) = Len(body)
    BY <2>2, <2>5 DEF AtMost
  <2>7. SubSeq(body, 3, Len(body)) = b
    BY <2>5 DEF From
  <2>8. AlpnOf(body) = ProtocolList(b)
    BY <2>5, <2>6, <2>7 DEF AlpnOf
  <2> QED
    BY <1>1, <1>2, <1>5, <1>10, <2>1, <2>2, <2>5, <2>8
<1>11. CASE type = 43
  <2>1. PICK values \in Seq(UInt16) : values = o.versions /\ Len(TwoEach(values)) \in Byte
    BY OfferTyped
  <2>2. PICK b \in Seq(Byte) : b = TwoEach(values) /\ Len(b) \in Byte
    BY <2>1, TwoEachLength
  <2>3. body = Vector8(b)
    BY <1>3, <1>11, <2>1, <2>2
  <2>4. /\ body \in Seq(Byte) /\ Len(body) = 1 + Len(b) /\ Len(b) \in Nat
        /\ body[1] = Len(b) /\ From(body, 2) = b
    BY <2>2, <2>3, Vector8Alone
  <2>5. Pairs(b, Len(b)) = values
    BY <2>2, PairsOfTwoEach
  <2>6. ~(Len(body) < 1)
    BY <2>4
  <2>7. VersionsOf(body) = values
    BY <2>4, <2>5, <2>6 DEF VersionsOf
  <2> QED
    BY <1>1, <1>2, <1>5, <1>11, <2>1, <2>4, <2>7
<1>12. CASE type \notin {0, 13, 16, 43}
  <2>1. body = o.others[i]
    BY <1>3, <1>12
  <2>2. body \in Seq(Byte)
    BY <2>1, OfferTyped
  <2> QED
    BY <1>1, <1>2, <1>5, <1>12, <2>2
<1> QED
  BY <1>8, <1>9, <1>10, <1>11, <1>12

------------------------------------------------------------------------------
(* The extensions of an offer. *)

\* A number, and what follows it.
LEMMA TwoFollowed ==
  ASSUME NEW t \in UInt16, NEW w \in Seq(Byte)
  PROVE  \A v : Joins(v, Two(t), w) =>
           /\ v \in Seq(Byte) /\ Len(v) = 2 + Len(w) /\ Len(w) \in Nat
           /\ Word(v, 1) = t /\ From(v, 3) = w
<1>1. PICK a \in Seq(Byte) : a = Two(t) /\ Len(a) = 2 /\ a[1] * 256 + a[2] = t
  BY TwoIs
<1>2. PICK e \in Seq(Byte) : e = <<>> /\ Len(e) = 0
  BY EmptySeq
<1>3. PICK v : v = a \o (w \o e)
  OBVIOUS
<1>4. v = Two(t) \o w
  BY <1>1, <1>2, <1>3, ConcatEmptySeq
<1>5. /\ v \in Seq(Byte) /\ Len(v) = Len(a) + Len(w) + Len(e)
      /\ SubSeq(v, Len(a) + 1, Len(a) + Len(w)) = w
      /\ \A i \in 1 .. Len(a) : v[i] = a[i]
  BY <1>3, JoinedParts, SMTT(40)
<1>6. Len(w) \in Nat
  BY LenProperties
<1>7. Len(v) = 2 + Len(w)
  BY <1>1, <1>2, <1>5, <1>6
<1>8. From(v, 3) = w
  <2>1. Len(a) + 1 = 3 /\ Len(a) + Len(w) = Len(v)
    BY <1>1, <1>6, <1>7
  <2> QED
    BY <1>5, <2>1 DEF From
<1>9. Word(v, 1) = t
  <2>1. v[1] = a[1] /\ v[2] = a[2]
    BY <1>1, <1>5
  <2> QED
    BY <1>1, <2>1 DEF Word
<1> QED
  BY <1>4, <1>5, <1>6, <1>7, <1>8, <1>9 DEF Joins

Follows(w, body, r) ==
  Len(w) = 2 + Len(body) + Len(r) /\ Has16(w) /\ Value16(w) = body /\ After16(w) = r

\* An extension, and what follows it.
LEMMA ExtensionReads ==
  ASSUME NEW t \in UInt16, NEW body \in Seq(Byte), Len(body) \in UInt16, NEW r \in Seq(Byte),
         NEW x, Joins(x, Two(t) \o Vector16(body), r)
  PROVE  \E w \in Seq(Byte) : Joins(x, Two(t), w) /\ Follows(w, body, r)
<1>1. PICK a \in Seq(Byte), b \in Seq(Byte) : a = Two(t) /\ b = Vector16(body)
  BY TwoIs, Vector16Alone
<1>2. PICK w : w = Vector16(body) \o r /\ Joins(w, Vector16(body), r)
  BY DEF Joins
<1>3. w \in Seq(Byte) /\ Follows(w, body, r)
  <2>1. Joins(w, Vector16(body), r)
    BY <1>2
  <2> QED
    BY <2>1, Vector16Reads DEF Follows
<1>4. Joins(x, Two(t), w)
  <2>1. a \o (b \o r) = (a \o b) \o r
    BY ConcatAssociative, SMTT(40)
  <2> QED
    BY <1>1, <1>2, <2>1, Zenon DEF Joins
<1> QED
  BY <1>3, <1>4

Among(o, type, n) == \E i \in 1 .. n : o.extensions[i] = type

\* What the parser has taken from the first n extensions.
FieldsOf(o, n) ==
  [version           |-> o.version,
   cipherSuites      |-> o.ciphers,
   extensions        |-> SubSeq(o.extensions, 1, n),
   hasSNI            |-> Among(o, 0, n),
   sigAlgs           |-> IF Among(o, 13, n) THEN o.sigAlgs ELSE <<>>,
   alpnProtocols     |-> IF Among(o, 16, n) THEN o.protocols ELSE <<>>,
   supportedVersions |-> IF Among(o, 43, n) THEN o.versions ELSE <<>>]

\* An extension is offered once.
LEMMA AmongOne ==
  ASSUME NEW o, IsOffer(o), NEW n \in 1 .. Len(o.extensions), NEW type
  PROVE  /\ Among(o, type, n) <=> Among(o, type, n - 1) \/ o.extensions[n] = type
         /\ o.extensions[n] = type => ~Among(o, type, n - 1)
<1>1. PICK K \in Nat : K = Len(o.extensions)
  BY OfferTyped, LenProperties
<1>2. \A i, k \in 1 .. K : o.extensions[i] = o.extensions[k] => i = k
  BY <1>1, OfferTyped
<1>3. Among(o, type, n) <=> Among(o, type, n - 1) \/ o.extensions[n] = type
  <2>1. \A i \in 1 .. n : i \in 1 .. n - 1 \/ i = n
    OBVIOUS
  <2>2. n \in 1 .. n /\ \A i \in 1 .. n - 1 : i \in 1 .. n
    OBVIOUS
  <2> QED
    BY <2>1, <2>2 DEF Among
<1>4. ASSUME o.extensions[n] = type, Among(o, type, n - 1) PROVE FALSE
  <2>1. PICK i \in 1 .. n - 1 : o.extensions[i] = type
    BY <1>4 DEF Among
  <2>2. i \in 1 .. K /\ n \in 1 .. K /\ i # n
    BY <1>1
  <2> QED
    BY <1>2, <1>4, <2>1, <2>2
<1> QED
  BY <1>3, <1>4

\* One more extension.
LEMMA OneMore ==
  ASSUME NEW o, IsOffer(o), NEW n \in 1 .. Len(o.extensions)
  PROVE  WithExtension(FieldsOf(o, n - 1), o.extensions[n], ExtensionBody(o, n)) = FieldsOf(o, n)
<1>1. PICK type : type = o.extensions[n]
  OBVIOUS
<1>2. PICK body : body = ExtensionBody(o, n)
  OBVIOUS
<1>3. SubSeq(o.extensions, 1, n) = Append(SubSeq(o.extensions, 1, n - 1), type)
  BY <1>1, OfferTyped, PrefixExtends
<1>4. /\ type = 0 => Len(body) >= 5
      /\ type = 13 => SigAlgsOf(body) = o.sigAlgs
      /\ type = 16 => AlpnOf(body) = o.protocols
      /\ type = 43 => VersionsOf(body) = o.versions
  BY <1>1, <1>2, BodyRead
<1>5. \A t : /\ Among(o, t, n) <=> Among(o, t, n - 1) \/ type = t
             /\ type = t => ~Among(o, t, n - 1)
  BY <1>1, AmongOne
<1> DEFINE Now(t, v) == IF Among(o, t, n - 1) THEN v ELSE <<>>
           Then(t, v) == IF Among(o, t, n) THEN v ELSE <<>>
<1>6. Among(o, 0, n) = (Among(o, 0, n - 1) \/ (type = 0 /\ Len(body) >= 5))
  BY <1>4, <1>5 DEF Among
<1>7. Then(13, o.sigAlgs) = Now(13, o.sigAlgs) \o (IF type = 13 THEN SigAlgsOf(body) ELSE <<>>)
  <2>1. CASE type = 13
    BY <1>4, <1>5, <2>1, OfferTyped, ConcatEmptySeq, EmptySeq
  <2>2. CASE type # 13
    BY <1>5, <2>2, OfferTyped, ConcatEmptySeq, EmptySeq
  <2> QED
    BY <2>1, <2>2
<1>8. Then(16, o.protocols) = Now(16, o.protocols) \o (IF type = 16 THEN AlpnOf(body) ELSE <<>>)
  <2>1. CASE type = 16
    BY <1>4, <1>5, <2>1, OfferTyped, ConcatEmptySeq, EmptySeq, SMTT(40)
  <2>2. CASE type # 16
    BY <1>5, <2>2, OfferTyped, ConcatEmptySeq, EmptySeq
  <2> QED
    BY <2>1, <2>2
<1>9. Then(43, o.versions) = Now(43, o.versions) \o (IF type = 43 THEN VersionsOf(body) ELSE <<>>)
  <2>1. CASE type = 43
    BY <1>4, <1>5, <2>1, OfferTyped, ConcatEmptySeq, EmptySeq
  <2>2. CASE type # 43
    BY <1>5, <2>2, OfferTyped, ConcatEmptySeq, EmptySeq
  <2> QED
    BY <2>1, <2>2
<1>10. PICK f : f = FieldsOf(o, n - 1)
  OBVIOUS
<1>11. f = [version |-> o.version, cipherSuites |-> o.ciphers,
            extensions |-> SubSeq(o.extensions, 1, n - 1), hasSNI |-> Among(o, 0, n - 1),
            sigAlgs |-> Now(13, o.sigAlgs), alpnProtocols |-> Now(16, o.protocols),
            supportedVersions |-> Now(43, o.versions)]
  BY <1>10 DEF FieldsOf
<1>12. FieldsOf(o, n) =
         [version |-> o.version, cipherSuites |-> o.ciphers,
          extensions |-> SubSeq(o.extensions, 1, n), hasSNI |-> Among(o, 0, n),
          sigAlgs |-> Then(13, o.sigAlgs), alpnProtocols |-> Then(16, o.protocols),
          supportedVersions |-> Then(43, o.versions)]
  BY DEF FieldsOf
<1> HIDE DEF Now, Then
<1>13. WithExtension(f, type, body) =
         [version |-> f.version, cipherSuites |-> f.cipherSuites,
          extensions |-> Append(f.extensions, type),
          hasSNI |-> f.hasSNI \/ (type = 0 /\ Len(body) >= 5),
          sigAlgs |-> f.sigAlgs \o (IF type = 13 THEN SigAlgsOf(body) ELSE <<>>),
          alpnProtocols |-> f.alpnProtocols \o (IF type = 16 THEN AlpnOf(body) ELSE <<>>),
          supportedVersions |-> f.supportedVersions \o (IF type = 43 THEN VersionsOf(body) ELSE <<>>)]
  BY Zenon DEF WithExtension
<1>14. /\ f.version = o.version /\ f.cipherSuites = o.ciphers
       /\ f.extensions = SubSeq(o.extensions, 1, n - 1) /\ f.hasSNI = Among(o, 0, n - 1)
       /\ f.sigAlgs = Now(13, o.sigAlgs) /\ f.alpnProtocols = Now(16, o.protocols)
       /\ f.supportedVersions = Now(43, o.versions)
  BY <1>11
<1> QED
  BY <1>1, <1>2, <1>3, <1>6, <1>7, <1>8, <1>9, <1>10, <1>12, <1>13, <1>14, ZenonT(60)

\* The loop of parseClientHello over the extensions takes what was offered in each.
LEMMA ExtensionsRead ==
  ASSUME NEW o, IsOffer(o), o.extensions # <<>>, FieldsOf(o, 0) \in ParsedFields
  PROVE  /\ Extensions(o) \in Seq(Byte)
         /\ WithExtensions(FieldsOf(o, 0), Extensions(o)) = FieldsOf(o, Len(o.extensions))
<1>1. PICK K \in Nat : K = Len(o.extensions)
  BY OfferTyped, LenProperties
<1>2. \A n \in 1 .. K : /\ o.extensions[n] \in UInt16
                        /\ ExtensionBody(o, n) \in Seq(Byte) /\ Len(ExtensionBody(o, n)) \in UInt16
  BY <1>1, OfferTyped, ElementOfSeq, BodyRead
<1>3. \A n \in 1 .. K : Extension(o, n) \in Seq(Byte) /\ 4 <= Len(Extension(o, n))
  <2> SUFFICES ASSUME NEW n \in 1 .. K
               PROVE  Extension(o, n) \in Seq(Byte) /\ 4 <= Len(Extension(o, n))
    OBVIOUS
  <2>1. PICK t \in UInt16 : t = o.extensions[n]
    BY <1>2
  <2>2. PICK body \in Seq(Byte) : body = ExtensionBody(o, n) /\ Len(body) \in UInt16
    BY <1>2
  <2>3. PICK e \in Seq(Byte) : e = <<>>
    BY EmptySeq
  <2>4. Extension(o, n) \in Seq(Nat)
    BY <1>1, ExtensionLength
  <2>5. Extension(o, n) = Two(t) \o Vector16(body)
    BY <2>1, <2>2 DEF Extension
  <2>6. Joins(Extension(o, n), Two(t) \o Vector16(body), e)
    BY <2>3, <2>4, <2>5, ConcatEmptySeq DEF Joins
  <2>7. PICK w \in Seq(Byte) : Joins(Extension(o, n), Two(t), w) /\ Follows(w, body, e)
    BY <2>2, <2>6, ExtensionReads
  <2>8. Extension(o, n) \in Seq(Byte) /\ Len(Extension(o, n)) = 2 + Len(w)
    BY <2>7, TwoFollowed
  <2>9. Len(body) \in Nat /\ Len(e) \in Nat
    BY LenProperties
  <2> QED
    BY <2>7, <2>8, <2>9 DEF Follows
<1>4. PICK parts : parts = [n \in 1 .. K |-> Extension(o, n)]
  OBVIOUS
<1>5. parts \in Seq(Seq(Byte)) /\ Len(parts) = K /\ \A n \in 1 .. K : parts[n] = Extension(o, n)
  <2>1. parts \in Seq(Seq(Byte))
    BY <1>3, <1>4, IsASeq
  <2> QED
    BY <1>4, <2>1
<1>6. PICK rest \in [0 .. K -> Seq(Byte)] : Rests(rest, parts)
  BY <1>5, ChainRests
<1>7. PICK b \in Seq(Byte) : b = Extensions(o) /\ b = rest[0]
  <2>1. 0 \in 0 .. K
    OBVIOUS
  <2>2. rest[0] \in Seq(Byte) /\ rest[0] = Chain(parts)
    BY <1>6, <2>1 DEF Rests
  <2>3. Extensions(o) = Chain(parts)
    BY <1>1, <1>4 DEF Extensions
  <2> QED
    BY <2>2, <2>3
<1>8. PICK N \in Nat : N = Len(b) \div 4 /\ K <= N
  <2>1. 4 * Len(parts) <= Len(rest[0])
    <3>1. \A k \in 1 .. Len(parts) : 4 <= Len(parts[k])
      BY <1>3, <1>5
    <3>2. rest \in [0 .. Len(parts) -> Seq(Byte)]
      BY <1>5
    <3> QED
      BY <1>5, <1>6, <3>1, <3>2, RestsShorten
  <2>2. Len(b) \in Nat
    BY LenProperties
  <2>3. 4 * K <= Len(b)
    BY <1>5, <1>7, <2>1
  <2>4. Len(b) \div 4 \in Nat /\ K <= Len(b) \div 4
    BY <2>2, <2>3
  <2> QED
    BY <2>4
<1>9. PICK f0 \in ParsedFields : f0 = FieldsOf(o, 0)
  OBVIOUS
<1>10. PICK f \in [0 .. N -> ParsedExtensions] :
         ReadsExtensions(f, f0, b) /\ WithExtensions(f0, b) = f[N].fields
  BY <1>8, ExtensionLoop
<1> DEFINE State(n) == [rest |-> rest[n], fields |-> FieldsOf(o, n)]
           T == {n \in 0 .. K : f[n] = State(n)}
<1>11. 0 \in T
  <2>1. f[0] = [rest |-> b, fields |-> f0]
    BY <1>10 DEF ReadsExtensions
  <2>2. f[0] = State(0)
    BY <1>7, <1>9, <2>1
  <2> HIDE DEF State
  <2> QED
    BY <2>2
<1>12. ASSUME NEW n \in 1 .. K, n - 1 \in T PROVE n \in T
  <2>1. n \in 1 .. N /\ n \in 1 .. Len(o.extensions) /\ n \in 0 .. K
    BY <1>1, <1>8
  <2>2. f[n] = NextExtension(f[n - 1])
    BY <1>8, <1>10, <2>1 DEF ReadsExtensions
  <2>3. PICK v : v = rest[n - 1]
    OBVIOUS
  <2>4. PICK t \in UInt16 : t = o.extensions[n]
    BY <1>2
  <2>5. PICK body \in Seq(Byte) : body = ExtensionBody(o, n) /\ Len(body) \in UInt16
    BY <1>2
  <2>6. PICK after \in Seq(Byte) : after = rest[n]
    BY <2>1
  <2>7. Joins(v, Two(t) \o Vector16(body), after)
    <3>1. v = Extension(o, n) \o after
      BY <1>5, <1>6, <2>3, <2>6 DEF Rests
    <3> QED
      BY <2>4, <2>5, <3>1 DEF Extension, Joins
  <2>8. PICK value \in Seq(Byte) : Joins(v, Two(t), value) /\ Follows(value, body, after)
    BY <2>5, <2>7, ExtensionReads
  <2>9. ~(Len(v) < 4) /\ Word(v, 1) = t /\ From(v, 3) = value
    <3>1. Len(v) = 2 + Len(value) /\ Word(v, 1) = t /\ From(v, 3) = value
      BY <2>8, TwoFollowed
    <3>2. Len(body) \in Nat /\ Len(after) \in Nat
      BY LenProperties
    <3> QED
      BY <2>8, <3>1, <3>2 DEF Follows
  <2>10. PICK s : s = f[n - 1]
    OBVIOUS
  <2>11. s.rest = v /\ s.fields = FieldsOf(o, n - 1)
    BY <1>12, <2>3, <2>10
  <2>12. NextExtension(s) = [rest |-> after, fields |-> WithExtension(s.fields, t, body)]
    BY <2>8, <2>9, <2>11 DEF NextExtension, Follows
  <2>13. WithExtension(s.fields, t, body) = FieldsOf(o, n)
    BY <2>1, <2>4, <2>5, <2>11, OneMore
  <2>14. f[n] = State(n)
    BY <2>2, <2>6, <2>10, <2>12, <2>13
  <2> HIDE DEF State
  <2> QED
    BY <2>1, <2>14
<1>13. f[K] = State(K)
  <2> HIDE DEF T
  <2>1. \A n \in 0 .. K : n \in T
    BY <1>11, <1>12, UpTo
  <2> QED
    BY <2>1 DEF T
<1>14. rest[K] = <<>>
  BY <1>5, <1>6 DEF Rests
<1>15. f[N].fields = FieldsOf(o, K)
  <2> DEFINE x == [rest |-> <<>>, fields |-> FieldsOf(o, K)]
  <2>1. NextExtension(x) = x
    <3>1. Len(<<>>) < 4
      BY EmptySeq
    <3> QED
      BY <3>1 DEF NextExtension
  <2>2. f[K] = x
    BY <1>13, <1>14
  <2>3. x.fields = FieldsOf(o, K)
    OBVIOUS
  <2> HIDE DEF x
  <2>4. \A n \in 1 .. N : f[n - 1] = x => f[n] = x
    BY <1>8, <1>10, <2>1 DEF ReadsExtensions
  <2>5. Arrives(f, K, N, x)
    BY <2>2, <2>4, Zenon DEF Arrives
  <2>6. f[N] = x
    BY <1>8, <2>5, Stays
  <2> QED
    BY <2>3, <2>6
<1> QED
  BY <1>1, <1>7, <1>9, <1>10, <1>15

------------------------------------------------------------------------------
(* The whole ClientHello of an offer. *)

\* Before the first extension.
LEMMA NothingTaken ==
  ASSUME NEW o, IsOffer(o)
  PROVE  FieldsOf(o, 0) \in ParsedFields
<1>1. \A type : Among(o, type, 0) = FALSE
  BY DEF Among
<1>2. SubSeq(o.extensions, 1, 0) = <<>>
  BY SubSeqEmpty
<1>3. /\ o.version \in UInt16 /\ o.ciphers \in Seq(UInt16)
      /\ <<>> \in Seq(UInt16) /\ <<>> \in Seq(Seq(Byte))
  BY OfferTyped, EmptySeq
<1>4. FALSE \in BOOLEAN
  OBVIOUS
<1>5. FieldsOf(o, 0) =
        [version |-> o.version, cipherSuites |-> o.ciphers, extensions |-> <<>>,
         hasSNI |-> FALSE, sigAlgs |-> <<>>, alpnProtocols |-> <<>>, supportedVersions |-> <<>>]
  BY <1>1, <1>2, Zenon DEF FieldsOf
<1>6. PICK v, c, x, e : v = o.version /\ c = o.ciphers /\ x = <<>> /\ e = <<>>
  OBVIOUS
<1>7. v \in UInt16 /\ c \in Seq(UInt16) /\ x \in Seq(UInt16) /\ e \in Seq(Seq(Byte))
  <2>1. <<>> \in Seq(UInt16) /\ <<>> \in Seq(Seq(Byte))
    BY EmptySeq
  <2> QED
    BY <1>3, <1>6, <2>1, Zenon
<1>8. FieldsOf(o, 0) =
        [version |-> v, cipherSuites |-> c, extensions |-> x,
         hasSNI |-> FALSE, sigAlgs |-> x, alpnProtocols |-> e, supportedVersions |-> x]
  BY <1>5, <1>6, Zenon
<1>9. [version |-> v, cipherSuites |-> c, extensions |-> x,
       hasSNI |-> FALSE, sigAlgs |-> x, alpnProtocols |-> e, supportedVersions |-> x]
        \in ParsedFields
  BY <1>4, <1>7, Zenon DEF ParsedFields
<1> QED
  BY <1>8, <1>9, Zenon

LEMMA ExtendedRead ==
  ASSUME NEW o, IsOffer(o), NEW e, e = Extended(o)
  PROVE  /\ e \in Seq(Byte)
         /\ o.extensions = <<>> => Len(e) < 2
         /\ o.extensions # <<>> => ~(Len(e) < 2) /\ Has16(e) /\ Value16(e) = Extensions(o)
<1>1. PICK n \in Seq(Byte) : n = <<>> /\ Len(n) = 0
  BY EmptySeq
<1>2. CASE o.extensions = <<>>
  <2>1. Extended(o) = n
    BY <1>1, <1>2 DEF Extended
  <2> QED
    BY <1>1, <1>2, <2>1
<1>3. CASE o.extensions # <<>>
  <2>1. PICK b \in Seq(Byte) : b = Extensions(o) /\ Len(b) \in UInt16
    BY <1>3, NothingTaken, ExtensionsRead, Fits
  <2>2. PICK v : v = Vector16(b) /\ v \in Seq(Byte)
    BY <2>1, Vector16Alone
  <2>3. Joins(v, Vector16(b), n)
    BY <1>1, <2>2, ConcatEmptySeq DEF Joins
  <2>4. Len(v) = 2 + Len(b) + Len(n) /\ Has16(v) /\ Value16(v) = b
    BY <2>1, <2>3, Vector16Reads
  <2>5. ~(Len(v) < 2)
    BY <1>1, <2>4, LenProperties
  <2>6. Extended(o) = v
    BY <1>3, <2>1, <2>2 DEF Extended
  <2> QED
    BY <1>3, <2>1, <2>2, <2>4, <2>5, <2>6
<1> QED
  BY <1>2, <1>3

\* parseClientHello finds each part where the client put it.
LEMMA HelloBodyRead ==
  ASSUME NEW o, IsOffer(o), NEW d, d = HelloBody(o)
  PROVE  /\ d \in Seq(Byte) /\ Len(d) >= 34 /\ Word(d, 1) = o.version
         /\ Has8(SessionPart(d))
         /\ Has16(CipherPart(d)) /\ Word(CipherPart(d), 1) % 2 = 0
         /\ Words(Value16(CipherPart(d))) = o.ciphers
         /\ Has8(CompressionPart(d))
         /\ ExtensionPart(d) = Extended(o)
<1>1. PICK v \in Seq(Byte) :
        v = Two(o.version) /\ Len(v) = 2 /\ v[1] * 256 + v[2] = o.version
  BY OfferTyped, TwoIs
<1>2. PICK r \in Seq(Byte) : r = o.random /\ Len(r) = 32
  BY OfferTyped
<1>3. PICK s \in Seq(Byte) : s = o.session /\ Len(s) \in Byte
  BY OfferTyped
<1>4. PICK values \in Seq(UInt16) : values = o.ciphers
  BY OfferTyped
<1>5. PICK c \in Seq(Byte) : /\ c = TwoEach(values) /\ Len(c) = 2 * Len(values)
                             /\ Words(c) = values /\ Len(c) \in UInt16
  BY <1>4, TwoEachReads, Fits
<1>6. PICK m \in Seq(Byte) : m = <<0>> /\ Len(m) \in Byte
  <2>1. 0 \in Byte /\ 1 \in Byte
    BY ByteIs
  <2> QED
    BY <2>1, ByteOne
<1>7. PICK e \in Seq(Byte) : e = Extended(o)
  BY ExtendedRead
<1>8. PICK x5 : Joins(x5, Vector8(m), e)
  BY DEF Joins
<1>9. x5 \in Seq(Byte) /\ Has8(x5) /\ After8(x5) = e
  BY <1>6, <1>8, Vector8Reads
<1>10. PICK x4 : Joins(x4, Vector16(c), x5)
  BY DEF Joins
<1>11. x4 \in Seq(Byte) /\ Has16(x4) /\ Word(x4, 1) = Len(c) /\ Value16(x4) = c /\ After16(x4) = x5
  BY <1>5, <1>9, <1>10, Vector16Reads
<1>12. PICK x3 : Joins(x3, Vector8(s), x4)
  BY DEF Joins
<1>13. x3 \in Seq(Byte) /\ Has8(x3) /\ After8(x3) = x4
  BY <1>3, <1>11, <1>12, Vector8Reads
<1>14. PICK x : x = v \o (r \o x3)
  OBVIOUS
<1>15. /\ x \in Seq(Byte) /\ Len(x) = Len(v) + Len(r) + Len(x3)
       /\ From(x, Len(v) + Len(r) + 1) = x3
       /\ \A i \in 1 .. Len(v) : x[i] = v[i]
  BY <1>13, <1>14, JoinedParts
<1>16. Len(x) >= 34 /\ SessionPart(x) = x3
  <2>1. Len(x3) \in Nat
    BY <1>13, LenProperties
  <2>2. Len(v) + Len(r) + 1 = 35
    BY <1>1, <1>2
  <2> QED
    BY <1>1, <1>2, <1>15, <2>1, <2>2 DEF SessionPart
<1>17. Word(x, 1) = o.version
  <2>1. x[1] = v[1] /\ x[2] = v[2]
    BY <1>1, <1>15
  <2> QED
    BY <1>1, <2>1 DEF Word
<1>18. CipherPart(x) = x4 /\ CompressionPart(x) = x5 /\ ExtensionPart(x) = e
  BY <1>9, <1>11, <1>13, <1>16 DEF CipherPart, CompressionPart, ExtensionPart
<1>19. Word(x4, 1) % 2 = 0
  <2>1. Len(values) \in Nat
    BY LenProperties
  <2> QED
    BY <1>5, <1>11, <2>1
<1>20. HelloBody(o) = x
  BY <1>1, <1>2, <1>3, <1>4, <1>5, <1>6, <1>7, <1>8, <1>10, <1>12, <1>14, Zenon DEF HelloBody, Joins
<1> QED
  BY <1>4, <1>5, <1>7, <1>9, <1>11, <1>13, <1>15, <1>16, <1>17, <1>18, <1>19, <1>20

\* The header of the handshake message.
LEMMA HelloIs ==
  ASSUME NEW o, IsOffer(o), NEW data, data = Hello(o)
  PROVE  /\ data \in Seq(Byte) /\ Len(data) >= 4 /\ data[1] = 1
         /\ Len(data) - 4 >= HelloLength(data)
         /\ Body(data) = HelloBody(o)
<1>1. PICK d \in Seq(Byte) : d = HelloBody(o) /\ Len(d) \in UInt16 /\ Len(d) \in Nat
  BY HelloBodyRead, Fits, LenProperties
<1>2. PICK a \in Seq(Byte) : a = <<1, 0>> /\ Len(a) = 2 /\ a[1] = 1 /\ a[2] = 0
  <2>1. PICK y \in Byte, z \in Byte : y = 1 /\ z = 0
    BY ByteIs
  <2>2. <<y, z>> \in Seq(Byte) /\ Len(<<y, z>>) = 2 /\ <<y, z>>[1] = y /\ <<y, z>>[2] = z
    OBVIOUS
  <2> QED
    BY <2>1, <2>2
<1>3. PICK b \in Seq(Byte) : b = Two(Len(d)) /\ Len(b) = 2 /\ b[1] * 256 + b[2] = Len(d)
  BY <1>1, TwoIs
<1>4. PICK x : x = a \o (b \o d)
  OBVIOUS
<1>5. /\ x \in Seq(Byte) /\ Len(x) = Len(a) + Len(b) + Len(d)
      /\ SubSeq(x, Len(a) + 1, Len(a) + Len(b)) = b
      /\ From(x, Len(a) + Len(b) + 1) = d
      /\ \A i \in 1 .. Len(a) : x[i] = a[i]
  BY <1>4, JoinedParts
<1>6. Len(x) = 4 + Len(d) /\ x[1] = 1 /\ x[2] = 0
  BY <1>1, <1>2, <1>3, <1>5
<1>7. x[3] = b[1] /\ x[4] = b[2]
  <2>1. SubSeq(x, 3, 4) = b
    BY <1>2, <1>3, <1>5
  <2>2. \A i \in 3 .. 4 : x[i] \in Byte
    BY <1>1, <1>5, <1>6, ElementOfSeq
  <2>3. \A i \in 1 .. 4 - 3 + 1 : SubSeq(x, 3, 4)[i] = x[3 + i - 1]
    BY <2>2, SubSeqProperties
  <2> QED
    BY <2>1, <2>3
<1>8. Word(x, 3) = Len(d)
  BY <1>3, <1>7 DEF Word
<1>9. HelloLength(x) = Len(d)
  BY <1>1, <1>6, <1>8, SMT DEF HelloLength
<1>10. Body(x) = d
  <2>1. Len(a) + Len(b) + 1 = 5 /\ 4 + Len(d) = Len(x)
    BY <1>2, <1>3, <1>6
  <2> QED
    BY <1>5, <1>9, <2>1 DEF Body, From
<1>11. Hello(o) = x
  <2>1. Vector16(d) = b \o d
    BY <1>3 DEF Vector16
  <2> QED
    BY <1>1, <1>2, <1>4, <2>1 DEF Hello
<1>12. Len(x) >= 4 /\ Len(x) - 4 >= HelloLength(x)
  BY <1>1, <1>6, <1>9
<1> QED
  BY <1>1, <1>5, <1>6, <1>10, <1>11, <1>12

\* parseClientHello (ja4.go:55-200) takes from the ClientHello of an offer what is offered.
LEMMA HelloRead ==
  ASSUME NEW o, IsOffer(o)
  PROVE  /\ Hello(o) \in Seq(Byte) /\ Parses(Hello(o))
         /\ Fields(Hello(o)) = FieldsOf(o, Len(o.extensions))
<1>1. PICK data \in Seq(Byte) : data = Hello(o)
  BY HelloIs
<1>2. PICK d \in Seq(Byte) : d = HelloBody(o)
  BY HelloBodyRead
<1>3. PICK e \in Seq(Byte) : e = Extended(o)
  BY ExtendedRead
<1>4. /\ Len(data) >= 4 /\ data[1] = 1 /\ Len(data) - 4 >= HelloLength(data)
      /\ Body(data) = d
  BY <1>1, <1>2, HelloIs
<1>5. /\ Len(d) >= 34 /\ Word(d, 1) = o.version
      /\ Has8(SessionPart(d))
      /\ Has16(CipherPart(d)) /\ Word(CipherPart(d), 1) % 2 = 0
      /\ Words(Value16(CipherPart(d))) = o.ciphers
      /\ Has8(CompressionPart(d))
      /\ ExtensionPart(d) = e
  BY <1>2, <1>3, HelloBodyRead
<1>6. /\ o.extensions = <<>> => Len(e) < 2
      /\ o.extensions # <<>> => ~(Len(e) < 2) /\ Has16(e) /\ Value16(e) = Extensions(o)
  BY <1>3, ExtendedRead
<1>7. Parses(data)
  <2>1. Len(e) < 2 \/ Has16(e)
    BY <1>6
  <2> QED
    BY <1>4, <1>5, <2>1, Zenon DEF Parses
<1>8. FieldsOf(o, 0) =
        [version |-> o.version, cipherSuites |-> o.ciphers, extensions |-> <<>>,
         hasSNI |-> FALSE, sigAlgs |-> <<>>, alpnProtocols |-> <<>>, supportedVersions |-> <<>>]
  <2>1. \A type : Among(o, type, 0) = FALSE
    BY DEF Among
  <2>2. SubSeq(o.extensions, 1, 0) = <<>>
    BY SubSeqEmpty
  <2> QED
    BY <2>1, <2>2, Zenon DEF FieldsOf
<1>9. Fields(data) = IF Len(e) < 2 THEN FieldsOf(o, 0) ELSE WithExtensions(FieldsOf(o, 0), Value16(e))
  BY <1>4, <1>5, <1>8, Zenon DEF Fields
<1>10. CASE o.extensions = <<>>
  <2>1. Len(o.extensions) = 0
    BY <1>10, EmptySeq
  <2> QED
    BY <1>1, <1>6, <1>7, <1>9, <1>10, <2>1
<1>11. CASE o.extensions # <<>>
  <2>1. WithExtensions(FieldsOf(o, 0), Extensions(o)) = FieldsOf(o, Len(o.extensions))
    BY <1>11, NothingTaken, ExtensionsRead
  <2> QED
    BY <1>1, <1>6, <1>7, <1>9, <1>11, <2>1
<1> QED
  BY <1>10, <1>11

------------------------------------------------------------------------------
(* The JA4 of an offer. *)

\* The values of a list.
LEMMA RangeIs ==
  ASSUME NEW S, NEW values \in Seq(S)
  PROVE  /\ Range(values) \subseteq S
         /\ Range(values) = {values[i] : i \in 1 .. Len(values)}
<1>1. DOMAIN values = 1 .. Len(values) /\ \A i \in 1 .. Len(values) : values[i] \in S
  BY ElementOfSeq
<1> QED
  BY <1>1, Zenon DEF Range

\* After the last extension.
LEMMA FieldsOfAll ==
  ASSUME NEW o, IsOffer(o), NEW f, f = FieldsOf(o, Len(o.extensions))
  PROVE  /\ f.version = o.version /\ f.cipherSuites = o.ciphers /\ f.extensions = o.extensions
         /\ f.hasSNI = Offered(o, 0)
         /\ f.sigAlgs = IF Offered(o, 13) THEN o.sigAlgs ELSE <<>>
         /\ f.alpnProtocols = IF Offered(o, 16) THEN o.protocols ELSE <<>>
         /\ f.supportedVersions = IF Offered(o, 43) THEN o.versions ELSE <<>>
<1>1. \A type : Among(o, type, Len(o.extensions)) = Offered(o, type)
  <2> SUFFICES ASSUME NEW type PROVE Among(o, type, Len(o.extensions)) = Offered(o, type)
    OBVIOUS
  <2>1. PICK list : list = o.extensions
    OBVIOUS
  <2>2. list \in Seq(UInt16)
    BY <2>1, OfferTyped
  <2>3. Range(list) = {list[i] : i \in 1 .. Len(list)}
    BY <2>2, RangeIs
  <2>4. Among(o, type, Len(o.extensions)) <=> \E i \in 1 .. Len(list) : list[i] = type
    BY <2>1, Zenon DEF Among
  <2>5. Offered(o, type) <=> \E i \in 1 .. Len(list) : list[i] = type
    BY <2>1, <2>3, Zenon DEF Offered
  <2>6. CASE \E i \in 1 .. Len(list) : list[i] = type
    <3>1. Among(o, type, Len(o.extensions)) = TRUE
      BY <2>4, <2>6 DEF Among
    <3>2. Offered(o, type) = TRUE
      BY <2>5, <2>6 DEF Offered
    <3> QED
      BY <3>1, <3>2, Zenon
  <2>7. CASE ~ \E i \in 1 .. Len(list) : list[i] = type
    <3>1. Among(o, type, Len(o.extensions)) = FALSE
      BY <2>4, <2>7 DEF Among
    <3>2. Offered(o, type) = FALSE
      BY <2>5, <2>7 DEF Offered
    <3> QED
      BY <3>1, <3>2, Zenon
  <2> QED
    BY <2>6, <2>7
<1>2. SubSeq(o.extensions, 1, Len(o.extensions)) = o.extensions
  BY OfferTyped, SubSeqFull
<1>3. FieldsOf(o, Len(o.extensions)) =
        [version           |-> o.version,
         cipherSuites      |-> o.ciphers,
         extensions        |-> o.extensions,
         hasSNI            |-> Offered(o, 0),
         sigAlgs           |-> IF Offered(o, 13) THEN o.sigAlgs ELSE <<>>,
         alpnProtocols     |-> IF Offered(o, 16) THEN o.protocols ELSE <<>>,
         supportedVersions |-> IF Offered(o, 43) THEN o.versions ELSE <<>>]
  BY <1>1, <1>2, Zenon DEF FieldsOf
<1> HIDE DEF Offered
<1> QED
  BY <1>3

LEMMA RangeOfNone == Range(<<>>) = {}
  BY DEF Range

\* The latest of some versions.
LEMMA LatestIs ==
  ASSUME NEW first \in Int, NEW last \in Int, NEW V \in SUBSET (first .. last), V # {}
  PROVE  Max(V) \in V
<1> DEFINE T == {n \in Nat : \E v \in V : n = last - v}
<1>1. T # {}
  <2>1. PICK v \in V : TRUE
    BY Zenon
  <2>2. last - v \in Nat
    BY SMT
  <2> QED
    BY <2>2
<1>2. PICK n \in T : \A k \in T : ~(k < n)
  <2> HIDE DEF T
  <2>1. T \in SUBSET Nat
    BY DEF T
  <2> QED
    BY <1>1, <2>1, Least
<1>3. PICK v \in V : n = last - v
  BY <1>2
<1>4. \A y \in V : v >= y
  <2> SUFFICES ASSUME NEW y \in V PROVE v >= y
    OBVIOUS
  <2>1. last - y \in Nat
    BY SMT
  <2>2. last - y \in T
    BY <2>1
  <2>3. PICK k : k = last - y
    OBVIOUS
  <2>4. k \in T
    BY <2>2, <2>3, Zenon
  <2>5. ~(k < n)
    BY <1>2, <2>4, Zenon
  <2> HIDE DEF T
  <2>6. y \in Int /\ v \in Int
    BY SMT
  <2> QED
    BY <1>3, <2>3, <2>5, <2>6, SMT
<1> QED
  BY <1>4, ZenonT(40) DEF Max

IsFirst(first, protocols) == first = IF protocols = <<>> THEN <<>> ELSE protocols[1]

\* The two characters.
LEMMA AlpnStrIs ==
  ASSUME NEW protocols \in Seq(Seq(Byte)),
         NEW first, IsFirst(first, protocols)
  PROVE  /\ AlpnStr(protocols) = [n \in 1 .. 2 |-> IF n <= Len(first) THEN first[n] ELSE Zero]
         /\ AlpnStr(protocols) \in Seq(Byte) /\ Len(AlpnStr(protocols)) = 2
<1>1. PICK z \in Byte : z = Zero
  BY ByteIs DEF Zero
<1>2. PICK p \in Seq(Byte) : p = first
  <2>1. CASE protocols = <<>>
    BY <2>1, EmptySeq DEF IsFirst
  <2>2. CASE protocols # <<>>
    <3>1. 1 \in 1 .. Len(protocols)
      BY <2>2, EmptySeq, LenProperties
    <3> QED
      BY <2>2, <3>1, ElementOfSeq DEF IsFirst
  <2> QED
    BY <2>1, <2>2
<1>3. PICK two \in Seq(Byte) : two = <<Zero, Zero>> /\ Len(two) = 2 /\ two[1] = z /\ two[2] = z
  <2>1. <<z, z>> \in Seq(Byte) /\ Len(<<z, z>>) = 2 /\ <<z, z>>[1] = z /\ <<z, z>>[2] = z
    OBVIOUS
  <2> QED
    BY <1>1, <2>1
<1>4. PICK r : r = [n \in 1 .. 2 |-> IF n <= Len(p) THEN p[n] ELSE z]
  OBVIOUS
<1>5. \A n \in 1 .. 2 : (IF n <= Len(p) THEN p[n] ELSE z) \in Byte
  BY ElementOfSeq, LenProperties
<1>6. r \in Seq(Byte) /\ Len(r) = 2
  <2>1. r \in Seq(Byte)
    BY <1>4, <1>5, IsASeq
  <2> QED
    BY <1>4, <2>1
<1>7. PICK j \in Seq(Byte) : /\ j = p \o two /\ Len(j) = Len(p) + 2 /\ Len(p) \in Nat
                             /\ \A n \in 1 .. Len(p) + 2 : j[n] = IF n <= Len(p) THEN p[n] ELSE two[n - Len(p)]
  <2>1. PICK j : j = p \o two
    OBVIOUS
  <2>2. /\ j \in Seq(Byte) /\ Len(j) = Len(p) + Len(two)
        /\ \A n \in 1 .. Len(p) + Len(two) : j[n] = IF n <= Len(p) THEN p[n] ELSE two[n - Len(p)]
    BY <2>1, ConcatProperties
  <2>3. Len(p) \in Nat
    BY LenProperties
  <2> QED
    BY <1>3, <2>1, <2>2, <2>3
<1>8. PICK s : s = SubSeq(j, 1, 2)
  OBVIOUS
<1>9. s \in Seq(Byte) /\ Len(s) = 2 /\ \A n \in 1 .. 2 : s[n] = j[n]
  <2>1. 2 \in 0 .. Len(j)
    BY <1>7
  <2> QED
    BY <1>8, <2>1, PrefixTyped
<1>10. s = r
  <2>1. \A n \in 1 .. 2 : s[n] = r[n]
    <3> SUFFICES ASSUME NEW n \in 1 .. 2 PROVE s[n] = r[n]
      OBVIOUS
    <3>1. s[n] = IF n <= Len(p) THEN p[n] ELSE two[n - Len(p)]
      BY <1>7, <1>9
    <3>2. ~(n <= Len(p)) => two[n - Len(p)] = z
      <4> SUFFICES ASSUME ~(n <= Len(p)) PROVE two[n - Len(p)] = z
        OBVIOUS
      <4>1. n - Len(p) = 1 \/ n - Len(p) = 2
        BY <1>7
      <4> QED
        BY <1>3, <4>1
    <3> QED
      BY <1>4, <3>1, <3>2
  <2> QED
    BY <1>6, <1>9, <2>1, SeqEqual
<1>11. AlpnStr(protocols) = r
  <2>1. CASE protocols = <<>>
    <3>1. p = <<>> /\ Len(p) = 0
      BY <1>2, <2>1, EmptySeq DEF IsFirst
    <3>2. j = two
      BY <1>3, <1>7, <3>1, ConcatEmptySeq
    <3>3. s = two
      BY <1>3, <1>8, <3>2, SubSeqFull
    <3> QED
      BY <1>3, <1>10, <2>1, <3>3 DEF AlpnStr
  <2>2. CASE protocols # <<>>
    <3>1. p = protocols[1]
      BY <1>2, <2>2 DEF IsFirst
    <3> QED
      BY <1>3, <1>7, <1>8, <1>10, <2>2, <3>1 DEF AlpnStr
  <2> QED
    BY <2>1, <2>2
<1> QED
  BY <1>1, <1>2, <1>4, <1>6, <1>11

\* What is left without GREASE values.
LEMMA NotGREASEIs ==
  ASSUME NEW values \in Seq(UInt16), NEW list, list = NotGREASE(values)
  PROVE  /\ list \in Seq(UInt16)
         /\ Len(list) = NotOfGREASE(values)
         /\ \A v : Cardinality(At(list, v)) = IF v \in GREASE THEN 0 ELSE Cardinality(At(values, v))
         /\ Range(list) = Range(values) \ GREASE
<1>1. list = Without(values, GREASE)
  BY GreaseIs DEF NotGREASE
<1>2. Keeps(Without(values, GREASE), UInt16, values, GREASE)
  BY WithoutCounts
<1> QED
  BY <1>1, <1>2, Zenon DEF Keeps, NotOfGREASE

\* A sorted list of values, some of which are left out.
LEMMA SortedListOfIs ==
  ASSUME NEW values, NEW others, NEW kept \in Seq(UInt16),
         \A v : Cardinality(At(kept, v)) = IF v \in others THEN 0 ELSE Cardinality(At(values, v))
  PROVE  SortedListOf(Sorted(kept), values, others)
<1>1. PICK list : list = Sorted(kept)
  OBVIOUS
<1>2. /\ list \in Seq(UInt16) /\ Len(list) = Len(kept)
      /\ \A i \in 1 .. Len(kept) - 1 : list[i] <= list[i + 1]
      /\ \A v : Cardinality(At(list, v)) = Cardinality(At(kept, v))
  BY <1>1, SortedOrders, Zenon
<1>3. \A v : Cardinality(At(list, v)) = IF v \in others THEN 0 ELSE Cardinality(At(values, v))
  BY <1>2, Zenon
<1>4. \A i \in 1 .. Len(list) - 1 : list[i] <= list[i + 1]
  BY <1>2, Zenon
<1> QED
  BY <1>1, <1>3, <1>4, Zenon DEF SortedListOf, At

\* The version is the latest that is offered.
LEMMA VersionIs ==
  ASSUME NEW o, IsOffer(o), NEW versions, versions = IF Offered(o, 43) THEN o.versions ELSE <<>>
  PROVE  TlsVersionStr(Max({o.version} \cup Range(NotGREASE(versions)))) =
           Max({o.version} \cup IF Offered(o, 43) THEN Range(o.versions) \ GREASE ELSE {})
<1>1. versions \in Seq(UInt16)
  BY OfferTyped, EmptySeq
<1>2. Range(NotGREASE(versions)) = Range(versions) \ GREASE
  BY <1>1, NotGREASEIs
<1>3. PICK R : R = IF Offered(o, 43) THEN Range(o.versions) \ GREASE ELSE {}
  OBVIOUS
<1>4. Range(NotGREASE(versions)) = R
  <2>1. CASE Offered(o, 43)
    BY <1>2, <1>3, <2>1
  <2>2. CASE ~Offered(o, 43)
    BY <1>2, <1>3, <2>2, RangeOfNone
  <2> QED
    BY <2>1, <2>2
<1>5. R \subseteq 768 .. 772
  <2>1. PICK All : All = (768 .. 772) \cup GREASE
    OBVIOUS
  <2>2. o.versions \in Seq(All)
    BY <2>1, SMT DEF IsOffer
  <2>3. Range(o.versions) \subseteq All
    BY <2>2, RangeIs
  <2> QED
    BY <1>3, <2>1, <2>3, SMT
<1>6. PICK V : V = {o.version} \cup R
  OBVIOUS
<1>7. PICK first, last : first = 768 /\ last = 772
  OBVIOUS
<1>8. first \in Int /\ last \in Int
  BY <1>7, SMT
<1>9. PICK I : I = first .. last
  OBVIOUS
<1>10. I = 768 .. 772
  BY <1>7, <1>9, SMT
<1>11. Max(V) \in I
  <2>1. o.version \in 768 .. 772
    BY SMT DEF IsOffer
  <2>2. o.version \in I
    BY <1>10, <2>1, SMT
  <2>3. R \subseteq I
    BY <1>5, <1>10, SMT
  <2>4. V \in SUBSET I /\ V # {}
    BY <1>6, <2>2, <2>3, Zenon
  <2>5. Max(V) \in V
    BY <1>8, <1>9, <2>4, LatestIs, Zenon
  <2> QED
    BY <2>4, <2>5, Zenon
<1>12. TlsVersionStr(Max(V)) = Max(V)
  <2>1. \A v \in 768 .. 772 : TlsVersionStr(v) = v
    BY SMT DEF TlsVersionStr
  <2> QED
    BY <1>10, <1>11, <2>1, SMT
<1> QED
  BY <1>3, <1>4, <1>6, <1>12, Zenon

\* computeJA4 (ja4.go:207-287) makes of an offer's fields the JA4 of the offer.
LEMMA Ja4IsRight ==
  ASSUME NEW o, IsOffer(o)
  PROVE  Ja4Of(ComputeJA4(FieldsOf(o, Len(o.extensions))), o)
<1>1. PICK f : f = FieldsOf(o, Len(o.extensions))
  OBVIOUS
<1>2. /\ f.version = o.version /\ f.cipherSuites = o.ciphers /\ f.extensions = o.extensions
      /\ f.hasSNI = Offered(o, 0)
      /\ f.sigAlgs = IF Offered(o, 13) THEN o.sigAlgs ELSE <<>>
      /\ f.alpnProtocols = IF Offered(o, 16) THEN o.protocols ELSE <<>>
      /\ f.supportedVersions = IF Offered(o, 43) THEN o.versions ELSE <<>>
  BY <1>1, FieldsOfAll
<1>3. PICK ciphers : ciphers = NotGREASE(o.ciphers)
  OBVIOUS
<1>4. PICK exts : exts = NotGREASE(o.extensions)
  OBVIOUS
<1>5. PICK j : j = ComputeJA4(f)
  OBVIOUS
<1>6. j = [version |-> TlsVersionStr(Max({f.version} \cup Range(NotGREASE(f.supportedVersions)))),
           sni |-> f.hasSNI, ciphers |-> Len(ciphers), exts |-> Len(exts),
           alpn |-> AlpnStr(f.alpnProtocols), b |-> Sorted(ciphers),
           c |-> <<Sorted(Without(exts, {0})), Sorted(f.sigAlgs)>>]
  BY <1>2, <1>3, <1>4, <1>5, Zenon DEF ComputeJA4
<1>7. /\ j.version = TlsVersionStr(Max({o.version} \cup Range(NotGREASE(f.supportedVersions))))
      /\ j.sni = f.hasSNI /\ j.ciphers = Len(ciphers) /\ j.exts = Len(exts)
      /\ j.alpn = AlpnStr(f.alpnProtocols) /\ j.b = Sorted(ciphers)
      /\ j.c[1] = Sorted(Without(exts, {0})) /\ j.c[2] = Sorted(f.sigAlgs)
  BY <1>2, <1>6
<1>8. /\ o.ciphers \in Seq(UInt16) /\ o.extensions \in Seq(UInt16)
      /\ o.sigAlgs \in Seq(UInt16) /\ o.protocols \in Seq(Seq(Byte))
  BY OfferTyped
<1>9. j.version = Max({o.version} \cup IF Offered(o, 43) THEN Range(o.versions) \ GREASE ELSE {})
  BY <1>2, <1>7, VersionIs
<1>10. /\ ciphers \in Seq(UInt16) /\ Len(ciphers) = NotOfGREASE(o.ciphers)
       /\ \A v : Cardinality(At(ciphers, v)) = IF v \in GREASE THEN 0 ELSE Cardinality(At(o.ciphers, v))
  BY <1>3, <1>8, NotGREASEIs, Zenon
<1>11. /\ exts \in Seq(UInt16) /\ Len(exts) = NotOfGREASE(o.extensions)
       /\ \A v : Cardinality(At(exts, v)) = IF v \in GREASE THEN 0 ELSE Cardinality(At(o.extensions, v))
  BY <1>4, <1>8, NotGREASEIs, Zenon
<1>12. SortedListOf(j.b, o.ciphers, GREASE)
  BY <1>7, <1>10, SortedListOfIs, Zenon
<1>13. SortedListOf(j.c[1], o.extensions, GREASE \cup {0})
  <2>1. PICK none, others : none = {0} /\ others = GREASE \cup none
    OBVIOUS
  <2>2. PICK kept : kept = Without(exts, none)
    OBVIOUS
  <2>3. /\ kept \in Seq(UInt16)
        /\ \A v : Cardinality(At(kept, v)) = IF v \in none THEN 0 ELSE Cardinality(At(exts, v))
    <3>1. exts \in Seq(UInt16)
      BY <1>11
    <3>2. Keeps(Without(exts, none), UInt16, exts, none)
      BY <3>1, WithoutCounts
    <3> QED
      BY <2>2, <3>2, Zenon DEF Keeps
  <2>4. \A v : v \in others <=> v \in GREASE \/ v \in none
    BY <2>1, Zenon
  <2>5. \A v : Cardinality(At(kept, v)) = IF v \in others THEN 0 ELSE Cardinality(At(o.extensions, v))
    BY <1>11, <2>3, <2>4, Zenon
  <2>6. SortedListOf(Sorted(kept), o.extensions, others)
    BY <2>3, <2>5, SortedListOfIs, Zenon
  <2> QED
    BY <1>7, <2>1, <2>2, <2>6, Zenon
<1>14. SortedListOf(j.c[2], IF Offered(o, 13) THEN o.sigAlgs ELSE <<>>, {})
  <2>1. PICK algs \in Seq(UInt16) : algs = f.sigAlgs /\ algs = IF Offered(o, 13) THEN o.sigAlgs ELSE <<>>
    BY <1>2, <1>8, EmptySeq
  <2>2. \A v : Cardinality(At(algs, v)) = IF v \in {} THEN 0 ELSE Cardinality(At(algs, v))
    OBVIOUS
  <2>3. SortedListOf(Sorted(algs), algs, {})
    BY <2>2, SortedListOfIs, Zenon
  <2> QED
    BY <1>7, <2>1, <2>3, Zenon
<1>15. PICK first : first = IF Offered(o, 16) /\ o.protocols # <<>> THEN o.protocols[1] ELSE <<>>
  OBVIOUS
<1>16. j.alpn = [n \in 1 .. 2 |-> IF n <= Len(first) THEN first[n] ELSE Zero]
  <2>1. PICK protocols \in Seq(Seq(Byte)) :
          protocols = f.alpnProtocols /\ protocols = IF Offered(o, 16) THEN o.protocols ELSE <<>>
    BY <1>2, <1>8, EmptySeq
  <2>2. IsFirst(first, protocols)
    BY <1>15, <2>1 DEF IsFirst
  <2>3. AlpnStr(protocols) = [n \in 1 .. 2 |-> IF n <= Len(first) THEN first[n] ELSE Zero]
    BY <2>2, AlpnStrIs, Zenon
  <2> QED
    BY <1>7, <2>1, <2>3
<1> QED
  BY <1>1, <1>2, <1>5, <1>7, <1>9, <1>10, <1>11, <1>12, <1>13, <1>14, <1>15, <1>16, Zenon DEF Ja4Of

\* Likewise the signals.
LEMMA SignalsAreRight ==
  ASSUME NEW o, IsOffer(o), NEW f, f = FieldsOf(o, Len(o.extensions))
  PROVE  SignalsOf([hasGREASE |-> HasGREASE(f), cipherCount |-> Len(NotGREASE(f.cipherSuites))], o)
<1>1. f.cipherSuites = o.ciphers /\ f.extensions = o.extensions
  BY FieldsOfAll
<1>2. o.ciphers \in Seq(UInt16) /\ o.extensions \in Seq(UInt16)
  BY OfferTyped
<1>3. Len(NotGREASE(f.cipherSuites)) = NotOfGREASE(o.ciphers)
  BY <1>1, <1>2, NotGREASEIs, Zenon
<1>4. PICK R : R = Range(o.ciphers) \cup Range(o.extensions)
  OBVIOUS
<1>5. R \subseteq UInt16
  BY <1>2, <1>4, RangeIs
<1>6. \A v \in R : IsGREASE(v) <=> v \in GREASE
  BY <1>5, GreaseIs DEF GreaseValues
<1>7. CASE \E v \in R : IsGREASE(v)
  <2>1. HasGREASE(f) = TRUE
    BY <1>1, <1>4, <1>7 DEF HasGREASE
  <2>2. (R \cap GREASE # {}) = TRUE
    BY <1>6, <1>7
  <2> QED
    BY <1>3, <1>4, <2>1, <2>2, Zenon DEF SignalsOf
<1>8. CASE ~ \E v \in R : IsGREASE(v)
  <2>1. HasGREASE(f) = FALSE
    BY <1>1, <1>4, <1>8 DEF HasGREASE
  <2>2. (R \cap GREASE # {}) = FALSE
    BY <1>6, <1>8
  <2> QED
    BY <1>3, <1>4, <2>1, <2>2, Zenon DEF SignalsOf
<1> QED
  BY <1>7, <1>8

\* A prefix and what follows it.
LEMMA PrefixGrows ==
  ASSUME NEW S, NEW s \in Seq(S), NEW m \in Nat, NEW n \in Nat, m <= n, n <= Len(s)
  PROVE  SubSeq(s, 1, m) \o SubSeq(s, m + 1, n) = SubSeq(s, 1, n)
<1>1. 1 \in 1 .. Len(s) + 1 /\ m \in 1 - 1 .. Len(s) /\ n \in m .. Len(s)
  BY LenProperties
<1> QED
  BY <1>1, ConcatAdjacentSubSeq

\* Up to its end, a prefix is the sequence.
LEMMA PrefixOfSame ==
  ASSUME NEW S, NEW s \in Seq(S), NEW m \in Nat, NEW n \in Nat, NEW k \in Nat,
         m < n, n <= k, k <= Len(s)
  PROVE  SubSeq(SubSeq(s, 1, k), m + 1, n) = SubSeq(s, m + 1, n)
<1>1. 1 \in 1 .. Len(s) /\ k \in 1 .. Len(s) /\ m + 1 \in 1 .. k - 1 + 1 /\ n \in 1 .. k - 1 + 1
  BY LenProperties
<1>2. SubSeq(SubSeq(s, 1, k), m + 1, n) = SubSeq(s, 1 + (m + 1) - 1, 1 + n - 1)
  BY <1>1, SubSeqOfSubSeq
<1> QED
  BY <1>2

------------------------------------------------------------------------------
(* The TLS stack reads what the client sent. *)

\* How far the connection was read, and what of that the TLS stack has.
Bounded == /\ stream \in Streams /\ buf \in Seq(Byte)
           /\ arrived \in Nat /\ taken \in Nat /\ pos \in Nat
           /\ taken <= arrived /\ arrived <= Len(bytes)

\* Nothing is replayed before the capture is over, which begins at the first byte.
Capturing ==
  /\ pc \in {"header", "body"} => read = <<>> /\ buf = <<>> /\ pos = 0
  /\ pc = "header" => taken = 0
  /\ pc = "body" => taken = HeaderLength

\* While bytes are to be replayed, the TLS stack has those before pos; then it has
\* everything that was read from the connection.
Replaying ==
  pc \in {"handshake", "measured"} /\ deadline # "cut" =>
    IF pos < Len(buf) THEN buf = Replay(taken) /\ read = Replay(pos)
                      ELSE read = Replay(taken)

PeekInv == Bounded /\ Capturing /\ Replaying

LEMMA BytesAreBytes ==
  ASSUME Bounded
  PROVE  bytes \in Seq(Byte) /\ Len(bytes) \in Nat
  BY MeasurementAssumption, LenProperties DEF Bounded, bytes

LEMMA ReplayAll ==
  ASSUME Bounded, NEW n \in Nat, n <= Len(bytes)
  PROVE  Len(Replay(n)) = n /\ Replay(n) \in Seq(Byte)
<1>1. bytes \in Seq(Byte)
  BY BytesAreBytes
<1>2. n \in 0 .. Len(bytes)
  BY <1>1, LenProperties
<1> QED
  BY <1>1, <1>2, PrefixTyped DEF Replay

LEMMA ReplayGrows ==
  ASSUME Bounded, NEW m \in Nat, NEW n \in Nat, m <= n, n <= Len(bytes)
  PROVE  Replay(m) \o SubSeq(bytes, m + 1, n) = Replay(n)
<1>1. bytes \in Seq(Byte)
  BY BytesAreBytes
<1> QED
  BY <1>1, PrefixGrows DEF Replay

LEMMA ReplayNone == Replay(0) = <<>>
  BY SubSeqEmpty DEF Replay

LEMMA RecordLengthIsNat ==
  ASSUME Bounded, HeaderLength <= Len(bytes)
  PROVE  RecordLength \in Nat
<1>1. bytes \in Seq(Byte) /\ Len(bytes) \in Nat
  BY BytesAreBytes
<1>2. 4 \in 1 .. Len(bytes) - 1
  BY <1>1 DEF HeaderLength
<1>3. RecordLength \in UInt16
  BY <1>1, <1>2, WordTyped DEF RecordLength
<1> QED
  BY <1>3, NumbersAreNat

LEMMA PeekInit == Init => PeekInv
<1> SUFFICES ASSUME Init PROVE PeekInv
  OBVIOUS
<1>1. bytes \in Seq(Byte)
  BY MeasurementAssumption DEF Init, bytes
<1>2. Len(bytes) \in Nat
  BY <1>1, LenProperties
<1> QED
  BY <1>2 DEF Init, PeekInv, Bounded, Capturing, Replaying

\* A read, through the buffer or behind it.
LEMMA PeekReads ==
  ASSUME PeekInv, NEW n \in ReadSizes, PeekRead(n)
  PROVE  PeekInv'
<1> USE DEF PeekInv
<1>1. n \in Nat \ {0} /\ pos \in Nat /\ taken \in Nat /\ arrived \in Nat
  BY MeasurementAssumption DEF Bounded
<1>2. bytes \in Seq(Byte) /\ Len(bytes) \in Nat
  BY BytesAreBytes
<1>3. pc = "handshake" /\ UNCHANGED <<stream, arrived, pc, deadline>> /\ UNCHANGED bytes
  BY DEF PeekRead, bytes
<1>4. CASE ReadBuffered(n)
  <2> DEFINE end == AtMost(pos + n, Len(buf))
  <2>1. CASE deadline = "cut"
    <3>1. end \in Nat
      BY <1>1, <1>4, MeasurementAssumption, LenProperties DEF AtMost
    <3> QED
      BY <1>3, <1>4, <2>1, <3>1 DEF ReadBuffered, Bounded, Capturing, Replaying
  <2>2. CASE deadline # "cut"
    <3>1. buf = Replay(taken) /\ read = Replay(pos) /\ pos < Len(buf)
      BY <1>3, <1>4, <2>2 DEF ReadBuffered, Replaying
    <3>2. Len(buf) = taken
      BY <1>1, <3>1, ReplayAll DEF Bounded
    <3>3. end \in Nat /\ pos < end /\ end <= taken /\ taken <= Len(bytes)
      BY <1>1, <1>2, <3>1, <3>2 DEF AtMost, Bounded
    <3>4. SubSeq(buf, pos + 1, end) = SubSeq(bytes, pos + 1, end)
      BY <1>1, <1>2, <3>1, <3>3, PrefixOfSame DEF Replay
    <3> HIDE DEF end
    <3>5. Replay(pos) \o SubSeq(bytes, pos + 1, end) = Replay(end)
      <4>1. pos <= end /\ end <= Len(bytes)
        BY <1>1, <1>2, <3>3
      <4> QED
        BY <1>1, <3>3, <4>1, ReplayGrows
    <3>6. read' = Replay(end) /\ pos' = end /\ buf' = IF end = taken THEN <<>> ELSE buf
      BY <1>4, <3>1, <3>2, <3>4, <3>5 DEF ReadBuffered, end
    <3>7. UNCHANGED <<taken, bytes>>
      BY <1>3, <1>4 DEF ReadBuffered
    <3>8. Bounded' /\ Capturing'
      BY <1>3, <3>3, <3>6, <3>7 DEF Bounded, Capturing
    <3>9. Replaying'
      <4>1. CASE end = taken
        <5>1. ~(pos' < Len(buf')) /\ read' = Replay(taken)'
          BY <3>3, <3>6, <3>7, <4>1, EmptySeq DEF Replay
        <5> QED
          BY <5>1 DEF Replaying
      <4>2. CASE end # taken
        <5>1. buf' = buf /\ end < Len(buf)
          BY <1>1, <3>2, <3>3, <3>6, <4>2
        <5>2. buf' = Replay(taken)' /\ read' = Replay(pos)' /\ pos' < Len(buf')
          BY <3>1, <3>6, <3>7, <5>1 DEF Replay
        <5> QED
          BY <5>2 DEF Replaying
      <4> QED
        BY <4>1, <4>2
    <3> QED
      BY <3>8, <3>9
  <2> QED
    BY <2>1, <2>2
<1>5. CASE ReadThrough(n)
  <2>1. taken' \in Nat /\ taken <= taken' /\ taken' <= arrived /\ taken' <= Len(bytes)
    BY <1>1, <1>2, <1>5 DEF ReadThrough, AtMost, Bounded, Available
  <2>2. \A m \in Nat : taken <= m /\ m <= Len(bytes)
          => Replay(taken) \o SubSeq(bytes, taken + 1, m) = Replay(m)
    BY <1>1, <1>2, ReplayGrows
  <2>3. UNCHANGED <<buf, pos>> /\ pos >= Len(buf) /\ \A m : Replay(m)' = Replay(m)
    BY <1>3, <1>5 DEF ReadThrough, peek, Replay
  <2>4. deadline # "cut" => read' = Replay(taken')
    <3> SUFFICES ASSUME deadline # "cut" PROVE read' = Replay(taken')
      OBVIOUS
    <3>1. Len(buf) \in Nat
      BY LenProperties DEF Bounded
    <3>2. read = Replay(taken)
      BY <1>1, <1>3, <2>3, <3>1 DEF Replaying
    <3> QED
      BY <1>5, <2>1, <2>2, <3>2 DEF ReadThrough
  <2> QED
    BY <1>3, <2>1, <2>3, <2>4 DEF Bounded, Capturing, Replaying, Replay
<1> QED
  BY <1>4, <1>5 DEF PeekRead

LEMMA PeekStep == PeekInv /\ [Next]_vars => PeekInv'
<1> SUFFICES ASSUME PeekInv, [Next]_vars PROVE PeekInv'
  OBVIOUS
<1> USE DEF PeekInv, peek
<1>0. bytes \in Seq(Byte) /\ Len(bytes) \in Nat
  BY BytesAreBytes
<1>1. CASE Arrive
  BY <1>0, <1>1, MeasurementAssumption DEF Arrive, Bounded, Capturing, Replaying, Replay, bytes
<1>2. CASE ReadHeader
  <2>1. HeaderLength <= arrived /\ HeaderLength <= Len(bytes)
    BY <1>2 DEF ReadHeader, Available, Bounded, Capturing, HeaderLength
  <2>2. Len(Replay(HeaderLength)) = HeaderLength /\ Replay(HeaderLength) \in Seq(Byte)
    BY <2>1, ReplayAll DEF HeaderLength
  <2> QED
    <3>1. /\ UNCHANGED <<stream, arrived, pos, read>> /\ taken' = HeaderLength
          /\ \/ pc' = "handshake" /\ buf' = Replay(HeaderLength)
             \/ pc' = "body" /\ buf' = buf
      BY <1>2 DEF ReadHeader
    <3>2. read = Replay(0) /\ read = <<>> /\ pos = 0 /\ buf = <<>>
      BY <1>2, ReplayNone DEF ReadHeader, Capturing
    <3>3. UNCHANGED bytes
      BY <3>1 DEF bytes
    <3>4. Bounded' /\ Capturing'
      BY <2>1, <2>2, <3>1, <3>2, <3>3 DEF Bounded, Capturing, HeaderLength
    <3>5. Replaying'
      BY <2>2, <3>1, <3>2, <3>3 DEF Replaying, Replay, HeaderLength
    <3> QED
      BY <3>4, <3>5
<1>3. CASE HeaderTimesOut
  BY <1>3, ReplayNone DEF HeaderTimesOut, Bounded, Capturing, Replaying, Replay, bytes
<1>4. CASE ReadBody
  <2>1. taken = HeaderLength /\ read = <<>> /\ pos = 0
    BY <1>4 DEF ReadBody, Capturing
  <2>2. RecordLength \in Nat
    BY <1>0, <2>1, RecordLengthIsNat DEF Bounded, HeaderLength
  <2> DEFINE all == HeaderLength + RecordLength
  <2>3. all \in Nat /\ all <= arrived /\ all <= Len(bytes) /\ 0 < all
    BY <1>0, <1>4, <2>1, <2>2 DEF ReadBody, Available, Bounded, HeaderLength
  <2>4. Len(Replay(all)) = all /\ Replay(all) \in Seq(Byte)
    BY <2>3, ReplayAll
  <2>5. taken' = all /\ buf' = Replay(all) /\ pc' = "handshake" /\ read' = Replay(0)
    BY <1>4, <2>1, ReplayNone DEF ReadBody
  <2>6. UNCHANGED <<stream, arrived, pos>> /\ \A m : Replay(m)' = Replay(m)
    BY <1>4 DEF ReadBody, Replay, bytes
  <2> HIDE DEF all
  <2>7. Bounded' /\ Capturing'
    BY <2>3, <2>4, <2>5, <2>6 DEF Bounded, Capturing, bytes
  <2>8. Replaying'
    BY <2>1, <2>3, <2>4, <2>5, <2>6 DEF Replaying
  <2> QED
    BY <2>7, <2>8
<1>5. CASE BodyTimesOut
  <2>1. taken = HeaderLength
    BY <1>5 DEF BodyTimesOut, Capturing
  <2>2. RecordLength \in Nat /\ Available \in Nat /\ Available < RecordLength
    BY <1>0, <1>5, <2>1, RecordLengthIsNat DEF BodyTimesOut, Bounded, Available, HeaderLength
  <2> DEFINE zeros == [i \in 1 .. RecordLength - Available |-> 0]
  <2>3. zeros \in Seq(Byte)
    BY <2>2, IsASeq DEF Byte
  <2>4. Replay(arrived) \in Seq(Byte)
    BY ReplayAll DEF Bounded
  <2>5. buf' \in Seq(Byte)
    BY <1>5, <2>3, <2>4, ConcatProperties DEF BodyTimesOut
  <2>6. /\ UNCHANGED <<stream, arrived, pos, read>> /\ taken' = arrived
        /\ deadline' = "cut" /\ pc' = "handshake"
    BY <1>5 DEF BodyTimesOut
  <2> QED
    BY <2>5, <2>6 DEF Bounded, Capturing, Replaying, bytes
<1>6. ASSUME NEW n \in ReadSizes, PeekRead(n) PROVE PeekInv'
  BY <1>6, PeekReads
<1>7. CASE Measure
  BY <1>7 DEF Measure, Bounded, Capturing, Replaying, Replay, bytes
<1>8. CASE UNCHANGED vars
  BY <1>8 DEF vars, Bounded, Capturing, Replaying, Replay, bytes
<1> QED
  BY <1>1, <1>2, <1>3, <1>4, <1>5, <1>6, <1>7, <1>8 DEF Next, Quiet

\* peekConn.Read (main.go:340-350): whatever the client sends, and however it is
\* cut and read, the TLS stack reads it as it is sent.
THEOREM TransparentHolds == Spec => []Transparent
<1>1. PeekInv => Transparent
  <2> SUFFICES ASSUME PeekInv, pc = "handshake", deadline # "cut"
               PROVE  read \o From(buf, pos + 1) \o From(bytes, taken + 1) = bytes
    BY DEF Transparent
  <2> USE DEF PeekInv, From
  <2>1. bytes \in Seq(Byte) /\ Len(bytes) \in Nat
    BY BytesAreBytes
  <2>2. pos \in Nat /\ taken \in Nat /\ taken <= Len(bytes)
    BY <2>1 DEF Bounded
  <2>3. Replay(taken) \o SubSeq(bytes, taken + 1, Len(bytes)) = bytes
    <3>1. Replay(taken) \o SubSeq(bytes, taken + 1, Len(bytes)) = Replay(Len(bytes))
      <4>1. Len(bytes) <= Len(bytes)
        BY <2>1
      <4> QED
        BY <2>1, <2>2, <4>1, ReplayGrows
    <3> QED
      BY <2>1, <3>1, SubSeqFull DEF Replay
  <2>4. read \o SubSeq(buf, pos + 1, Len(buf)) = Replay(taken)
    <3>1. CASE pos < Len(buf)
      <4>1. buf = Replay(taken) /\ read = Replay(pos) /\ Len(buf) = taken
        BY <2>2, <3>1, ReplayAll DEF Replaying
      <4>2. SubSeq(buf, pos + 1, Len(buf)) = SubSeq(bytes, pos + 1, taken)
        BY <2>1, <2>2, <3>1, <4>1, PrefixOfSame DEF Replay
      <4> QED
        <5>1. pos <= taken
          BY <2>2, <3>1, <4>1
        <5> QED
          BY <2>2, <4>1, <4>2, <5>1, ReplayGrows
    <3>2. CASE ~(pos < Len(buf))
      <4>1. read = Replay(taken) /\ Replay(taken) \in Seq(Byte) /\ Len(buf) \in Nat
        BY <2>2, <3>2, ReplayAll, LenProperties DEF Replaying, Bounded
      <4>2. SubSeq(buf, pos + 1, Len(buf)) = <<>>
        BY <2>2, <3>2, <4>1, SubSeqEmpty
      <4> QED
        BY <4>1, <4>2, ConcatEmptySeq
    <3> QED
      BY <3>1, <3>2
  <2> QED
    BY <2>3, <2>4
<1> QED
  BY <1>1, PeekInit, PeekStep, PTL DEF Spec

------------------------------------------------------------------------------
(* The corrections of the round-trip times. *)

\* What holds of a corrected time, and of the one that ratios are computed from.
LEMMA CorrectedRtt ==
  ASSUME NEW tls \in Nat, NEW tcp \in Nat
  PROVE  /\ Inflated(tls, tcp) => (100 * tls) \div 105 <= tcp
         /\ 100 * tls * 105 >= 80 * BestRtt(tls, tcp)
         /\ BestRtt(tls, tcp) \in Nat
<1>1. CASE 5 * tls < 4 * tcp
  <2>1. 100 * tls <= 105 * tcp
    BY <1>1
  <2> QED
    BY <1>1, <2>1 DEF Inflated, BestRtt
<1>2. CASE ~(5 * tls < 4 * tcp)
  BY <1>2 DEF Inflated, BestRtt
<1> QED
  BY <1>1, <1>2

LEMMA MeasuredIsPlausible == Measure => RatiosArePlausible'
<1> SUFFICES ASSUME Measure, rtt' # None PROVE RatiosArePlausible'
  BY DEF RatiosArePlausible
<1>1. PICK start \in Times, complete \in Times, request \in Times,
           pre \in Rtts \cup {None}, post \in Rtts \cup {None} :
        /\ start <= complete /\ complete <= request
        /\ rtt' = AnalyzeRttFingerprint(
                    [accept |-> 0, start |-> start, complete |-> complete,
                     request |-> request, pre |-> pre, post |-> post])
  BY DEF Measure
<1> DEFINE tcp == IF post # None THEN post ELSE pre
           tls == complete - start
           rated == post # None /\ tcp > 0 /\ tls > 0
           inflated == rated /\ Inflated(tls, tcp)
           broken == rated /\ BestRtt(tls, tcp) > 105 * MaxRtt
<1>2. /\ tcp # None
      /\ rtt' = [TcpRttUs          |-> IF inflated THEN (100 * tls) \div 105 ELSE tcp,
                 TcpRttRawUs       |-> tcp,
                 TlsHandshakeUs    |-> tls,
                 HttpFirstByteUs   |-> request - complete,
                 TotalConnectionUs |-> request - 0,
                 RttCorrected      |-> inflated \/ broken,
                 RttOfRatios       |-> IF rated /\ ~broken THEN BestRtt(tls, tcp) ELSE 0]
  BY <1>1 DEF AnalyzeRttFingerprint, Elapsed
<1>3. tcp \in Nat /\ tls \in Nat /\ request - 0 >= tls /\ MaxRtt \in Nat
  <2>1. /\ start \in Nat /\ complete \in Nat /\ request \in Nat /\ MaxRtt \in Nat
        /\ Rtts \subseteq Nat
    BY MeasurementAssumption
  <2>2. tcp \in Nat
    BY <1>2, <2>1
  <2>3. tls \in Nat /\ request - 0 >= tls
    BY <1>1, <2>1
  <2> QED
    BY <2>1, <2>2, <2>3
<1> HIDE DEF tcp, tls
<1>4. /\ inflated => (100 * tls) \div 105 <= tcp
      /\ 100 * tls * 105 >= 80 * BestRtt(tls, tcp) /\ BestRtt(tls, tcp) \in Nat
  BY <1>3, CorrectedRtt
<1>5. ~broken /\ rated => BestRtt(tls, tcp) <= 105 * MaxRtt
  BY <1>3, <1>4
<1> HIDE DEF rated, inflated, broken
<1>6. rtt'.TcpRttUs <= rtt'.TcpRttRawUs
  BY <1>2, <1>3, <1>4
<1>7. ASSUME rtt'.RttOfRatios # 0
      PROVE  /\ 100 * rtt'.TlsHandshakeUs * 105 >= 80 * rtt'.RttOfRatios
             /\ rtt'.TotalConnectionUs >= rtt'.TlsHandshakeUs
             /\ rtt'.RttOfRatios <= 105 * MaxRtt
  BY <1>2, <1>3, <1>4, <1>5, <1>7
<1> QED
  BY <1>6, <1>7 DEF RatiosArePlausible

\* analyzeRttFingerprint (main.go:515-602): whatever the kernel and the clock
\* say, a correction makes the kernel's time no longer, and ratios are of a
\* round trip that fits into the handshake and below the limit.
THEOREM RatiosArePlausibleHolds == Spec => []RatiosArePlausible
<1>1. Init => RatiosArePlausible
  BY DEF Init, RatiosArePlausible
<1>2. RatiosArePlausible /\ [Next]_vars => RatiosArePlausible'
  <2>1. CASE Measure
    BY <2>1, MeasuredIsPlausible
  <2>2. (~Measure /\ [Next]_vars) => UNCHANGED rtt
    BY DEF Next, Arrive, ReadHeader, HeaderTimesOut, ReadBody, BodyTimesOut, PeekRead, Quiet, vars
  <2> QED
    BY <2>1, <2>2 DEF RatiosArePlausible
<1> QED
  BY <1>1, <1>2, PTL DEF Spec

------------------------------------------------------------------------------
(* The types. *)

\* A JA4, of any fields.
LEMMA Ja4Typed ==
  ASSUME NEW f \in ParsedFields
  PROVE  IsJA4(ComputeJA4(f))
<1>1. /\ f.cipherSuites \in Seq(UInt16) /\ f.extensions \in Seq(UInt16) /\ f.hasSNI \in BOOLEAN
      /\ f.sigAlgs \in Seq(UInt16) /\ f.alpnProtocols \in Seq(Seq(Byte))
  BY DEF ParsedFields
<1>2. PICK version : /\ version = TlsVersionStr(Max({f.version} \cup Range(NotGREASE(f.supportedVersions))))
                     /\ version \in {0} \cup 768 .. 772
  BY SMT DEF TlsVersionStr
<1>3. PICK ciphers \in Seq(UInt16) : ciphers = NotGREASE(f.cipherSuites)
  BY <1>1, NotGREASEIs
<1>4. PICK exts \in Seq(UInt16) : exts = NotGREASE(f.extensions)
  BY <1>1, NotGREASEIs
<1>5. PICK kept \in Seq(UInt16) : kept = Without(exts, {0})
  <2>1. Keeps(Without(exts, {0}), UInt16, exts, {0})
    BY WithoutCounts
  <2> QED
    BY <2>1 DEF Keeps
<1>6. PICK alpn \in Seq(Byte) : alpn = AlpnStr(f.alpnProtocols) /\ Len(alpn) = 2
  <2>1. PICK protocols \in Seq(Seq(Byte)) : protocols = f.alpnProtocols
    BY <1>1
  <2>2. PICK first : IsFirst(first, protocols)
    BY DEF IsFirst
  <2>3. AlpnStr(protocols) \in Seq(Byte) /\ Len(AlpnStr(protocols)) = 2
    BY <2>2, AlpnStrIs
  <2> QED
    BY <2>1, <2>3
<1>7. \A values \in Seq(UInt16) : Sorted(values) \in Seq(UInt16) /\ Len(Sorted(values)) = Len(values)
  BY SortedOrders
<1>8. PICK b \in Seq(UInt16) : b = Sorted(ciphers) /\ Len(ciphers) = Len(b)
  BY <1>7
<1>9. PICK c \in Seq(Seq(UInt16)) : c = <<Sorted(kept), Sorted(f.sigAlgs)>> /\ Len(c) = 2
  <2>1. PICK l1 \in Seq(UInt16), l2 \in Seq(UInt16) : l1 = Sorted(kept) /\ l2 = Sorted(f.sigAlgs)
    BY <1>1, <1>7
  <2>2. <<l1, l2>> \in Seq(Seq(UInt16)) /\ Len(<<l1, l2>>) = 2
    OBVIOUS
  <2> QED
    BY <2>1, <2>2
<1>10. PICK j : j = ComputeJA4(f)
  OBVIOUS
<1>11. j = [version |-> version, sni |-> f.hasSNI, ciphers |-> Len(ciphers), exts |-> Len(exts),
            alpn |-> alpn, b |-> b, c |-> c]
  BY <1>2, <1>3, <1>4, <1>5, <1>6, <1>8, <1>9, <1>10, Zenon DEF ComputeJA4
<1>12. Len(ciphers) \in Nat /\ Len(exts) \in Nat
  BY LenProperties
<1>13. PICK V : V = {0} \cup 768 .. 772
  OBVIOUS
<1>14. JA4 = [version : V, sni : BOOLEAN, ciphers : Nat, exts : Nat,
               alpn : Seq(Byte), b : Seq(UInt16), c : Seq(Seq(UInt16))]
  BY <1>13, Zenon DEF JA4
<1>15. j \in [version : V, sni : BOOLEAN, ciphers : Nat, exts : Nat,
              alpn : Seq(Byte), b : Seq(UInt16), c : Seq(Seq(UInt16))]
  BY <1>1, <1>2, <1>11, <1>12, <1>13
<1>16. j.ciphers = Len(j.b) /\ Len(j.alpn) = 2 /\ Len(j.c) = 2
  BY <1>6, <1>8, <1>9, <1>11
<1> QED
  BY <1>10, <1>14, <1>15, <1>16, Zenon DEF IsJA4

\* The payload of a record that has arrived.
LEMMA PayloadTyped ==
  ASSUME PeekInv, ReadBody
  PROVE  /\ SubSeq(bytes, HeaderLength + 1, HeaderLength + RecordLength) \in Seq(Byte)
         /\ RecordLength \in Nat /\ HeaderLength + RecordLength <= arrived
<1>1. bytes \in Seq(Byte) /\ Len(bytes) \in Nat
  BY BytesAreBytes DEF PeekInv
<1>2. /\ taken = HeaderLength /\ HeaderLength \in Nat
      /\ arrived \in Nat /\ taken <= arrived /\ arrived <= Len(bytes)
  BY DEF PeekInv, Bounded, Capturing, ReadBody, HeaderLength
<1>3. RecordLength \in Nat
  BY <1>1, <1>2, RecordLengthIsNat DEF PeekInv
<1>4. HeaderLength + RecordLength <= arrived
  BY <1>2, <1>3 DEF ReadBody, Available
<1>5. HeaderLength + 1 \in Nat \ {0} /\ HeaderLength + RecordLength \in Nat
  BY <1>2, <1>3
<1>6. HeaderLength + RecordLength <= Len(bytes)
  BY <1>1, <1>2, <1>4, <1>5
<1> QED
  BY <1>1, <1>3, <1>4, <1>5, <1>6, PartTyped

LEMMA NotedTyped ==
  ASSUME NEW payload \in Seq(Byte), Parses(payload), Noted(payload)
  PROVE  IsJA4(ja4') /\ signals'.hasGREASE \in BOOLEAN /\ signals'.cipherCount \in Nat
<1>1. PICK f \in ParsedFields : f = Fields(payload)
  BY FieldsTyped
<1>2. IsJA4(ComputeJA4(f))
  BY Ja4Typed
<1>3. f.cipherSuites \in Seq(UInt16)
  BY DEF ParsedFields
<1>4. Len(NotGREASE(f.cipherSuites)) \in Nat
  BY <1>3, NotGREASEIs, LenProperties
<1>5. PICK g \in BOOLEAN : g = HasGREASE(f)
  BY DEF HasGREASE
<1>6. /\ ja4' = ComputeJA4(f)
      /\ signals' = [hasGREASE |-> g, cipherCount |-> Len(NotGREASE(f.cipherSuites))]
  BY <1>1, <1>5, Zenon DEF Noted
<1>7. signals'.hasGREASE = g /\ signals'.cipherCount = Len(NotGREASE(f.cipherSuites))
  BY <1>6
<1> QED
  BY <1>2, <1>4, <1>6, <1>7

\* What analyzeRttFingerprint returns.
LEMMA MeasuredIsTyped == Measure => rtt' \in {None} \cup RttFingerprint
<1> SUFFICES ASSUME Measure, rtt' # None PROVE rtt' \in RttFingerprint
  OBVIOUS
<1>1. PICK start \in Times, complete \in Times, request \in Times,
           pre \in Rtts \cup {None}, post \in Rtts \cup {None} :
        /\ start <= complete /\ complete <= request
        /\ rtt' = AnalyzeRttFingerprint(
                    [accept |-> 0, start |-> start, complete |-> complete,
                     request |-> request, pre |-> pre, post |-> post])
  BY DEF Measure
<1> DEFINE tcp == IF post # None THEN post ELSE pre
           tls == complete - start
           rated == post # None /\ tcp > 0 /\ tls > 0
           inflated == rated /\ Inflated(tls, tcp)
           broken == rated /\ BestRtt(tls, tcp) > 105 * MaxRtt
           corrected == IF inflated THEN (100 * tls) \div 105 ELSE tcp
           ofRatios == IF rated /\ ~broken THEN BestRtt(tls, tcp) ELSE 0
<1>2. /\ tcp # None
      /\ rtt' = [TcpRttUs          |-> corrected,
                 TcpRttRawUs       |-> tcp,
                 TlsHandshakeUs    |-> tls,
                 HttpFirstByteUs   |-> request - complete,
                 TotalConnectionUs |-> request - 0,
                 RttCorrected      |-> inflated \/ broken,
                 RttOfRatios       |-> ofRatios]
  BY <1>1 DEF AnalyzeRttFingerprint, Elapsed
<1>3. start \in Nat /\ complete \in Nat /\ request \in Nat /\ Rtts \subseteq Nat
  BY MeasurementAssumption
<1>4. tcp \in Nat
  BY <1>2, <1>3
<1>5. tls \in Nat /\ request - complete \in Nat /\ request - 0 \in Nat
  BY <1>1, <1>3
<1> HIDE DEF tcp, tls
<1>6. BestRtt(tls, tcp) \in Nat
  BY <1>4, <1>5, CorrectedRtt
<1>7. corrected \in Nat /\ ofRatios \in Nat
  <2>1. (100 * tls) \div 105 \in Nat
    BY <1>5
  <2> QED
    BY <1>4, <1>6, <2>1
<1>8. PICK flag \in BOOLEAN : flag = (inflated \/ broken)
  OBVIOUS
<1> HIDE DEF corrected, ofRatios, inflated, broken
<1> QED
  BY <1>2, <1>4, <1>5, <1>7, <1>8 DEF RttFingerprint

LEMMA TypeInit == Init => TypeOK
<1> SUFFICES ASSUME Init PROVE TypeOK
  OBVIOUS
<1>1. bytes \in Seq(Byte) /\ Len(bytes) \in Nat
  BY MeasurementAssumption, LenProperties DEF Init, bytes
<1>2. <<>> \in Seq(Byte)
  BY EmptySeq
<1>3. signals.hasGREASE \in BOOLEAN /\ signals.cipherCount \in Nat
  BY DEF Init, NoSignals
<1>4. 0 \in 0 .. Len(bytes) /\ 0 \in 0 .. 0
  BY <1>1
<1>5. /\ arrived = 0 /\ taken = 0 /\ pc = "header" /\ deadline = "met"
      /\ buf = <<>> /\ pos = 0 /\ read = <<>> /\ ja4 = None /\ rtt = None
  BY DEF Init
<1>6. arrived \in 0 .. Len(bytes) /\ taken \in 0 .. arrived
  BY <1>4, <1>5
<1>7. pos \in Nat /\ rtt \in {None} \cup RttFingerprint
  BY <1>5
<1> QED
  BY <1>1, <1>2, <1>3, <1>5, <1>6, <1>7, Zenon DEF TypeOK

\* What the TLS stack reads.
LEMMA ReadTyped ==
  ASSUME PeekInv, read \in Seq(Byte), NEW n \in ReadSizes, PeekRead(n)
  PROVE  read' \in Seq(Byte)
<1>1. /\ bytes \in Seq(Byte) /\ Len(bytes) \in Nat /\ buf \in Seq(Byte) /\ Len(buf) \in Nat
      /\ pos \in Nat /\ taken \in Nat /\ arrived \in Nat /\ arrived <= Len(bytes) /\ n \in Nat
  BY BytesAreBytes, MeasurementAssumption, LenProperties DEF PeekInv, Bounded
<1>2. CASE ReadBuffered(n)
  <2>1. PICK end \in Nat : end = AtMost(pos + n, Len(buf)) /\ end <= Len(buf)
    BY <1>1 DEF AtMost
  <2>2. read' = read \o SubSeq(buf, pos + 1, end)
    BY <1>2, <2>1 DEF ReadBuffered
  <2>3. SubSeq(buf, pos + 1, end) \in Seq(Byte)
    <3>1. pos + 1 \in Nat \ {0}
      BY <1>1
    <3> QED
      BY <1>1, <2>1, <3>1, PartTyped
  <2> QED
    BY <2>2, <2>3, ConcatProperties
<1>3. CASE ReadThrough(n)
  <2>1. taken' = AtMost(taken + n, arrived) /\ read' = read \o SubSeq(bytes, taken + 1, taken')
    BY <1>3 DEF ReadThrough
  <2>2. PICK end \in Nat : end = taken' /\ end <= Len(bytes)
    BY <1>1, <2>1 DEF AtMost
  <2>3. SubSeq(bytes, taken + 1, end) \in Seq(Byte)
    <3>1. taken + 1 \in Nat \ {0}
      BY <1>1
    <3> QED
      BY <1>1, <2>2, <3>1, PartTyped
  <2> QED
    BY <2>1, <2>2, <2>3, ConcatProperties
<1> QED
  BY <1>2, <1>3 DEF PeekRead

\* The steps of the capture, and what is left alone by the others.
LEMMA TypeStep == PeekInv /\ PeekInv' /\ TypeOK /\ [Next]_vars => TypeOK'
<1> SUFFICES ASSUME PeekInv, PeekInv', TypeOK, [Next]_vars PROVE TypeOK'
  OBVIOUS
<1> DEFINE Ja4OK == ja4 = None \/ IsJA4(ja4)
           SignalsOK == signals.hasGREASE \in BOOLEAN /\ signals.cipherCount \in Nat
           RttOK == rtt \in {None} \cup RttFingerprint
           PcOK == pc \in {"header", "body", "handshake", "measured"} /\ deadline \in {"met", "idle", "cut"}
<1>1. Ja4OK /\ SignalsOK /\ RttOK /\ PcOK /\ read \in Seq(Byte)
  BY DEF TypeOK
<1>2. /\ bytes' \in Seq(Byte) /\ arrived' \in 0 .. Len(bytes') /\ taken' \in 0 .. arrived'
      /\ buf' \in Seq(Byte) /\ pos' \in Nat
  <2>1. stream' \in Streams /\ buf' \in Seq(Byte) /\ arrived' \in Nat /\ taken' \in Nat /\ pos' \in Nat
        /\ taken' <= arrived' /\ arrived' <= Len(bytes')
    BY DEF PeekInv, Bounded
  <2>2. bytes' \in Seq(Byte)
    BY <2>1, MeasurementAssumption DEF bytes
  <2>3. Len(bytes') \in Nat
    BY <2>2, LenProperties
  <2> QED
    BY <2>1, <2>2, <2>3
<1> HIDE DEF Ja4OK, SignalsOK, RttOK
<1>3. (Ja4OK /\ SignalsOK /\ RttOK /\ PcOK /\ read \in Seq(Byte))'
  <2>1. CASE Arrive
    BY <1>1, <2>1 DEF Arrive, hello, Ja4OK, SignalsOK, RttOK
  <2>2. CASE ReadHeader
    BY <1>1, <2>2 DEF ReadHeader, hello, Ja4OK, SignalsOK, RttOK
  <2>3. CASE HeaderTimesOut
    BY <1>1, <2>3 DEF HeaderTimesOut, hello, Ja4OK, SignalsOK, RttOK
  <2>4. CASE ReadBody
    <3>1. UNCHANGED <<deadline, read, rtt>> /\ pc' = "handshake"
      BY <2>4 DEF ReadBody
    <3>2. PICK payload \in Seq(Byte) :
            IF Parses(payload) THEN Noted(payload) ELSE UNCHANGED hello
      BY <2>4, PayloadTyped DEF ReadBody
    <3>3. (Ja4OK /\ SignalsOK)'
      <4>1. CASE Parses(payload)
        BY <3>2, <4>1, NotedTyped DEF Ja4OK, SignalsOK
      <4>2. CASE ~Parses(payload)
        BY <1>1, <3>2, <4>2 DEF hello, Ja4OK, SignalsOK
      <4> QED
        BY <4>1, <4>2
    <3> QED
      BY <1>1, <3>1, <3>3 DEF RttOK
  <2>5. CASE BodyTimesOut
    BY <1>1, <2>5 DEF BodyTimesOut, hello, Ja4OK, SignalsOK, RttOK
  <2>6. ASSUME NEW n \in ReadSizes, PeekRead(n) PROVE (Ja4OK /\ SignalsOK /\ RttOK /\ PcOK /\ read \in Seq(Byte))'
    <3>1. read' \in Seq(Byte)
      BY <1>1, <2>6, ReadTyped
    <3> QED
      BY <1>1, <2>6, <3>1 DEF PeekRead, hello, Ja4OK, SignalsOK, RttOK
  <2>7. CASE Measure
    <3>1. UNCHANGED <<deadline, read, hello>> /\ pc' = "measured"
      BY <2>7 DEF Measure
    <3>2. RttOK'
      BY <2>7, MeasuredIsTyped DEF RttOK
    <3> QED
      BY <1>1, <3>1, <3>2 DEF hello, Ja4OK, SignalsOK
  <2>8. CASE UNCHANGED vars
    BY <1>1, <2>8 DEF vars, hello, Ja4OK, SignalsOK, RttOK
  <2> QED
    BY <2>1, <2>2, <2>3, <2>4, <2>5, <2>6, <2>7, <2>8 DEF Next, Quiet
<1> QED
  BY <1>2, <1>3 DEF TypeOK, Ja4OK, SignalsOK, RttOK

\* What is read and noted of a connection (main.go:340-462, 515-601) is well formed
\* whatever bytes arrive: the JA4 above all, whatever message parses.
THEOREM MeasurementTypeCorrect == Spec => []TypeOK
<1>1. Init => PeekInv /\ TypeOK
  BY PeekInit, TypeInit
<1>2. (PeekInv /\ TypeOK) /\ [Next]_vars => (PeekInv /\ TypeOK)'
  BY PeekStep, TypeStep
<1> QED
  BY <1>1, <1>2, PTL DEF Spec

------------------------------------------------------------------------------
(* What an offer is noted as. *)

\* The record of a ClientHello.
LEMMA RecordRead ==
  ASSUME NEW o, IsOffer(o), NEW data, data = Record(22, Hello(o))
  PROVE  /\ data[1] = 22
         /\ Word(data, 4) = Len(Hello(o))
         /\ SubSeq(data, 6, 5 + Len(Hello(o))) = Hello(o)
<1>1. PICK d \in Seq(Byte) : d = Hello(o) /\ Len(d) \in UInt16 /\ Len(d) \in Nat
  <2>1. Hello(o) \in Seq(Byte)
    BY HelloRead
  <2>2. Len(Hello(o)) \in Nat
    BY <2>1, LenProperties, SMTT(40)
  <2>3. Len(Hello(o)) <= 16384
    BY SMT DEF IsOffer
  <2>4. Len(Hello(o)) \in UInt16
    BY <2>2, <2>3, UInt16Is, SMT
  <2> QED
    BY <2>1, <2>2, <2>4
<1>2. PICK a \in Seq(Byte) : a = <<22, 3, 1>> /\ Len(a) = 3 /\ a[1] = 22
  <2>1. PICK x \in Byte, y \in Byte, z \in Byte : x = 22 /\ y = 3 /\ z = 1
    BY ByteIs
  <2>2. <<x, y, z>> \in Seq(Byte) /\ Len(<<x, y, z>>) = 3 /\ <<x, y, z>>[1] = x
    OBVIOUS
  <2> QED
    BY <2>1, <2>2
<1>3. PICK b \in Seq(Byte) : b = Two(Len(d)) /\ Len(b) = 2 /\ b[1] * 256 + b[2] = Len(d)
  BY <1>1, TwoIs
<1>4. PICK x : x = a \o (b \o d)
  OBVIOUS
<1>5. /\ x \in Seq(Byte) /\ Len(x) = Len(a) + Len(b) + Len(d)
      /\ SubSeq(x, Len(a) + 1, Len(a) + Len(b)) = b
      /\ From(x, Len(a) + Len(b) + 1) = d
      /\ \A i \in 1 .. Len(a) : x[i] = a[i]
  BY <1>4, JoinedParts, SMTT(40)
<1>6. Len(x) = 5 + Len(d) /\ x[1] = 22
  BY <1>1, <1>2, <1>3, <1>5
<1>7. x[4] = b[1] /\ x[5] = b[2]
  <2>1. SubSeq(x, 4, 5) = b
    BY <1>2, <1>3, <1>5
  <2>2. \A i \in 4 .. 5 : x[i] \in Byte
    BY <1>1, <1>5, <1>6, ElementOfSeq
  <2>3. \A i \in 1 .. 5 - 4 + 1 : SubSeq(x, 4, 5)[i] = x[4 + i - 1]
    BY <2>2, SubSeqProperties
  <2> QED
    BY <2>1, <2>3
<1>8. Word(x, 4) = Len(d)
  BY <1>3, <1>7 DEF Word
<1>9. SubSeq(x, 6, 5 + Len(d)) = d
  <2>1. Len(a) + Len(b) + 1 = 6
    BY <1>2, <1>3
  <2> QED
    BY <1>5, <1>6, <2>1 DEF From
<1>10. Record(22, Hello(o)) = x
  <2>1. Vector16(d) = b \o d
    BY <1>3 DEF Vector16
  <2> QED
    BY <1>1, <1>2, <1>4, <2>1 DEF Record
<1> QED
  BY <1>1, <1>6, <1>8, <1>9, <1>10

\* Nothing is noted before the capture is over; then, of an offer that came in
\* time, what the parser makes of its ClientHello.
OfferNoted ==
  stream.offer # None =>
    IF pc \in {"header", "body"} \/ deadline # "met"
      THEN ja4 = None /\ signals = NoSignals /\ (pc \in {"header", "body"} => deadline = "met")
      ELSE LET f == Fields(Hello(stream.offer))
           IN /\ ja4 = ComputeJA4(f)
              /\ signals = [hasGREASE   |-> HasGREASE(f),
                            cipherCount |-> Len(NotGREASE(f.cipherSuites))]

\* The invariant is kept.
LEMMA OfferStep == PeekInv /\ OfferNoted /\ [Next]_vars => OfferNoted'
<1> SUFFICES ASSUME PeekInv, OfferNoted, [Next]_vars, stream'.offer # None PROVE OfferNoted'
  BY DEF OfferNoted
<1>1. stream' = stream
  BY DEF Next, Arrive, ReadHeader, HeaderTimesOut, ReadBody, BodyTimesOut, PeekRead, Measure, Quiet, vars
<1>2. PICK o : o = stream.offer /\ o = stream'.offer /\ IsOffer(o) /\ bytes = Record(22, Hello(o))
  <2>1. stream \in Streams /\ stream.offer # None
    BY <1>1 DEF PeekInv, Bounded
  <2> QED
    BY <1>1, <2>1, OffersAssumption DEF bytes
<1>3. PICK payload \in Seq(Byte) : payload = Hello(o) /\ Parses(payload)
  BY <1>2, HelloRead
<1>4. /\ bytes[1] = 22 /\ RecordLength = Len(payload)
      /\ SubSeq(bytes, HeaderLength + 1, HeaderLength + RecordLength) = payload
  <2>1. bytes[1] = 22 /\ RecordLength = Len(Hello(o)) /\ SubSeq(bytes, 6, 5 + Len(Hello(o))) = Hello(o)
    BY <1>2, RecordRead DEF RecordLength
  <2>2. HeaderLength + 1 = 6 /\ HeaderLength = 5
    BY DEF HeaderLength
  <2> QED
    BY <1>3, <2>1, <2>2
<1>5. ~(RecordLength > MaxRecord)
  <2>1. Len(Hello(o)) <= 16384
    BY <1>2, SMT DEF IsOffer
  <2>2. RecordLength <= MaxRecord
    BY <1>3, <1>4, <2>1, SMTT(40) DEF MaxRecord
  <2>3. RecordLength \in Nat
    BY <1>4, LenProperties
  <2> QED
    BY <2>2, <2>3, SMTT(40) DEF MaxRecord
<1> DEFINE f == Fields(payload)
           Noting == /\ ja4 = ComputeJA4(f)
                     /\ signals = [hasGREASE   |-> HasGREASE(f),
                                   cipherCount |-> Len(NotGREASE(f.cipherSuites))]
           Nothing == ja4 = None /\ signals = NoSignals
           Capturing2 == pc \in {"header", "body"}
<1>6. IF Capturing2 \/ deadline # "met" THEN Nothing /\ (Capturing2 => deadline = "met") ELSE Noting
  BY <1>1, <1>2, <1>3 DEF OfferNoted
<1>7. SUFFICES (IF Capturing2 \/ deadline # "met" THEN Nothing /\ (Capturing2 => deadline = "met") ELSE Noting)'
  BY <1>1, <1>2, <1>3 DEF OfferNoted
<1>8. UNCHANGED hello => (Nothing => Nothing') /\ (Noting => Noting')
  BY <1>1 DEF hello
<1> HIDE DEF Nothing, Noting, f
<1>9. CASE Arrive
  BY <1>6, <1>8, <1>9 DEF Arrive
<1>10. CASE ReadHeader
  BY <1>4, <1>5, <1>6, <1>8, <1>10 DEF ReadHeader
<1>11. CASE HeaderTimesOut
  BY <1>6, <1>8, <1>11 DEF HeaderTimesOut
<1>12. CASE ReadBody
  <2>1. Noted(payload) /\ pc' = "handshake" /\ deadline' = deadline /\ pc = "body"
    BY <1>3, <1>4, <1>12 DEF ReadBody
  <2>2. Noting'
    BY <2>1 DEF Noted, Noting, f
  <2> QED
    BY <1>6, <2>1, <2>2
<1>13. CASE BodyTimesOut
  BY <1>6, <1>8, <1>13 DEF BodyTimesOut
<1>14. ASSUME NEW n \in ReadSizes, PeekRead(n)
       PROVE (IF Capturing2 \/ deadline # "met" THEN Nothing /\ (Capturing2 => deadline = "met") ELSE Noting)'
  BY <1>6, <1>8, <1>14 DEF PeekRead
<1>15. CASE Measure
  BY <1>6, <1>8, <1>15 DEF Measure
<1>16. CASE UNCHANGED vars
  BY <1>6, <1>8, <1>16 DEF vars
<1> QED
  BY <1>9, <1>10, <1>11, <1>12, <1>13, <1>14, <1>15, <1>16 DEF Next, Quiet

LEMMA NotedIsOfTheOffer == PeekInv /\ OfferNoted => Ja4IsOfTheOffer
<1> SUFFICES ASSUME PeekInv, OfferNoted, pc \in {"handshake", "measured"}, stream.offer # None
             PROVE  IF deadline = "met"
                      THEN ja4 # None /\ Ja4Of(ja4, stream.offer) /\ SignalsOf(signals, stream.offer)
                      ELSE ja4 = None /\ signals = NoSignals
  BY DEF Ja4IsOfTheOffer
<1>1. PICK o : o = stream.offer /\ IsOffer(o)
  <2>1. stream \in Streams
    BY DEF PeekInv, Bounded
  <2> QED
    BY <2>1, OffersAssumption
<1>2. CASE deadline # "met"
  BY <1>2 DEF OfferNoted
<1>3. CASE deadline = "met"
  <2>1. PICK f \in ParsedFields : f = Fields(Hello(o)) /\ f = FieldsOf(o, Len(o.extensions))
    BY <1>1, HelloRead, FieldsTyped
  <2>2. /\ ja4 = ComputeJA4(f)
        /\ signals = [hasGREASE |-> HasGREASE(f), cipherCount |-> Len(NotGREASE(f.cipherSuites))]
    BY <1>1, <1>3, <2>1 DEF OfferNoted
  <2>3. Ja4Of(ja4, o)
    BY <1>1, <2>1, <2>2, Ja4IsRight
  <2>4. SignalsOf(signals, o)
    BY <1>1, <2>1, <2>2, SignalsAreRight
  <2>5. ja4 # None
    <3>1. ja4 \in JA4
      BY <2>2, Ja4Typed DEF IsJA4
    <3>2. None \notin JA4
      BY MeasurementAssumption, Zenon
    <3> QED
      BY <3>1, <3>2
  <2> QED
    BY <1>1, <1>3, <2>3, <2>4, <2>5
<1> QED
  BY <1>2, <1>3

\* Accept (main.go:397-462) with the parser of ja4.go: whatever a client offers, and
\* however its bytes are cut, a ClientHello that comes in time gets the JA4 and the
\* signals of the offer, and one that does not gets none.
THEOREM Ja4IsOfTheOfferHolds == Spec => []Ja4IsOfTheOffer
<1>1. Init => PeekInv /\ OfferNoted
  <2>1. Init => OfferNoted
    BY DEF Init, OfferNoted
  <2> QED
    BY <2>1, PeekInit
<1>2. (PeekInv /\ OfferNoted) /\ [Next]_vars => (PeekInv /\ OfferNoted)'
  BY PeekStep, OfferStep
<1>3. PeekInv /\ OfferNoted => Ja4IsOfTheOffer
  BY NotedIsOfTheOffer
<1> QED
  BY <1>1, <1>2, <1>3, PTL DEF Spec
==============================================================================
