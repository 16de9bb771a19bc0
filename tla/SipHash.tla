------------------------------- MODULE SipHash --------------------------------
(***************************************************************************)
(* _sip of the edge function in lib/services/tls-fingerprint-edge.ts:      *)
(* SipHash-2-4 on pairs of 32-bit halves, as JavaScript has no integers of *)
(* 64 bits; and SipHash-2-4 as it is defined, on whole words.              *)
(*                                                                         *)
(* A byte has ByteBits bits (8), a half four bytes and a word eight.  The  *)
(* rotations scale with the word; what matters is that they are different, *)
(* and shorter than a half.  Exclusive or is an operator of the language.  *)
(***************************************************************************)
EXTENDS Naturals, Sequences

CONSTANTS
  ByteBits,
  R13, R16, R17, R21,  \* the rotations, called by their number of bits in 64
  InitialHalves,       \* the eight 32-bit constants v0l, v0h, ..., v3h
  XorHalf(_, _)        \* exclusive or of two halves (external)

HalfBits == 4 * ByteBits

ASSUME ByteBitsAssumption == ByteBits \in Nat \ {0}
ASSUME RotationsAssumption == {R13, R16, R17, R21} \subseteq 1 .. HalfBits - 1

Pow2[n \in 0 .. 2 * HalfBits] == IF n = 0 THEN 1 ELSE 2 * Pow2[n - 1]

ByteMod == Pow2[ByteBits]
HalfMod == Pow2[HalfBits]
WordMod == HalfMod * HalfMod
Bytes == 0 .. ByteMod - 1
Halves == 0 .. HalfMod - 1
HalfPairs == [l : Halves, h : Halves]

ASSUME InitialHalvesAssumption == InitialHalves \in [1 .. 8 -> Halves]
ASSUME XorAssumption ==
  \A x \in Halves : XorHalf(x, 0) = x /\ \A y \in Halves : XorHalf(x, y) \in Halves

------------------------------------------------------------------------------
(* The code: a word is a pair of halves [l, h]. *)

Xor(x, y) == [l |-> XorHalf(x.l, y.l), h |-> XorHalf(x.h, y.h)]

\* Faulty variant: loses the carry.
AddHalves(x, y) == [l |-> (x.l + y.l) % HalfMod, h |-> (x.h + y.h) % HalfMod]

Add(x, y) ==
  LET sumL == x.l + y.l
      ci == IF sumL > HalfMod - 1 THEN 1 ELSE 0
  IN [l |-> sumL % HalfMod, h |-> (x.h + y.h + ci) % HalfMod]

Rotate(x, n) ==
  LET up(a, b) == ((a * Pow2[n]) % HalfMod) + (b \div Pow2[HalfBits - n])
  IN [l |-> up(x.l, x.h), h |-> up(x.h, x.l)]

Swap(x) == [l |-> x.h, h |-> x.l]

\* Add v[j] to v[i]; rotate v[j] and combine it with the sum.
Mix(v, i, j, n) ==
  LET sum == Add(v[i], v[j])
  IN [v EXCEPT ![i] = sum, ![j] = Xor(Rotate(@, n), sum)]

SwapAt(v, i) == [v EXCEPT ![i] = Swap(@)]

Round(v) ==
  LET first(u) == SwapAt(Mix(Mix(u, 0, 1, R13), 2, 3, R16), 0)
      second(u) == SwapAt(Mix(Mix(u, 0, 3, R21), 2, 1, R17), 2)
  IN second(first(v))

TwoRounds(v) == Round(Round(v))

\* Four bytes, the lowest first.
Half(bytes, n) ==
  bytes[n] + ByteMod * (bytes[n + 1] + ByteMod * (bytes[n + 2] + ByteMod * bytes[n + 3]))
Word(bytes, n) == [l |-> Half(bytes, n), h |-> Half(bytes, n + 4)]

Start(key) ==
  LET initial(n) == [l |-> InitialHalves[2 * n + 1], h |-> InitialHalves[2 * n + 2]]
  IN [n \in 0 .. 3 |-> Xor(Word(key, IF n \in {0, 2} THEN 1 ELSE 9), initial(n))]

\* Zeros up to the last byte of a block, and the length.
Padded(msg) ==
  LET zeros == (15 - (Len(msg) % 8)) % 8
  IN msg \o [n \in 1 .. zeros |-> 0] \o <<Len(msg) % ByteMod>>

Compress(v, w) ==
  LET mixed == TwoRounds([v EXCEPT ![3] = Xor(@, w)])
  IN [mixed EXCEPT ![0] = Xor(@, w)]

\* The loop over the blocks.
Absorb(start, words) ==
  LET state[n \in 0 .. Len(words)] ==
        IF n = 0 THEN start ELSE Compress(state[n - 1], words[n])
  IN state[Len(words)]

Finish(v) == TwoRounds(TwoRounds([v EXCEPT ![2].l = XorHalf(@, ByteMod - 1)]))
Folded(v) == Xor(Xor(v[0], v[1]), Xor(v[2], v[3]))

\* The first sixteen bytes of the key are used.
Sip(key, msg) ==
  LET mb == Padded(msg)
      words == [n \in 1 .. Len(mb) \div 8 |-> Word(mb, 8 * n - 7)]
  IN Folded(Finish(Absorb(Start(key), words)))

------------------------------------------------------------------------------
(* The definition: Aumasson and Bernstein, "SipHash: a fast short-input PRF",  *)
(* 2012, section 2, on words as numbers.                                       *)

\* The number of a pair of halves.
Number(w) == HalfMod * w.h + w.l

WXor(x, y) == HalfMod * XorHalf(x \div HalfMod, y \div HalfMod)
                + XorHalf(x % HalfMod, y % HalfMod)
WAdd(x, y) == (x + y) % WordMod
WRotate(x, n) ==
  LET low == Pow2[2 * HalfBits - n] IN (x % low) * Pow2[n] + (x \div low)

SipRound(v) ==
  LET a0 == WAdd(v[1], v[2])
      a2 == WAdd(v[3], v[4])
      a1 == WXor(WRotate(v[2], R13), a0)
      a3 == WXor(WRotate(v[4], R16), a2)
      b2 == WAdd(a2, a1)
      b0 == WAdd(WRotate(a0, HalfBits), a3)
  IN <<b0, WXor(WRotate(a1, R17), b2), WRotate(b2, HalfBits), WXor(WRotate(a3, R21), b0)>>

TwoSipRounds(v) == SipRound(SipRound(v))

SipCompress(v, m) ==
  [TwoSipRounds([v EXCEPT ![4] = WXor(@, m)]) EXCEPT ![1] = WXor(@, m)]

SipAbsorb(start, words) ==
  LET state[n \in 0 .. Len(words)] ==
        IF n = 0 THEN start ELSE SipCompress(state[n - 1], words[n])
  IN state[Len(words)]

\* Of eight bytes, the first is the least significant.
LittleEndian(b) ==
  b[1] + ByteMod * (b[2] + ByteMod * (b[3] + ByteMod * (b[4]
    + ByteMod * (b[5] + ByteMod * (b[6] + ByteMod * (b[7] + ByteMod * b[8]))))))

\* The message is parsed into words; the last has what is left over, zeros, and
\* the length in its most significant byte.
Parsed(msg) ==
  LET last == Len(msg) \div 8 + 1
      byte(at) == IF at <= Len(msg) THEN msg[at]
                  ELSE IF at = 8 * last THEN Len(msg) % ByteMod ELSE 0
  IN [n \in 1 .. last |-> LittleEndian([i \in 1 .. 8 |-> byte(8 * (n - 1) + i)])]

SipHash24(key, msg) ==
  LET k(n) == LittleEndian(SubSeq(key, 8 * n + 1, 8 * n + 8))
      c(n) == HalfMod * InitialHalves[2 * n + 2] + InitialHalves[2 * n + 1]
      start == <<WXor(k(0), c(0)), WXor(k(1), c(1)), WXor(k(0), c(2)), WXor(k(1), c(3))>>
      absorbed == SipAbsorb(start, Parsed(msg))
      last == TwoSipRounds(TwoSipRounds([absorbed EXCEPT ![3] = WXor(@, ByteMod - 1)]))
  IN WXor(WXor(last[1], last[2]), WXor(last[3], last[4]))
==============================================================================
