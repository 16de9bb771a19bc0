-------------------------------- MODULE Cipher --------------------------------
(***************************************************************************)
(* The pure algorithms of src-go/stun/cipher: the 32-bit Feistel network,  *)
(* the port of a tag, and the attestation payload that a STUN response     *)
(* carries as an IPv6 address.                                             *)
(*                                                                         *)
(* What a keyed primitive computes is a constant: the round function and   *)
(* the tag (HMAC-SHA256) are any functions, AES is any permutation of the  *)
(* blocks.  Exclusive or is any operation that is its own inverse.  A      *)
(* block of the Feistel network is its two halves, a payload is its four   *)
(* 32-bit words; the byte order within a word is left out.                 *)
(***************************************************************************)
EXTENDS Integers, Sequences

CONSTANTS
  Halves,     \* the 16-bit halves of a Feistel block
  Xor,        \* exclusive or of two halves
  Round,      \* of each of the four derived keys: its round function
  WordMod,    \* 2^32: the words of a payload are 0 .. WordMod - 1
  AesEncrypt, \* encBlock: the payload's block cipher under the derived key
  AesDecrypt, \* decBlock
  Hmac        \* the 4-byte tag of three words under the derived key

Word == 0 .. WordMod - 1
Payload == {<<a, b, c, d>> : a \in Word, b \in Word, c \in Word, d \in Word}
Signed == {<<a, b, c>> : a \in Word, b \in Word, c \in Word}

ASSUME XorAssumption ==
  /\ Xor \in [Halves -> [Halves -> Halves]]
  /\ \A a, b \in Halves : Xor[Xor[a][b]][b] = a
ASSUME RoundAssumption == Round \in [0..3 -> [Halves -> Halves]]
ASSUME WordModAssumption == WordMod \in Nat \ {0}
ASSUME AesAssumption ==
  /\ AesEncrypt \in [Payload -> Payload]
  /\ \A p \in Payload : AesDecrypt[AesEncrypt[p]] = p
ASSUME HmacAssumption == Hmac \in [Signed -> Word]

------------------------------------------------------------------------------
(* Feistel32. *)

\* One turn of the loop of Encrypt: L, R = R, L ^ round(R).
EncryptRound(i, b) == <<b[2], Xor[b[1]][Round[i][b[2]]]>>
Encrypt(b) == EncryptRound(3, EncryptRound(2, EncryptRound(1, EncryptRound(0, b))))

\* One turn of the loop of Decrypt: L, R = R ^ round(L), L.
DecryptRound(i, b) == <<Xor[b[2]][Round[i][b[1]]], b[1]>>

Decrypt(b) == DecryptRound(0, DecryptRound(1, DecryptRound(2, DecryptRound(3, b))))

\* "Decrypt inverts Encrypt", for every block and whatever the rounds compute.
FeistelInverts ==
  \A L, R \in Halves : Decrypt(Encrypt(<<L, R>>)) = <<L, R>>

------------------------------------------------------------------------------
(* PortTagger. *)

\* porttag.go:49: the unprivileged ports end where the 16-bit tags do.
FirstPort == 1024
Ports == 65536

\* An unprivileged port for a 16-bit tag.
PortFromTag(tag) == FirstPort + (tag % (Ports - FirstPort))

------------------------------------------------------------------------------
(* V6Payload. *)

\* Encode: address, seconds (as uint32), nonce and tag, encrypted as a block.
EncodePayload(ip, seconds, nonce) ==
  LET epoch == seconds % WordMod
  IN AesEncrypt[<<ip, epoch, nonce, Hmac[<<ip, epoch, nonce>>]>>]

\* Faulty variant: takes the epoch for the nonce and the nonce for the epoch.
DecodeSwapped(blob, now) ==
  LET plain == AesDecrypt[blob]
  IN [ip       |-> plain[1],
      epoch    |-> plain[3],
      nonce    |-> plain[2],
      ageSec   |-> now - plain[3],
      validMAC |-> Hmac[<<plain[1], plain[2], plain[3]>>] = plain[4]]

\* Decode: the fields, the signed age, and whether the tag is right.
DecodePayload(blob, now) ==
  LET plain == AesDecrypt[blob]
  IN [ip       |-> plain[1],
      epoch    |-> plain[2],
      nonce    |-> plain[3],
      ageSec   |-> now - plain[2],
      validMAC |-> Hmac[<<plain[1], plain[2], plain[3]>>] = plain[4]]
===============================================================================
