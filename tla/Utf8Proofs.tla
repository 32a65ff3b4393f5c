----------------------------- MODULE Utf8Proofs ----------------------------
(***************************************************************************)
(* Decoding and encoding one character are inverses, for every code point  *)
(* and every string of bytes, not only those of the model checker's run.   *)
(***************************************************************************)
EXTENDS Utf8, TLAPS

Bytes == 0 .. 255

\* The number of bytes a character takes.
Length(cp) == IF cp < 128 THEN 1 ELSE IF cp < 2048 THEN 2 ELSE IF cp < 65536 THEN 3 ELSE 4

\* Six bits at a time, a number is put back together from what its bytes hold.
LEMMA TwoDigits ==
  ASSUME NEW n \in Nat
  PROVE  /\ n = (n \div 64) * 64 + (n % 64)
         /\ n % 64 \in 0 .. 63 /\ n \div 64 \in Nat
         /\ n < 2048 => n \div 64 \in 0 .. 31
  OBVIOUS

\* The same for the three bytes of a code point below 65536.
LEMMA ThreeDigits ==
  ASSUME NEW n \in Nat
  PROVE  /\ n = (n \div 4096) * 4096 + ((n \div 64) % 64) * 64 + (n % 64)
         /\ (n \div 64) % 64 \in 0 .. 63 /\ n \div 4096 \in Nat
         /\ n < 65536 => n \div 4096 \in 0 .. 15
  OBVIOUS

\* The same for the four bytes of the code points above.
LEMMA FourDigits ==
  ASSUME NEW n \in Nat
  PROVE  /\ n = (n \div 262144) * 262144 + ((n \div 4096) % 64) * 4096
                  + ((n \div 64) % 64) * 64 + (n % 64)
         /\ (n \div 4096) % 64 \in 0 .. 63 /\ n \div 262144 \in Nat
         /\ n < 2097152 => n \div 262144 \in 0 .. 7
  OBVIOUS

\* A first byte, the continuation bytes it asks for and bits that may be meant
\* are decoded.
LEMMA Decodes ==
  ASSUME NEW s, NEW need \in 1 .. 3, NEW v,
         ~(ByteAt(s, 1) < 128), Need(ByteAt(s, 1)) = need,
         \A i \in 1 .. need : Continuation(ByteAt(s, i + 1)),
         Assembled(s, need) = v, Meant(v, need)
  PROVE  mv_utf8_decode(s) = [cp |-> v, len |-> need + 1]
  BY DEF mv_utf8_decode

-----------------------------------------------------------------------------
\* mv_utf8_decode gives back every character mv_utf8_encode writes: each code
\* point that is not half a surrogate pair, with its length, at every boundary
\* between the forms of one to four bytes.
THEOREM EncodedIsDecoded ==
  ASSUME NEW cp \in Nat, Scalar(cp)
  PROVE  mv_utf8_decode(mv_utf8_encode(cp)) = [cp |-> cp, len |-> Length(cp)]
<1>1. CASE cp < 128
  <2>1. mv_utf8_encode(cp) = <<cp>>
    BY <1>1 DEF mv_utf8_encode
  <2>2. ByteAt(<<cp>>, 1) = cp
    BY DEF ByteAt
  <2> QED  BY <1>1, <2>1, <2>2 DEF mv_utf8_decode, Length
<1>2. CASE 128 <= cp /\ cp < 2048
  <2> DEFINE s == mv_utf8_encode(cp)
             a == cp \div 64
             b == cp % 64
  <2>1. s = <<192 + a, 128 + b>>
    BY <1>2 DEF mv_utf8_encode
  <2>2. /\ a \in 0 .. 31 /\ b \in 0 .. 63
        /\ cp = a * 64 + b
    BY <1>2, TwoDigits
  <2>3. Meant(cp, 1)
    BY <1>2 DEF Meant, Scalar
  <2> HIDE DEF s, a, b
  <2>4. Len(s) = 2 /\ s[1] = 192 + a /\ s[2] = 128 + b
    BY <2>1, <2>2
  <2>5. /\ ByteAt(s, 1) = s[1] /\ ByteAt(s, 2) = s[2]
    BY <2>4 DEF ByteAt
  <2>6. Need(s[1]) = 1 /\ FirstBits(s[1]) = a /\ ~(s[1] < 128)
    BY <2>2, <2>4 DEF Need, FirstBits
  <2>7. Assembled(s, 1) = cp
    BY <2>2, <2>4, <2>6 DEF Assembled
  <2>8. \A i \in 1 .. 1 : Continuation(ByteAt(s, i + 1))
    BY <2>2, <2>4, <2>5 DEF Continuation
  <2>9. mv_utf8_decode(s) = [cp |-> cp, len |-> 2]
    BY <2>3, <2>5, <2>6, <2>7, <2>8, Decodes
  <2>10. Length(cp) = 2
    BY <1>2 DEF Length
  <2> QED  BY <2>9, <2>10 DEF s
<1>3. CASE 2048 <= cp /\ cp < 65536
  <2> DEFINE s == mv_utf8_encode(cp)
             a == cp \div 4096
             b == (cp \div 64) % 64
             c == cp % 64
  <2>1. s = <<224 + a, 128 + b, 128 + c>>
    BY <1>3 DEF mv_utf8_encode
  <2>2. /\ a \in 0 .. 15 /\ b \in 0 .. 63 /\ c \in 0 .. 63
        /\ cp = a * 4096 + b * 64 + c
    BY <1>3, TwoDigits, ThreeDigits
  <2>3. Meant(cp, 2)
    BY <1>3 DEF Meant, Scalar
  <2> HIDE DEF s, a, b, c
  <2>4. Len(s) = 3 /\ s[1] = 224 + a /\ s[2] = 128 + b /\ s[3] = 128 + c
    BY <2>1, <2>2
  <2>5. /\ ByteAt(s, 1) = s[1] /\ ByteAt(s, 2) = s[2] /\ ByteAt(s, 3) = s[3]
    BY <2>4 DEF ByteAt
  <2>6. Need(s[1]) = 2 /\ FirstBits(s[1]) = a /\ ~(s[1] < 128)
    BY <2>2, <2>4 DEF Need, FirstBits
  <2>7. Assembled(s, 2) = cp
    BY <2>2, <2>4, <2>6 DEF Assembled
  <2>8. \A i \in 1 .. 2 : Continuation(ByteAt(s, i + 1))
    BY <2>2, <2>4, <2>5 DEF Continuation
  <2>9. mv_utf8_decode(s) = [cp |-> cp, len |-> 3]
    BY <2>3, <2>5, <2>6, <2>7, <2>8, Decodes
  <2>10. Length(cp) = 3
    BY <1>3 DEF Length
  <2> QED  BY <2>9, <2>10 DEF s
<1>4. CASE 65536 <= cp
  <2> DEFINE s == mv_utf8_encode(cp)
             a == cp \div 262144
             b == (cp \div 4096) % 64
             c == (cp \div 64) % 64
             d == cp % 64
  <2>1. s = <<240 + a, 128 + b, 128 + c, 128 + d>>
    BY <1>4 DEF mv_utf8_encode
  <2>2. /\ a \in 0 .. 7 /\ b \in 0 .. 63 /\ c \in 0 .. 63 /\ d \in 0 .. 63
        /\ cp = a * 262144 + b * 4096 + c * 64 + d
    BY <1>4, TwoDigits, ThreeDigits, FourDigits DEF Scalar
  <2>3. Meant(cp, 3)
    BY <1>4 DEF Meant, Scalar
  <2> HIDE DEF s, a, b, c, d
  <2>4. Len(s) = 4 /\ s[1] = 240 + a /\ s[2] = 128 + b /\ s[3] = 128 + c /\ s[4] = 128 + d
    BY <2>1, <2>2
  <2>5. /\ ByteAt(s, 1) = s[1] /\ ByteAt(s, 2) = s[2] /\ ByteAt(s, 3) = s[3] /\ ByteAt(s, 4) = s[4]
    BY <2>4 DEF ByteAt
  <2>6. Need(s[1]) = 3 /\ FirstBits(s[1]) = a /\ ~(s[1] < 128)
    BY <2>2, <2>4 DEF Need, FirstBits
  <2>7. Assembled(s, 3) = cp
    BY <2>2, <2>4, <2>6 DEF Assembled
  <2>8. \A i \in 1 .. 3 : Continuation(ByteAt(s, i + 1))
    BY <2>2, <2>4, <2>5 DEF Continuation
  <2>9. mv_utf8_decode(s) = [cp |-> cp, len |-> 4]
    BY <2>3, <2>5, <2>6, <2>7, <2>8, Decodes
  <2>10. Length(cp) = 4
    BY <1>4 DEF Length
  <2> QED  BY <2>9, <2>10 DEF s
<1> QED  BY <1>1, <1>2, <1>3, <1>4

-----------------------------------------------------------------------------
\* The bytes of s start with the character r: they are how r is encoded.
Spells(s, r) ==
  /\ Len(mv_utf8_encode(r.cp)) = r.len
  /\ \A i \in 1 .. r.len : mv_utf8_encode(r.cp)[i] = s[i]

\* s starts with as many continuation bytes as asked for, and may be meant.
WellFormed(s, need) ==
  /\ Need(s[1]) = need
  /\ \A i \in 1 .. need : Continuation(ByteAt(s, i + 1))
  /\ Meant(Assembled(s, need), need)

\* A continuation byte is 128 and six bits.
LEMMA ContinuationRange ==
  ASSUME NEW b, b \in Bytes, Continuation(b)
  PROVE  \E x \in 0 .. 63 : b = 128 + x
<1>1. b - 128 \in 0 .. 63 /\ b = 128 + (b - 128)
  BY DEF Bytes, Continuation
<1> QED  BY <1>1

\* The first byte of a sequence tells its length and carries the highest bits.
LEMMA FirstRange ==
  ASSUME NEW b, b \in Bytes
  PROVE  /\ Need(b) = 1 => \E a \in 0 .. 31 : b = 192 + a /\ FirstBits(b) = a
         /\ Need(b) = 2 => \E a \in 0 .. 15 : b = 224 + a /\ FirstBits(b) = a
         /\ Need(b) = 3 => \E a \in 0 .. 7 : b = 240 + a /\ FirstBits(b) = a
<1>1. CASE Need(b) = 1
  <2>1. b - 192 \in 0 .. 31 /\ b = 192 + (b - 192)
    BY <1>1 DEF Bytes, Need
  <2>2. FirstBits(b) = b - 192
    BY <1>1 DEF FirstBits
  <2> QED  BY <1>1, <2>1, <2>2
<1>2. CASE Need(b) = 2
  <2>1. b - 224 \in 0 .. 15 /\ b = 224 + (b - 224)
    BY <1>2 DEF Bytes, Need
  <2>2. FirstBits(b) = b - 224
    BY <1>2 DEF FirstBits
  <2> QED  BY <1>2, <2>1, <2>2
<1>3. CASE Need(b) = 3
  <2>1. b - 240 \in 0 .. 7 /\ b = 240 + (b - 240)
    BY <1>3 DEF Bytes, Need
  <2>2. FirstBits(b) = b - 240
    BY <1>3 DEF FirstBits
  <2> QED  BY <1>3, <2>1, <2>2
<1> QED  BY <1>1, <1>2, <1>3

\* The bytes of s are made of the bits a, b, ...: the first byte carries a.
PartsTwo(s, a, b) ==
  /\ a \in 0 .. 31 /\ s[1] = 192 + a /\ FirstBits(s[1]) = a
  /\ b \in 0 .. 63 /\ s[2] = 128 + b

PartsThree(s, a, b, c) ==
  /\ a \in 0 .. 15 /\ s[1] = 224 + a /\ FirstBits(s[1]) = a
  /\ b \in 0 .. 63 /\ s[2] = 128 + b
  /\ c \in 0 .. 63 /\ s[3] = 128 + c

PartsFour(s, a, b, c, d) ==
  /\ a \in 0 .. 7 /\ s[1] = 240 + a /\ FirstBits(s[1]) = a
  /\ b \in 0 .. 63 /\ s[2] = 128 + b
  /\ c \in 0 .. 63 /\ s[3] = 128 + c
  /\ d \in 0 .. 63 /\ s[4] = 128 + d

\* Bits that may be meant are encoded to the two bytes they came from.
LEMMA PartsTwoSpell ==
  ASSUME NEW s, NEW a, NEW b, PartsTwo(s, a, b), Meant(Assembled(s, 1), 1)
  PROVE  /\ Assembled(s, 1) \in Nat /\ Scalar(Assembled(s, 1))
         /\ mv_utf8_encode(Assembled(s, 1)) = <<s[1], s[2]>>
<1> DEFINE n == Assembled(s, 1)
<1>1. /\ a \in 0 .. 31 /\ b \in 0 .. 63
      /\ s[1] = 192 + a /\ s[2] = 128 + b
  BY DEF PartsTwo
<1>2. n = a * 64 + b
  BY DEF PartsTwo, Assembled
<1>3. Meant(n, 1)
  OBVIOUS
<1> HIDE DEF n
<1>4. n \in Nat
  BY <1>1, <1>2
<1>5. Scalar(n) /\ 128 <= n /\ n < 2048
  BY <1>1, <1>2, <1>3, <1>4 DEF Meant, Scalar
<1>6. n \div 64 = a /\ n % 64 = b
  BY <1>1, <1>2, <1>4
<1>7. mv_utf8_encode(n) = <<192 + a, 128 + b>>
  BY <1>4, <1>5, <1>6 DEF mv_utf8_encode
<1>8. mv_utf8_encode(n) = <<s[1], s[2]>>
  BY <1>1, <1>7
<1> QED  BY <1>4, <1>5, <1>8 DEF n

\* Bits that may be meant are encoded to the three bytes they came from.
LEMMA PartsThreeSpell ==
  ASSUME NEW s, NEW a, NEW b, NEW c, PartsThree(s, a, b, c), Meant(Assembled(s, 2), 2)
  PROVE  /\ Assembled(s, 2) \in Nat /\ Scalar(Assembled(s, 2))
         /\ mv_utf8_encode(Assembled(s, 2)) = <<s[1], s[2], s[3]>>
<1> DEFINE n == Assembled(s, 2)
<1>1. /\ a \in 0 .. 15 /\ b \in 0 .. 63 /\ c \in 0 .. 63
      /\ s[1] = 224 + a /\ s[2] = 128 + b /\ s[3] = 128 + c
  BY DEF PartsThree
<1>2. n = a * 4096 + b * 64 + c
  BY DEF PartsThree, Assembled
<1>3. Meant(n, 2)
  OBVIOUS
<1> HIDE DEF n
<1>4. n \in Nat
  BY <1>1, <1>2
<1>5. Scalar(n) /\ 2048 <= n /\ n < 65536
  BY <1>1, <1>2, <1>3, <1>4 DEF Meant, Scalar
<1>6. n \div 4096 = a /\ (n \div 64) % 64 = b /\ n % 64 = c
  BY <1>1, <1>2, <1>4
<1>7. mv_utf8_encode(n) = <<224 + a, 128 + b, 128 + c>>
  BY <1>4, <1>5, <1>6 DEF mv_utf8_encode
<1>8. mv_utf8_encode(n) = <<s[1], s[2], s[3]>>
  BY <1>1, <1>7
<1> QED  BY <1>4, <1>5, <1>8 DEF n

\* Bits that may be meant are encoded to the four bytes they came from.
LEMMA PartsFourSpell ==
  ASSUME NEW s, NEW a, NEW b, NEW c, NEW d, PartsFour(s, a, b, c, d), Meant(Assembled(s, 3), 3)
  PROVE  /\ Assembled(s, 3) \in Nat /\ Scalar(Assembled(s, 3))
         /\ mv_utf8_encode(Assembled(s, 3)) = <<s[1], s[2], s[3], s[4]>>
<1> DEFINE n == Assembled(s, 3)
<1>1. /\ a \in 0 .. 7 /\ b \in 0 .. 63 /\ c \in 0 .. 63 /\ d \in 0 .. 63
      /\ s[1] = 240 + a /\ s[2] = 128 + b /\ s[3] = 128 + c /\ s[4] = 128 + d
  BY DEF PartsFour
<1>2. n = a * 262144 + b * 4096 + c * 64 + d
  BY DEF PartsFour, Assembled
<1>3. Meant(n, 3)
  OBVIOUS
<1> HIDE DEF n
<1>4. n \in Nat
  BY <1>1, <1>2
<1>5. Scalar(n) /\ 65536 <= n /\ n < 1114112
  BY <1>1, <1>2, <1>3, <1>4 DEF Meant, Scalar
<1>6. n \div 262144 = a /\ (n \div 4096) % 64 = b /\ (n \div 64) % 64 = c /\ n % 64 = d
  BY <1>1, <1>2, <1>4, SMTT(60)
<1>7. mv_utf8_encode(n) = <<240 + a, 128 + b, 128 + c, 128 + d>>
  BY <1>4, <1>5, <1>6 DEF mv_utf8_encode
<1>8. mv_utf8_encode(n) = <<s[1], s[2], s[3], s[4]>>
  BY <1>1, <1>7
<1> QED  BY <1>4, <1>5, <1>8 DEF n

\* The terminator is no continuation byte, so a continuation byte lies in the string.
LEMMA ContinuationBytes ==
  ASSUME NEW s \in Seq(Bytes), NEW i \in Nat \ {0}, Continuation(ByteAt(s, i))
  PROVE  Len(s) >= i /\ \E x \in 0 .. 63 : s[i] = 128 + x
<1>1. Len(s) \in Nat
  OBVIOUS
<1>2. i <= Len(s)
  BY <1>1 DEF Continuation, ByteAt
<1>3. s[i] \in Bytes /\ ByteAt(s, i) = s[i]
  BY <1>1, <1>2 DEF ByteAt
<1> QED  BY <1>1, <1>2, <1>3, ContinuationRange

\* A well-formed sequence of two bytes lies in the string and spells its value.
LEMMA TwoBytes ==
  ASSUME NEW s \in Seq(Bytes), Len(s) >= 1, WellFormed(s, 1)
  PROVE  /\ Len(s) >= 2
         /\ Assembled(s, 1) \in Nat /\ Scalar(Assembled(s, 1))
         /\ mv_utf8_encode(Assembled(s, 1)) = <<s[1], s[2]>>
<1>1. Need(s[1]) = 1 /\ Continuation(ByteAt(s, 2)) /\ Meant(Assembled(s, 1), 1)
  BY DEF WellFormed
<1>2. s[1] \in Bytes
  OBVIOUS
<1>3. PICK a \in 0 .. 31 : s[1] = 192 + a /\ FirstBits(s[1]) = a
  BY <1>1, <1>2, FirstRange, ZenonT(30)
<1>4. PICK b \in 0 .. 63 : Len(s) >= 2 /\ s[2] = 128 + b
  BY <1>1, ContinuationBytes
<1>5. PartsTwo(s, a, b)
  BY <1>3, <1>4 DEF PartsTwo
<1> QED  BY <1>1, <1>4, <1>5, PartsTwoSpell

\* A well-formed sequence of three bytes lies in the string and spells its value.
LEMMA ThreeBytes ==
  ASSUME NEW s \in Seq(Bytes), Len(s) >= 1, WellFormed(s, 2)
  PROVE  /\ Len(s) >= 3
         /\ Assembled(s, 2) \in Nat /\ Scalar(Assembled(s, 2))
         /\ mv_utf8_encode(Assembled(s, 2)) = <<s[1], s[2], s[3]>>
<1>1. Need(s[1]) = 2 /\ Continuation(ByteAt(s, 2)) /\ Continuation(ByteAt(s, 3)) /\ Meant(Assembled(s, 2), 2)
  BY DEF WellFormed
<1>2. s[1] \in Bytes
  OBVIOUS
<1>3. PICK a \in 0 .. 15 : s[1] = 224 + a /\ FirstBits(s[1]) = a
  BY <1>1, <1>2, FirstRange, ZenonT(30)
<1>4. PICK b \in 0 .. 63 : Len(s) >= 2 /\ s[2] = 128 + b
  BY <1>1, ContinuationBytes
<1>5. PICK c \in 0 .. 63 : Len(s) >= 3 /\ s[3] = 128 + c
  BY <1>1, ContinuationBytes
<1>6. PartsThree(s, a, b, c)
  BY <1>3, <1>4, <1>5 DEF PartsThree
<1> QED  BY <1>1, <1>5, <1>6, PartsThreeSpell

\* A well-formed sequence of four bytes lies in the string and spells its value.
LEMMA FourBytes ==
  ASSUME NEW s \in Seq(Bytes), Len(s) >= 1, WellFormed(s, 3)
  PROVE  /\ Len(s) >= 4
         /\ Assembled(s, 3) \in Nat /\ Scalar(Assembled(s, 3))
         /\ mv_utf8_encode(Assembled(s, 3)) = <<s[1], s[2], s[3], s[4]>>
<1>1. Need(s[1]) = 3 /\ Continuation(ByteAt(s, 2)) /\ Continuation(ByteAt(s, 3)) /\ Continuation(ByteAt(s, 4)) /\ Meant(Assembled(s, 3), 3)
  BY DEF WellFormed
<1>2. s[1] \in Bytes
  OBVIOUS
<1>3. PICK a \in 0 .. 7 : s[1] = 240 + a /\ FirstBits(s[1]) = a
  BY <1>1, <1>2, FirstRange
<1>4. PICK b \in 0 .. 63 : Len(s) >= 2 /\ s[2] = 128 + b
  BY <1>1, ContinuationBytes
<1>5. PICK c \in 0 .. 63 : Len(s) >= 3 /\ s[3] = 128 + c
  BY <1>1, ContinuationBytes
<1>6. PICK d \in 0 .. 63 : Len(s) >= 4 /\ s[4] = 128 + d
  BY <1>1, ContinuationBytes
<1>7. PartsFour(s, a, b, c, d)
  BY <1>3, <1>4, <1>5, <1>6 DEF PartsFour
<1> QED  BY <1>1, <1>6, <1>7, PartsFourSpell

\* A first byte below 128 is its own character.
LEMMA OneByte ==
  ASSUME NEW b \in Bytes, b < 128
  PROVE  Scalar(b) /\ mv_utf8_encode(b) = <<b>>
<1>1. Scalar(b)
  BY DEF Bytes, Scalar, Surrogate, HighSurrogate, LowSurrogate
<1>2. mv_utf8_encode(b) = <<b>>
  BY DEF mv_utf8_encode
<1> QED  BY <1>1, <1>2

\* A first byte asks for one, two or three continuation bytes, or for none.
LEMMA NeedRange ==
  ASSUME NEW b
  PROVE  Need(b) \in {-1, 1, 2, 3}
  BY DEF Need

\* What the decoder answers: the first byte, the assembled bits of a
\* well-formed sequence, or the replacement of one byte.
LEMMA Answers ==
  ASSUME NEW s \in Seq(Bytes), Len(s) >= 1
  PROVE  \/ s[1] < 128 /\ mv_utf8_decode(s) = [cp |-> s[1], len |-> 1]
         \/ \E need \in {1, 2, 3} :
              /\ WellFormed(s, need)
              /\ mv_utf8_decode(s) = [cp |-> Assembled(s, need), len |-> need + 1]
         \/ mv_utf8_decode(s) = Malformed
<1>1. ByteAt(s, 1) = s[1]
  BY DEF ByteAt
<1>2. Need(s[1]) \in {-1, 1, 2, 3}
  BY NeedRange
<1> QED  BY <1>1, <1>2 DEF mv_utf8_decode, WellFormed

(***************************************************************************)
(* mv_utf8_decode answers, for every string that is not empty, a scalar    *)
(* value and a length inside the string, so a caller stepping by it never  *)
(* leaves the string nor stands still; and unless it answers the           *)
(* replacement of one malformed byte, the bytes it consumed are exactly    *)
(* how mv_utf8_encode writes that value: no overlong form, no surrogate    *)
(* and nothing above 0x10FFFF is ever taken for a character.               *)
(***************************************************************************)
THEOREM DecodedIsEncoded ==
  ASSUME NEW s \in Seq(Bytes), Len(s) >= 1
  PROVE  LET d == mv_utf8_decode(s)
         IN  /\ d.len \in 1 .. Len(s)
             /\ Scalar(d.cp)
             /\ d # Malformed => Spells(s, d)
<1> DEFINE d == mv_utf8_decode(s)
<1>1. CASE s[1] < 128 /\ d = [cp |-> s[1], len |-> 1]
  <2>1. s[1] \in Bytes
    OBVIOUS
  <2>2. Scalar(s[1]) /\ mv_utf8_encode(s[1]) = <<s[1]>>
    BY <1>1, <2>1, OneByte
  <2>3. Spells(s, [cp |-> s[1], len |-> 1])
    BY <2>2 DEF Spells
  <2> QED  BY <1>1, <2>2, <2>3
<1>2. ASSUME WellFormed(s, 1), d = [cp |-> Assembled(s, 1), len |-> 2]
      PROVE  d.len \in 1 .. Len(s) /\ Scalar(d.cp) /\ Spells(s, d)
  <2>1. /\ Len(s) >= 2 /\ Scalar(Assembled(s, 1))
        /\ mv_utf8_encode(Assembled(s, 1)) = <<s[1], s[2]>>
    BY <1>2, TwoBytes
  <2>2. Spells(s, [cp |-> Assembled(s, 1), len |-> 2])
    BY <2>1 DEF Spells
  <2> QED  BY <1>2, <2>1, <2>2
<1>3. ASSUME WellFormed(s, 2), d = [cp |-> Assembled(s, 2), len |-> 3]
      PROVE  d.len \in 1 .. Len(s) /\ Scalar(d.cp) /\ Spells(s, d)
  <2>1. /\ Len(s) >= 3 /\ Scalar(Assembled(s, 2))
        /\ mv_utf8_encode(Assembled(s, 2)) = <<s[1], s[2], s[3]>>
    BY <1>3, ThreeBytes
  <2>2. Spells(s, [cp |-> Assembled(s, 2), len |-> 3])
    BY <2>1 DEF Spells
  <2> QED  BY <1>3, <2>1, <2>2
<1>4. ASSUME WellFormed(s, 3), d = [cp |-> Assembled(s, 3), len |-> 4]
      PROVE  d.len \in 1 .. Len(s) /\ Scalar(d.cp) /\ Spells(s, d)
  <2>1. /\ Len(s) >= 4 /\ Scalar(Assembled(s, 3))
        /\ mv_utf8_encode(Assembled(s, 3)) = <<s[1], s[2], s[3], s[4]>>
    BY <1>4, FourBytes
  <2>2. Spells(s, [cp |-> Assembled(s, 3), len |-> 4])
    BY <2>1 DEF Spells
  <2> QED  BY <1>4, <2>1, <2>2
<1>5. CASE d = Malformed
  <2>1. Scalar(65533)
    BY DEF Scalar, Surrogate, HighSurrogate, LowSurrogate
  <2> QED  BY <1>5, <2>1 DEF Malformed, MV_REPLACEMENT
<1>6. \/ s[1] < 128 /\ d = [cp |-> s[1], len |-> 1]
      \/ \E need \in {1, 2, 3} : WellFormed(s, need) /\ d = [cp |-> Assembled(s, need), len |-> need + 1]
      \/ d = Malformed
  BY Answers
<1> QED  BY <1>1, <1>2, <1>3, <1>4, <1>5, <1>6

=============================================================================
