-------------------------------- MODULE Utf8 -------------------------------
(***************************************************************************)
(* c/rt/utf.c: one character of UTF-8.  Bytes and code points are numbers; *)
(* a C string is a sequence whose terminator is not written down, and      *)
(* reading past its end reads that 0.                                      *)
(***************************************************************************)
EXTENDS Integers, Sequences

MV_REPLACEMENT == 65533                       \* 0xFFFD
HighSurrogate(u) == 55296 <= u /\ u <= 56319  \* 0xD800 .. 0xDBFF
LowSurrogate(u) == 56320 <= u /\ u <= 57343   \* 0xDC00 .. 0xDFFF
Surrogate(u) == HighSurrogate(u) \/ LowSurrogate(u)
Scalar(cp) == 0 <= cp /\ cp <= 1114111 /\ ~Surrogate(cp)

ByteAt(s, i) == IF i <= Len(s) THEN s[i] ELSE 0
Continuation(b) == 128 <= b /\ b <= 191       \* (b & 0xC0) == 0x80

\* The continuation bytes the first byte asks for: (b & 0xE0) == 0xC0, ...; -1
\* if it starts nothing.
Need(b) ==
  IF 192 <= b /\ b <= 223 THEN 1 ELSE IF 224 <= b /\ b <= 239 THEN 2
  ELSE IF 240 <= b /\ b <= 247 THEN 3 ELSE -1
FirstBits(b) == CASE Need(b) = 1 -> b - 192 [] Need(b) = 2 -> b - 224 [] OTHER -> b - 240

\* The bits of the sequence put together, six for each continuation byte.
Assembled(s, need) ==
  LET Bits(i) == s[i] - 128 IN
  CASE need = 1 -> FirstBits(s[1]) * 64 + Bits(2)
    [] need = 2 -> FirstBits(s[1]) * 4096 + Bits(2) * 64 + Bits(3)
    [] OTHER -> FirstBits(s[1]) * 262144 + Bits(2) * 4096 + Bits(3) * 64 + Bits(4)

\* "Reject what UTF-8 cannot mean, whatever the bytes say."
Meant(cp, need) ==
  /\ need = 1 => cp >= 128
  /\ need = 2 => cp >= 2048
  /\ need = 3 => cp >= 65536
  /\ cp <= 1114111 /\ ~Surrogate(cp)

Malformed == [cp |-> MV_REPLACEMENT, len |-> 1]

mv_utf8_decode(s) ==
  LET first == ByteAt(s, 1)  need == Need(first) IN
  IF first < 128 THEN [cp |-> first, len |-> 1]
  ELSE IF need = -1 \/ \E i \in 1 .. need : ~Continuation(ByteAt(s, i + 1)) THEN Malformed
  ELSE IF Meant(Assembled(s, need), need) THEN [cp |-> Assembled(s, need), len |-> need + 1]
  ELSE Malformed

mv_utf8_encode(cp) ==
  LET low == 128 + (cp % 64)
      mid == 128 + ((cp \div 64) % 64)
      high == 128 + ((cp \div 4096) % 64)
  IN  IF cp < 128 THEN <<cp>>
      ELSE IF cp < 2048 THEN <<192 + cp \div 64, low>>
      ELSE IF cp < 65536 THEN <<224 + cp \div 4096, mid, low>>
      ELSE <<240 + cp \div 262144, high, mid, low>>

=============================================================================
