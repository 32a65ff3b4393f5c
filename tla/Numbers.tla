------------------------------ MODULE Numbers ------------------------------
(***************************************************************************)
(* Numbers and text: the formatter of c/rt/stdio.c (out_number, the        *)
(* integer conversions of format_into, the console's line endings) and     *)
(* strtol of c/rt/stdlib.c.  A character is a string of one.               *)
(***************************************************************************)
EXTENDS Integers, Sequences, SequencesExt

CONSTANTS Word,          \* 2^32 in the code: the range of an unsigned long
          OUT_CHUNK      \* the formatter's buffer, 256 in the code
ASSUME WordAssumption == Word \in Nat /\ Word % 2 = 0 /\ OUT_CHUNK \in Nat \ {0}

Low == <<"0", "1", "2", "3", "4", "5", "6", "7", "8", "9", "a", "b", "c", "d", "e", "f">>
High == SubSeq(Low, 1, 10) \o <<"A", "B", "C", "D", "E", "F">>
Repeat(c, n) == [i \in 1 .. n |-> c]
Over(a, b) == IF a > b THEN a - b ELSE 0

Signed(v) == IF v >= Word \div 2 THEN v - Word ELSE v

RECURSIVE Digits(_, _, _)
Digits(magnitude, base, digits) ==
  (IF magnitude < base THEN <<>> ELSE Digits(magnitude \div base, base, digits))
    \o <<digits[(magnitude % base) + 1]>>

\* f = [width, precision, pad, left, plus, space, alt], the flags format_into read.
ZeroPadded(prefix, zeros, digits) == prefix \o zeros \o digits

out_number(magnitude, prefix, base, digits, f) ==
  LET text  == Digits(magnitude, base, digits)
      zeros == Over(f.precision, Len(text))
      room  == Over(f.width, Len(text) + zeros + Len(prefix))
      fill  == IF ~f.left /\ f.pad = "0" /\ f.precision = 0 THEN room ELSE 0
  IN  (IF ~f.left /\ f.pad = " " THEN Repeat(" ", room) ELSE <<>>)
        \o ZeroPadded(prefix, Repeat("0", fill + zeros), text)
        \o (IF f.left THEN Repeat(" ", room) ELSE <<>>)

Sign(v, f) ==
  IF Signed(v) < 0 THEN <<"-">> ELSE IF f.plus THEN <<"+">>
  ELSE IF f.space THEN <<" ">> ELSE <<>>

\* What format_into writes for one conversion of the word v.
Converted(conv, v, f) ==
  LET Alt(p) == IF f.alt THEN p ELSE <<>> IN
  CASE conv = "d" -> out_number(IF Signed(v) < 0 THEN -Signed(v) ELSE v, Sign(v, f), 10, Low, f)
    [] conv = "u" -> out_number(v, <<>>, 10, Low, f)
    [] conv = "o" -> out_number(v, Alt(<<"0">>), 8, Low, f)
    [] conv = "x" -> out_number(v, Alt(<<"0", "x">>), 16, Low, f)
    [] conv = "X" -> out_number(v, Alt(<<"0", "X">>), 16, High, f)

\* What a buffer of `cap' bytes holds after the formatter: out_char drops what does
\* not fit and counts it, and the terminator goes after the last byte kept.
Kept(text, cap) == SubSeq(text, 1, IF Len(text) < cap THEN Len(text) ELSE cap - 1)
vsnprintf(text, cap) == [buf |-> Kept(text, cap), returned |-> Len(text)]

\* console_write: a line feed becomes CR LF in crlf, of 2 * OUT_CHUNK bytes; the NUL
\* goes to crlf[k], wherever that is; what descriptor 1 does not take whole (it
\* takes `room' bytes at most; -1: an error) mv_print shows from its start to a NUL.
CRLF_LEN == 2 * OUT_CHUNK
UpToNul(s) == SelectInSeq(s, LAMBDA c : c = "NUL")
CrLf(s) ==
  LET Put(k, c) == IF c = "\n" /\ Len(k) + 1 < CRLF_LEN THEN k \o <<"\r", "\n">>
                   ELSE IF Len(k) < CRLF_LEN - 1 THEN Append(k, c) ELSE k
  IN  FoldLeft(Put, <<>>, s)
mv_print(s) == IF UpToNul(s) = 0 THEN s ELSE SubSeq(s, 1, UpToNul(s) - 1)
console_write(s, room) ==
  LET crlf == CrLf(s)
      took == IF room < Len(crlf) THEN room ELSE Len(crlf)
  IN
  [fd1     |-> SubSeq(crlf, 1, took),
   printed |-> IF took # Len(crlf) THEN mv_print(crlf) ELSE <<>>,
   nul_at  |-> Len(crlf)]

digit_value(c) ==
  IF \E d \in 1 .. 16 : c \in {Low[d], High[d]}
  THEN (CHOOSE d \in 1 .. 16 : c \in {Low[d], High[d]}) - 1 ELSE 99

CharAt(s, i) == IF i <= Len(s) THEN s[i] ELSE "NUL"
RECURSIVE skip_space(_)
skip_space(s) == IF CharAt(s, 1) \in {" ", "\t", "\n", "\r", "\f"} THEN skip_space(Tail(s)) ELSE s

\* The base and the text left once the prefix is read.
Based(p, base) ==
  LET zero == CharAt(p, 1) = "0"
      hex  == zero /\ CharAt(p, 2) \in {"x", "X"} /\ digit_value(CharAt(p, 3)) < 16
  IN  IF base \in {0, 16} /\ hex THEN [base |-> 16, text |-> SubSeq(p, 3, Len(p))]
      ELSE [base |-> IF base # 0 THEN base ELSE IF zero THEN 8 ELSE 10, text |-> p]

RECURSIVE Value(_, _, _)
Value(p, base, value) ==
  IF digit_value(CharAt(p, 1)) >= base THEN value
  ELSE Value(Tail(p), base, (value * base + digit_value(p[1])) % Word)

strtol(s, base) ==
  LET p        == skip_space(s)
      signed   == CharAt(p, 1) \in {"+", "-"}
      b        == Based(IF signed THEN Tail(p) ELSE p, base)
      value    == Value(b.text, b.base, 0)
  IN  Signed(IF CharAt(p, 1) = "-" THEN (Word - value) % Word ELSE value)

=============================================================================
