------------------------------ MODULE Unicode ------------------------------
(***************************************************************************)
(* c/rt/utf.c: strings of UTF-8 and of UTF-16, with the characters of Utf8.*)
(***************************************************************************)
EXTENDS Utf8, SequencesExt

RECURSIVE Decoded(_)
Decoded(s) ==
  IF s = <<>> THEN <<>>
  ELSE LET d == mv_utf8_decode(s) IN <<d.cp>> \o Decoded(SubSeq(s, d.len + 1, Len(s)))

Units(cp) ==
  IF cp > 65535 THEN <<55296 + (cp - 65536) \div 1024, 56320 + ((cp - 65536) % 1024)>>
  ELSE <<cp>>

mv_utf16_len(s) == Len(FlattenSeq([i \in DOMAIN Decoded(s) |-> Units(Decoded(s)[i])]))

\* Whole groups while they and the terminator fit in cap; the first that does
\* not ends the conversion.  Fault: a group may take the terminator's place.
Fitting_tight(groups, cap) ==
  LET Put(o, g) == IF o.full \/ Len(o.out) + Len(g) > cap THEN [o EXCEPT !.full = TRUE]
                   ELSE [o EXCEPT !.out = @ \o g]
  IN  FoldLeft(Put, [out |-> <<>>, full |-> FALSE], groups).out
Fitting(groups, cap) ==
  LET Put(o, g) == IF o.full \/ Len(o.out) + Len(g) >= cap THEN [o EXCEPT !.full = TRUE]
                   ELSE [o EXCEPT !.out = @ \o g]
  IN  FoldLeft(Put, [out |-> <<>>, full |-> FALSE], groups).out

mv_utf8_to_utf16(s, cap) ==
  LET cps == Decoded(s) IN Fitting([i \in DOMAIN cps |-> Units(cps[i])], cap)

\* The code points of a string of units: a pair is one, a lone half is replaced.
RECURSIVE WideDecoded(_)
WideDecoded(w) ==
  IF w = <<>> THEN <<>>
  ELSE LET u == w[1] IN
    IF HighSurrogate(u) /\ Len(w) > 1 /\ LowSurrogate(w[2])
      THEN <<65536 + (u - 55296) * 1024 + (w[2] - 56320)>> \o WideDecoded(SubSeq(w, 3, Len(w)))
      ELSE <<IF Surrogate(u) THEN MV_REPLACEMENT ELSE u>> \o WideDecoded(Tail(w))

mv_utf16_to_utf8(w, cap) ==
  LET cps == WideDecoded(w) IN Fitting([i \in DOMAIN cps |-> mv_utf8_encode(cps[i])], cap)

=============================================================================
