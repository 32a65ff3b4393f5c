-------------------------------- MODULE Libc -------------------------------
(***************************************************************************)
(* Calls of the C runtime's algorithms (c/rt): sorting, the calendar,      *)
(* Unicode, the formatter.  The properties compare what they return with a *)
(* definition that is not the algorithm.                                   *)
(***************************************************************************)
EXTENDS Caller, Sorting, Calendar, Unicode, Numbers

Elements(keys) == [i \in DOMAIN keys |-> Element(keys[i], i)]

Qsort == Returns("qsort", qsort(Elements(call.keys), call.memory))
Bsearch == Returns("bsearch", bsearch(call.key, Elements(call.keys)))
Civil == Returns("civil", civil_from_days(call.days))
Local == Returns("local", localtime(call.secs, call.tz))
Decode == Returns("decode", mv_utf8_decode(call.bytes))
Widen == Returns("widen", mv_utf8_to_utf16(call.bytes, call.cap))
Narrow == Returns("narrow", mv_utf16_to_utf8(call.units, call.cap))
Format == Returns("format", vsnprintf(Converted(call.conv, call.v, call.flags), call.cap))
Console == Returns("console", console_write(call.text, call.room))

LibcNext == \/ Qsort \/ Bsearch \/ Civil \/ Local \/ Decode \/ Widen \/ Narrow
            \/ Format \/ Console

-----------------------------------------------------------------------------
(* Sorting and searching *)

\* stdlib.c:8-13: the array qsort leaves is the caller's elements, each once, in
\* order, "and keeps equal elements in the order they arrived", with the scratch
\* buffer (any number of passes, a last run shorter than the others) and without.
\* bsearch on a sorted array of any length finds an element equal to the key exactly
\* when there is one, however often the halves come out uneven.
SortedStable ==
  /\ Returned("qsort") =>
       /\ Len(result.out) = Len(call.keys)
       /\ \A i \in DOMAIN result.out :
            result.out[i].key = call.keys[result.out[i].from]
       /\ \A i, j \in DOMAIN result.out : i < j =>
            \/ result.out[i].key < result.out[j].key
            \/ result.out[i].key = result.out[j].key /\ result.out[i].from < result.out[j].from
  /\ Returned("bsearch") =>
       LET hits == {i \in DOMAIN call.keys : call.keys[i] = call.key}
       IN  IF hits = {} THEN result = 0 ELSE result \in hits

\* stdlib.c:8-9: "The caller's array is one it owns and the extra memory is a single
\* allocation": what qsort frees at its end is that allocation.
FreesScratch == Returned("qsort") => result.freed \in {"nothing", "scratch"}

-----------------------------------------------------------------------------
(* The calendar *)

\* time.c:4-5: civil_from_days counts the dates of the Gregorian calendar: day 0 is
\* 1 January 1970, the next day has the next date by the leap-year rules (the ends
\* of months, years, centuries and 400 years included), and days_from_civil is its
\* inverse.
CountsTheCalendar ==
  Returned("civil") =>
    /\ call.days = 0 => result = Date(1970, 1, 1)
    /\ civil_from_days(call.days + 1) = NextDate(result)
    /\ days_from_civil(result) = call.days

\* time.c:6: "mktime(localtime(t)) is t", before 1970 and on either side of midnight
\* in every zone; the broken-down time names a second of a day, the weekday follows
\* a Thursday at day 0, and yday counts from the year's first day.
MktimeInverts ==
  Returned("local") =>
    /\ mktime(result, call.tz) = call.secs
    /\ result.hour \in 0 .. 23 /\ result.min \in 0 .. 59 /\ result.sec \in 0 .. 59
    /\ result.wday = (days_from_civil(result.date) + 4) % 7
    /\ result.yday \in 0 .. (IF Leap(result.date.year) THEN 365 ELSE 364)

-----------------------------------------------------------------------------
(* Unicode *)

\* utf.c:10-14 and 57: whatever the bytes, mv_utf8_decode makes progress and stays
\* inside the string, and it returns a code point of several bytes exactly when those
\* bytes are how that code point is encoded: no overlong form, no surrogate, nothing
\* past U+10FFFF, no truncated sequence.
DecodesWhatIsEncoded ==
  Returned("decode") =>
    /\ result.len \in 1 .. Len(call.bytes)
    /\ Scalar(result.cp)
    /\ result # Malformed => mv_utf8_encode(result.cp) = SubSeq(call.bytes, 1, result.len)
    /\ result = Malformed =>
         ~ \E n \in 1 .. Len(call.bytes), cp \in call.candidates :
             SubSeq(call.bytes, 1, n) = mv_utf8_encode(cp)

\* utf.c:8-12 and 122-126: a conversion either way fits its buffer with the
\* terminator, keeps a pair whole, and gives back the text it was made from, up to
\* the character that no longer fits; with room enough mv_utf16_len predicts it.
WholeCharacters ==
  /\ Returned("widen") =>
       LET cps == WideDecoded(result) IN
       /\ Len(result) < call.cap
       /\ IsPrefix(cps, Decoded(call.bytes))
       /\ mv_utf16_len(call.bytes) < call.cap =>
            cps = Decoded(call.bytes) /\ Len(result) = mv_utf16_len(call.bytes)
  /\ Returned("narrow") =>
       LET cps == Decoded(result) IN
       /\ Len(result) < call.cap
       /\ IsPrefix(cps, WideDecoded(call.units))
       /\ \A i \in DOMAIN cps : Scalar(cps[i])
       /\ 4 * Len(call.units) < call.cap => cps = WideDecoded(call.units)

-----------------------------------------------------------------------------
(* The formatter *)

Base(conv) == CASE conv \in {"d", "u"} -> 10 [] conv = "o" -> 8 [] OTHER -> 16
Greater(a, b) == IF a > b THEN a ELSE b

\* The numeral of v, place by place: the shortest one, at least a digit.
Numeral(v, base, digits) ==
  LET n == CHOOSE k \in 1 .. Word : base ^ k > v /\ (k = 1 \/ base ^ (k - 1) <= v)
  IN  [i \in 1 .. n |-> digits[((v \div base ^ (n - i)) % base) + 1]]

\* What stands before it: a sign, or the mark of the base.
Lead(conv, v, f) ==
  CASE conv = "d" /\ v >= Word \div 2 -> <<"-">>
    [] conv = "d" /\ v < Word \div 2 /\ f.plus -> <<"+">>
    [] conv = "d" /\ v < Word \div 2 /\ ~f.plus /\ f.space -> <<" ">>
    [] conv = "o" /\ f.alt -> <<"0">>
    [] conv \in {"x", "X"} /\ f.alt -> <<"0", conv>>
    [] OTHER -> <<>>

\* The field of a conversion as the comment at stdio.c:577-580 lays it out: at least
\* `precision' digits, at least `width' characters, the room filled with zeros after
\* the lead, or with blanks outside, on the right when left-justified.  Zeros asked
\* for together with a precision fill nothing: the width is not kept then.
Layout(conv, v, f) ==
  LET num    == Numeral(IF conv = "d" /\ v >= Word \div 2 THEN Word - v ELSE v,
                        Base(conv), IF conv = "X" THEN High ELSE Low)
      lead   == Lead(conv, v, f)
      zeroed == f.pad = "0" /\ ~f.left
      digits == Greater(Greater(Len(num), f.precision),
                        IF zeroed /\ f.precision = 0 THEN f.width - Len(lead) ELSE 0)
      size   == Greater(Len(lead) + digits, IF zeroed /\ f.precision # 0 THEN 0 ELSE f.width)
      start  == IF f.left THEN 0 ELSE size - Len(lead) - digits
      At(i)  == CASE i \in 1 .. Len(lead) -> lead[i]
                  [] i \in Len(lead) + 1 .. Len(lead) + digits - Len(num) -> "0"
                  [] i \in Len(lead) + digits - Len(num) + 1 .. Len(lead) + digits ->
                       num[i - Len(lead) - digits + Len(num)]
                  [] OTHER -> " "
  IN  [i \in 1 .. size |-> At(i - start)]

\* A buffer of cap bytes after the formatter wrote text: the head that leaves room
\* for the terminator, and the length of it all.
Fits(text, cap, res) ==
  /\ Len(res.buf) = (IF Len(text) < cap THEN Len(text) ELSE cap - 1)
  /\ IsPrefix(res.buf, text)
  /\ res.returned = Len(text)

\* Every line feed with its carriage return.
Ended(text) ==
  FlattenSeq([i \in DOMAIN text |-> IF text[i] = "\n" THEN <<"\r", "\n">> ELSE <<text[i]>>])

\* stdio.c:577-580 and stdlib.c:46-83: a conversion fills the field its flags, width
\* and precision describe, at both ends of the word (the least integer, whose
\* magnitude is not one); strtol reads the number back in its base, and finds the
\* base for itself with `#'.  stdio.c:552-563 and 778-787: a text too long for the
\* buffer keeps its head and the terminator inside it, and its length is returned.
\* stdio.c:33 and 63-83: a chunk of the formatter reaches descriptor 1 whole, every
\* line feed with its carriage return, and otherwise the console, up to a NUL; the
\* terminator stays inside crlf unless all OUT_CHUNK bytes are line feeds.  A longer
\* text, which fwrite may hand over, is cut but never changed.
PrintParse ==
  /\ Returned("format") =>
       LET text == Layout(call.conv, call.v, call.flags) IN
       /\ Fits(text, call.cap, result)
       /\ result.returned < call.cap =>
            /\ strtol(result.buf, Base(call.conv)) = Signed(call.v)
            /\ call.flags.alt /\ call.conv \in {"o", "x", "X"} => strtol(result.buf, 0) = Signed(call.v)
  /\ Returned("console") =>
       LET text == Ended(call.text)
           nuls == {i \in DOMAIN text : text[i] = "NUL"}
       IN  /\ IsPrefix(result.fd1, text) /\ IsPrefix(result.printed, text)
           /\ Len(call.text) <= OUT_CHUNK =>
                /\ \/ result.fd1 = text /\ result.printed = <<>>
                   \/ \A i \in DOMAIN text : i > Len(result.printed) => \E j \in nuls : j <= i
                /\ \/ result.nul_at < CRLF_LEN
                   \/ Len(call.text) = OUT_CHUNK /\ \A i \in DOMAIN call.text : call.text[i] = "\n"

=============================================================================
