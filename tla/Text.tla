-------------------------------- MODULE Text -------------------------------
(***************************************************************************)
(* Calls of the runtime's text and POSIX functions: strings in memory,     *)
(* words of a command line, options, the clock's text.                     *)
(***************************************************************************)
EXTENDS Caller, Posix, Stamps

\* What the functions that write leave in memory; strxfrm's length is its own.
Written(c) ==
  CASE c.op = "memcpy" -> memcpy(c.m, c.d, c.s, c.n)
    [] c.op = "memmove" -> memmove(c.m, c.d, c.s, c.n)
    [] c.op = "memset" -> memset(c.m, c.d, c.m[c.s], c.n)
    [] c.op = "strcpy" -> strcpy(c.m, c.d, c.s)
    [] c.op = "strncpy" -> strncpy(c.m, c.d, c.s, c.n)
    [] c.op = "strcat" -> strcat(c.m, c.d, c.s)
    [] c.op = "strncat" -> strncat(c.m, c.d, c.s, c.n)
    [] c.op = "strxfrm" -> strxfrm(c.m, c.d, c.s, c.n).mem

\* Two strings a and b laid out one after the other.
Pair(c) == Laid(<<c.a, c.b>>)
SecondOf(c) == Len(c.a) + 2

Copy == Returns("copy", Written(call))
Compare ==
  LET m == Pair(call)  b == SecondOf(call)  n == call.n IN
  Returns("compare", [strcmp |-> strcoll(m, 1, b), strncmp |-> strncmp(m, 1, b, n),
                      memcmp |-> memcmp(m, 1, b, Min({n, Len(call.a), Len(call.b)})),
                      strcasecmp |-> strcasecmp(m, 1, b),
                      strncasecmp |-> strncasecmp(m, 1, b, n)])
Find ==
  LET m == Pair(call)  b == SecondOf(call) IN
  Returns("find", [strstr |-> strstr(m, 1, b), strspn |-> strspn(m, 1, b),
                   strcspn |-> strcspn(m, 1, b), strpbrk |-> strpbrk(m, 1, b),
                   strchr |-> strchr(m, 1, m[b]), strrchr |-> strrchr(m, 1, m[b]),
                   memchr |-> memchr(m, 1, m[b], Len(call.a))])
Tokenise == Returns("tokens", strtok(Pair(call), 1, SecondOf(call)))
Args == Returns("args", mv_args(Laid(<<call.a>>), call.eax, call.max))
Getopt == Returns("getopt", Parsed(call.argv, call.optstring, 12))
Getcwd == Returns("getcwd", getcwd(call.null, call.path, call.size, call.eax))
Strftime ==
  LET tz == tz_offset_minutes([eax |-> 0, text |-> call.zone])
      t  == time([eax |-> 0, sec |-> call.secs])
  IN  Returns("strftime", strftime(call.size, call.fmt, localtime(t, tz), tz))
Difftime == Returns("difftime", difftime(call.a, call.b))

TextNext == \/ Copy \/ Compare \/ Find \/ Tokenise \/ Args \/ Getopt
            \/ Getcwd \/ Strftime \/ Difftime

-----------------------------------------------------------------------------
(* Strings *)

\* The bytes a copying function is to leave at its destination.
Owed(c) ==
  LET Cut(s) == SubSeq(s, 1, IF Len(s) < c.n THEN Len(s) ELSE c.n) IN
  CASE c.op \in {"memcpy", "memmove"} -> SubSeq(c.m, c.s, c.s + c.n - 1)
    [] c.op = "memset" -> [i \in 1 .. c.n |-> c.m[c.s]]
    [] c.op = "strcpy" -> StrAt(c.m, c.s) \o <<0>>
    [] c.op = "strncpy" -> Cut(StrAt(c.m, c.s) \o [i \in 1 .. c.n |-> 0])
    [] c.op = "strcat" -> StrAt(c.m, c.d) \o StrAt(c.m, c.s) \o <<0>>
    [] c.op = "strncat" -> StrAt(c.m, c.d) \o Cut(StrAt(c.m, c.s)) \o <<0>>
    [] c.op = "strxfrm" -> Kept(StrAt(c.m, c.s), c.n) \o (IF c.n > 0 THEN <<0>> ELSE <<>>)

\* string.c:28-31 and 161-186: a copy leaves exactly the bytes the source held, with
\* the terminator and the padding C requires, and no byte outside its destination is
\* touched: memmove on regions that overlap either way, strncpy and strncat at and
\* around the length where they cut.  posix.c:218-250: getcwd copies the whole path and
\* its terminator into a buffer that has room for both, and else touches nothing.
CopiesExactly ==
  /\ Returned("copy") =>
       LET bytes == Owed(call) IN
       \A a \in DOMAIN call.m :
         result[a] = IF call.d <= a /\ a < call.d + Len(bytes)
                     THEN bytes[a - call.d + 1] ELSE call.m[a]
  /\ Returned("getcwd") =>
       IF ~call.null /\ call.eax >= 0 /\ Len(call.path) < call.size
       THEN result = [errno |-> 0, buf |-> call.path \o <<0>>]
       ELSE result.errno # 0 /\ result.buf = <<>>

\* string.c:84-124, 210-249 and 325-353: comparing orders strings as sequences of
\* bytes (strcasecmp with the letters folded and bytes above 127 below the letters;
\* strncasecmp agrees with it on ASCII), and searching finds the first place there is.
StringsAgree ==
  /\ Returned("compare") =>
       LET Cut(s) == SubSeq(s, 1, IF Len(s) < call.n THEN Len(s) ELSE call.n)
           Lower(s) == [i \in DOMAIN s |-> Folded(s[i])]
           ascii == \A i \in DOMAIN (call.a \o call.b) : (call.a \o call.b)[i] < 128
       IN  /\ Sgn(result.strcmp) = LexOrder(call.a, call.b)
           /\ Sgn(result.strncmp) = LexOrder(Cut(call.a), Cut(call.b))
           /\ call.n <= Len(call.a) /\ call.n <= Len(call.b) => Sgn(result.memcmp) = Sgn(result.strncmp)
           /\ Sgn(result.strcasecmp) = LexOrder(Lower(call.a), Lower(call.b))
           /\ ascii => Sgn(result.strncasecmp) = LexOrder(Lower(Cut(call.a)), Lower(Cut(call.b)))
  /\ Returned("find") =>
       LET a == call.a  b == call.b
           First(S) == IF S = {} THEN NULL ELSE CHOOSE i \in S : \A j \in S : i <= j
           hits == {i \in 1 .. Len(a) : IsPrefix(b, SubSeq(a, i, Len(a)))}
           within == {i \in 1 .. Len(a) : a[i] \in ToSet(b)}
       IN  /\ result.strstr = IF b = <<>> THEN 1 ELSE First(hits)
           /\ result.strpbrk = First(within)
           /\ result.strcspn = IF within = {} THEN Len(a) ELSE First(within) - 1
           /\ SubSeq(a, 1, result.strspn) \in Seq(ToSet(b))
           /\ result.strspn < Len(a) => a[result.strspn + 1] \notin ToSet(b)
           /\ b # <<>> =>
                /\ result.strchr = First({i \in 1 .. Len(a) : a[i] = b[1]})
                /\ result.memchr = result.strchr
                /\ result.strrchr = LET r == First({i \in 1 .. Len(a) : Reverse(a)[i] = b[1]})
                                    IN  IF r = NULL THEN NULL ELSE Len(a) + 1 - r

\* string.c:251-279 and args.c:25-36: strtok called until it gives NULL, and mv_args,
\* cut a text into its maximal runs without separators, in order and each ended by a
\* zero; strtok leaves the separators after a token's own in place.  A command line
\* with more words than argv has room for keeps the rest of the line, unsplit, in its
\* last word; one the kernel does not give has no words.
WordsAreRuns ==
  /\ Returned("tokens") =>
       LET starts == RunStarts(call.a, ToSet(call.b)) IN
       /\ ToSet(result.tokens) = starts /\ Len(result.tokens) = Cardinality(starts)
       /\ \A i, j \in DOMAIN result.tokens : i < j => result.tokens[i] < result.tokens[j]
       /\ \A i \in starts : StrAt(result.mem, i) = RunFrom(call.a, i, ToSet(call.b))
  /\ Returned("args") =>
       LET starts == RunStarts(call.a, Blank)  argv == result.argv IN
       /\ Len(argv) = IF call.eax < 0 THEN 0 ELSE Min({Cardinality(starts), call.max - 1})
       /\ \A i, j \in DOMAIN argv : i < j => argv[i] < argv[j]
       /\ \A i \in DOMAIN argv :
            /\ Cardinality({s \in starts : s < argv[i]}) = i - 1 /\ argv[i] \in starts
            /\ StrAt(result.mem, argv[i]) =
                 IF i = call.max - 1 THEN SubSeq(call.a, argv[i], Len(call.a))
                 ELSE RunFrom(call.a, argv[i], Blank)

-----------------------------------------------------------------------------
(* The command line's options *)

Takes(spec, c) == \E i \in 1 .. Len(spec) - 1 : spec[i] = c /\ spec[i + 1] = ":"
Letter(spec, c, arg) == [ret |-> IF c \in ToSet(spec) \ {":"} THEN c ELSE "?", arg |-> arg]

\* A command line as POSIX reads it: the options in order, each with its argument,
\* and the operands in order.  `ends': an option with an argument, or "--", is among
\* the words; `late': one comes after an operand.
RECURSIVE Reading(_, _, _)
Reading(v, spec, plus) ==
  IF v = <<>> THEN [out |-> <<>>, operands |-> <<>>, ends |-> FALSE, late |-> FALSE]
  ELSE IF v[1] = <<"-", "-">>
    THEN [out |-> <<>>, operands |-> Tail(v), ends |-> TRUE, late |-> FALSE]
  ELSE IF ~IsOption(v[1])
    THEN IF plus THEN [out |-> <<>>, operands |-> v, ends |-> FALSE, late |-> FALSE]
         ELSE LET r == Reading(Tail(v), spec, plus)
              IN  [r EXCEPT !.operands = <<v[1]>> \o @, !.late = @ \/ r.ends]
  ELSE LET word == Tail(v[1])  c == Last(word)  bare == Len(v) = 1
           arg  == IF Takes(spec, c) /\ ~bare THEN v[2] ELSE NoArg
           rest == SubSeq(v, IF arg = NoArg THEN 2 ELSE 3, Len(v))
           last == IF Takes(spec, c) /\ bare THEN [ret |-> "?", arg |-> NoArg]
                   ELSE Letter(spec, c, arg)
           r    == Reading(rest, spec, plus)
       IN  [r EXCEPT !.out = [i \in 1 .. Len(word) - 1 |-> Letter(spec, word[i], NoArg)]
                               \o <<last>> \o @,
                     !.ends = @ \/ Takes(spec, c)]

\* posix.c:430-433 and 442-470: getopt called until it answers -1 reads the options
\* of a line as POSIX does, clustered or apart, before operands or after them, and
\* leaves the operands, in their order, from optind on; "--" and the `+' prefix end
\* the options where they say.  It does not hold of an argument attached to its option,
\* nor of "--" or an option with an argument that follows an operand.
OptionsRead ==
  Returned("getopt") =>
    LET attached == \E i \in DOMAIN call.argv : \E j \in 2 .. Len(call.argv[i]) - 1 :
                      Takes(call.optstring, call.argv[i][j])
        plus == call.optstring[1] = "+"
        spec == IF plus THEN Tail(call.optstring) ELSE call.optstring
        r    == Reading(call.argv, spec, plus)
    IN  ~attached /\ ~r.late =>
          /\ result.done /\ result.out = r.out
          /\ SubSeq(result.argv, result.optind, Len(result.argv)) = r.operands

-----------------------------------------------------------------------------
(* The clock *)

Field2(buf, i) == Decimal(SubSeq(buf, i, i + 1), 0)

\* time.c:48-80, 185-202 and 223-334: what strftime writes in the zone the Sett's
\* text gives reads back as the moment formatted, with the 24-hour clock and the zone
\* or with the 12-hour clock and the day of the year; a buffer too small answers 0
\* and keeps the text's head and the terminator.  difftime saturates where the
\* difference leaves the range.
StampReadsBack ==
  /\ Returned("strftime") =>
       LET buf   == result.buf
           zone  == (IF buf[22] = "-" THEN -1 ELSE 1) * (60 * Field2(buf, 23) + Field2(buf, 26))
           date  == Date(Decimal(SubSeq(buf, 1, 4), 0), Field2(buf, 6), Field2(buf, 9))
           tz    == tz_offset_minutes([eax |-> 0, text |-> call.zone])
           half  == (Field2(buf, 10) % 12) + (IF buf[19] = "PM" THEN 12 ELSE 0)
           jan1  == Date(Decimal(SubSeq(buf, 1, 4), 0), 1, 1)
       IN  /\ Len(buf) < call.size \/ buf = <<>>
           /\ result.returned \in {0, Len(buf)}
           /\ (result.returned = 0) <=> Len(Expanded(call.fmt, localtime(call.secs, tz), tz)) >= call.size
           /\ result.returned # 0 /\ call.style = "24" =>
                86400 * days_from_civil(date) + 3600 * Field2(buf, 12) + 60 * Field2(buf, 15)
                  + Field2(buf, 18) - 60 * zone = call.secs
           /\ result.returned # 0 /\ call.style = "12" =>
                /\ Field2(buf, 10) \in 1 .. 12
                /\ 86400 * (days_from_civil(jan1) + Decimal(SubSeq(buf, 6, 8), 0) - 1)
                  + 3600 * half + 60 * Field2(buf, 13) + Field2(buf, 16) - 60 * tz = call.secs
  /\ Returned("difftime") =>
       LET exact == call.a - call.b  half == Word \div 2 IN
       IF -half <= exact /\ exact < half THEN result = exact
       ELSE result \in {-half, half - 1} /\ (result < 0 <=> exact < 0)

=============================================================================
