------------------------------- MODULE MCLibc ------------------------------
(***************************************************************************)
(* The arguments Libc is checked with: every small array, the days and     *)
(* moments around the calendar's turning points, byte strings made of the  *)
(* bytes at the edges of UTF-8's ranges, every word of eight bits, strings *)
(* laid out to overlap or to end where a copy is cut, short command lines. *)
(***************************************************************************)
EXTENDS Libc, Text, Packages, Samples, EchoServer, Runtime, Printf

Next == \/ LibcNext \/ TextNext \/ PackagesNext \/ SamplesNext
          \/ EchoNext \/ RuntimeNext \/ PrintfNext
Spec == Init /\ [][Next]_vars

Arrays == UNION {[1 .. n -> 1 .. 3] : n \in 0 .. 5} \cup {<<2, 1, 2, 1, 3, 1, 2, 1, 1>>}
Sorts(memory) == [fn : {"qsort"}, keys : Arrays, memory : memory]
MallocSorts == Sorts({TRUE})

Rising == {a \in UNION {[1 .. n -> 1 .. 5] : n \in 0 .. 5} :
             \A i, j \in DOMAIN a : i < j => a[i] <= a[j]}
Searches == [fn : {"bsearch"}, keys : Rising, key : 0 .. 6]

\* 1600-02-28, 1900-02-28, 1970, 2000-02-28, 2038 and 2100-02-28, the era's ends
Turns == {-135081, -25510, 0, 11015, 24855, 47540, -719468, -719468 - 146097, 146097 - 719468}
Days == [fn : {"civil"}, days : UNION {(t - 70) .. (t + 70) : t \in Turns} \cup (365 .. 1900)]

Moments == {86400 * d + s : d \in {-24000, -366, -1, 0, 1, 59, 60, 789, 11016, 24800},
                            s \in {-1, 0, 1, 3599, 43200}}
Times == [fn : {"local"}, secs : Moments, tz : {-720, -1, 0, 60, 330, 840}]

EdgeBytes == {1, 65, 127, 128, 143, 144, 159, 160, 191, 192, 193, 194, 223, 224, 237, 239,
              240, 244, 245, 255}
EdgePoints == {1, 65, 127, 128, 2047, 2048, 55295, 57344, 65533, 65535, 65536, 1114111}
ByteStrings == UNION {[1 .. n -> EdgeBytes] : n \in 1 .. 3}
                 \cup [1 .. 4 -> {65, 128, 143, 144, 191, 240, 244}]
Decodes == [fn : {"decode"}, bytes : ByteStrings, candidates : {EdgePoints}]

Chars == {mv_utf8_encode(cp) : cp \in EdgePoints} \cup {<<>>, <<240, 144>>, <<193>>}
Widens == [fn : {"widen"}, bytes : {x \o y : x, y \in Chars}, cap : 1 .. 6]
EdgeUnits == {65, 128, 2048, 55296, 56319, 56320, 57343, 65535}
Narrows == [fn : {"narrow"}, units : UNION {[1 .. n -> EdgeUnits] : n \in 0 .. 3},
            cap : {1, 2, 4, 5, 9, 13}]

Flags == [width : {0, 6}, precision : {0, 1, 5}, pad : {" ", "0"}, left : BOOLEAN,
          plus : BOOLEAN, space : BOOLEAN, alt : BOOLEAN]
Formats == [fn : {"format"}, conv : {"d", "u", "o", "x", "X"},
            v : {0, 1, 7, 8, 15, 16, 100, 127, 128, 129, 255}, flags : Flags, cap : {1, 4, 12}]
Consoles == [fn : {"console"}, text : UNION {[1 .. n -> {"a", "\n", "NUL"}] : n \in 1 .. OUT_CHUNK}, room : {-1, 1, CRLF_LEN}]
              \cup [fn : {"console"}, text : UNION {[1 .. n -> {"a", "\n"}] : n \in OUT_CHUNK + 1 .. 2 * OUT_CHUNK + 1}, room : {CRLF_LEN}]

Strs(chars, n) == UNION {[1 .. k -> chars] : k \in 0 .. n}
Moves == [fn : {"copy"}, op : {"memmove", "memset"}, m : {<<1, 2, 3, 4, 5, 6, 7>>},
          d : 1 .. 4, s : 1 .. 4, n : 0 .. 4]
\* d holds a string and room behind it, s the string copied.
Arena == {d \o <<0>> \o <<9, 9, 9, 9, 9, 9, 9>> \o s \o <<0>> : d \in {<<>>, <<7>>, <<7, 8>>},
                                                            s \in Strs({5, 6}, 3)}
StringMoves == UNION {[fn : {"copy"}, op : {"memcpy", "strcpy", "strncpy", "strcat", "strncat", "strxfrm"},
                       m : {m}, d : {1},
                       s : {Max({i \in DOMAIN m : m[i] = 9}) + 1}, n : 1 .. 4] : m \in Arena}
Fitted == {c \in StringMoves : c.op = "memcpy" => c.s + c.n - 1 <= Len(c.m)}

Compares == [fn : {"compare"}, a : Strs({65, 97, 66, 200}, 2), b : Strs({65, 97, 66, 200}, 2), n : 0 .. 3]
Finds == [fn : {"find"}, a : Strs({65, 66, 67}, 4), b : Strs({65, 66}, 2)]
Tokenisings == [fn : {"tokens"}, a : Strs({65, 44, 32}, 5), b : {<<>>, <<44>>, <<32, 44>>}]
Lines == [fn : {"args"}, a : Strs({65, 32, 9}, 6), eax : {-1, 0}, max : 1 .. 4]

Words == {<<"-">>, <<"-", "-">>, <<"-", "l">>, <<"-", "l", "w">>, <<"-", "n">>, <<"-", "l", "n">>,
          <<"-", "z">>, <<"-", "n", "l">>, <<"f">>, <<"g">>}
Getopts == [fn : {"getopt"}, argv : Strs(Words, 4),
            optstring : {<<"l", "w">>, <<"n", ":", "l">>, <<"+", "n", ":", "l">>}]

Cwds == [fn : {"getcwd"}, null : BOOLEAN, path : Strs({65}, 4) \ {<<>>}, size : 0 .. 5, eax : {-1, 0}]

Stamp24 == <<"%", "Y", "-", "%", "m", "-", "%", "d", " ", "%", "H", ":", "%", "M", ":", "%", "S", " ", "%", "Z">>
Stamp12 == <<"%", "Y", " ", "%", "j", " ", "%", "I", ":", "%", "M", ":", "%", "S", " ", "%", "p">>
StampOf(style, fmt) ==
  [fn : {"strftime"}, style : {style}, fmt : {fmt}, size : {0, 1, 8, 19, 20, 27, 28, 40}, secs : Moments,
   zone : {<<>>, <<"6", "0">>, <<" ", "-", "9", "0">>, <<"+", "3", "3", "0">>, <<"x">>, <<"-", "7", "2", "0">>}]
Stamped == StampOf("24", Stamp24) \cup StampOf("12", Stamp12)
Differences == [fn : {"difftime"}, a : {-128, -127, -1, 0, 1, 126, 127}, b : {-128, -127, -1, 0, 1, 126, 127}]

TextCalls == Moves \cup Fitted \cup Compares \cup Finds \cup Tokenisings \cup Lines \cup Getopts
               \cup Cwds \cup Stamped \cup Differences

Vers == {<<"1">>, <<"v", "1", ".", "2">>, <<"1", ".", "2", ".", "0">>, <<"1", ".", "2", ".", "1", "0">>, <<"1", ".", "1", "0">>,
         <<"2", ".", "0", ".", "0">>, <<"1", ".", "2", ".", "0", "-", "a">>, <<"1", ".", "2", ".", "0", "-", "a", ".", "1">>,
         <<"1", ".", "2", ".", "0", "-", "b">>, <<"1", ".", "3", "-", "a">>, <<"0", ".", "9">>, <<"2", "0", "0">>}
VersionPairs == [fn : {"versions"}, a : Vers, b : Vers, others : {Vers}]

\* A list of names as its line is written: quoted or not, with or without blanks.
Quoted(names, gap) ==
  FlattenSeq([i \in DOMAIN names |-> <<"\"">> \o names[i] \o <<"\"">>
                                       \o (IF i < Len(names) THEN <<",">> \o gap ELSE gap)])
Bare(names, gap) ==
  FlattenSeq([i \in DOMAIN names |-> names[i] \o (IF i < Len(names) THEN <<",">> \o gap ELSE <<>>)])
Gaps == {<<>>, <<" ">>}
DepLists == Strs({<<"a">>, <<"b", "-">>}, 3)
ListLine(key, text) == <<" ", key, " ", "=", " ", "[">> \o text \o <<"]", " ">>
Others == <<<<"#", "deps", "=">>, <<"arch", "=", "a">>, <<>>, <<"a">>>>
MetaOf(names, text, named) ==
  [fn |-> "meta", deps |-> names, named |-> named,
   lines |-> Others \o (IF named THEN <<<<"name", "=", "\"", "a", "\"">>>> ELSE <<>>)
               \o <<ListLine("deps", text), ListLine("files", text), <<"version", " ", "=", " ", "1">>>>]
Metas == {MetaOf(n, Quoted(n, g), x) : n \in DepLists, g \in Gaps, x \in BOOLEAN}
           \cup {MetaOf(n, Bare(n, g), x) : n \in DepLists, g \in Gaps, x \in BOOLEAN}
Names == [fn : {"name"}, arg : Strs({"a", "@", "-", "/"}, 5), max : {1, 2, 4}]

Graphs3 == [fn : {"order"}, nodes : [1 .. 3 -> Strs({0, 1, 2, 3, 4}, 2)]]

RowLine(r) == r[1] \o <<TAB>> \o r[2] \o <<TAB>> \o r[3] \o <<NEWLINE>>
Rows == {<<n, v, d>> : n \in {<<65>>, <<65, 66>>}, v \in {<<49>>}, d \in {<<66>>, <<67, TAB, 67>>}}
Indexes == {[fn |-> "index", query |-> q, rows |-> <<r, s>>, lines |-> <<RowLine(r), RowLine(s)>>] :
              q \in {<<65>>, <<66>>, <<66, 66>>}, r \in Rows, s \in Rows}

PackageCalls == VersionPairs \cup Metas \cup Names \cup Graphs3 \cup Indexes

Hunts == {WumpusStart(key) : key \in 0 .. 10}
Jsons == {JsonStart(json) : json \in Strs({"\"", "\\", "{", "a", "1", " "}, 5)
                                       \cup Strs({"-", "1", "e", ","}, 5)
                                       \cup {<<"t", "r", "u", "e">>, <<"t", "r", "u">>, <<"n", "u", "l", "l", "}">>,
                                             <<"f", "a", "l", "s", "e", ",", "t">>}}
\* A line of calc as it is typed: blanks before its parts or none.
Typed(n) == IF n < 0 THEN <<"-">> \o Digits(-n, 10, Low) ELSE Digits(n, 10, Low)
Exprs == {[first |-> a, steps |-> st] :
            a \in {-7, 12}, st \in {<<>>} \cup {<<<<op, b>>>> : op \in {"+", "-", "*", "/"}, b \in {0, 2, -3}}
                                     \cup {<<<<"*", 15>>, <<op, 2>>>> : op \in {"+", "/"}}}
TypedLine(e, gap) ==
  gap \o Typed(e.first) \o FlattenSeq([i \in DOMAIN e.steps |->
                             gap \o <<e.steps[i][1]>> \o gap \o Typed(e.steps[i][2])])
Bad == [first |-> 0, steps |-> <<>>]
Calcs == {CalcStart(<<TypedLine(d, g), TypedLine(e, g), <<"q">>>>) @@ [expr |-> <<d, e>>] :
            d \in Exprs, e \in Exprs, g \in Gaps}
           \cup {CalcStart(<<<<"x">>, TypedLine(e, <<>>), <<"Q">>>>) @@ [expr |-> <<Bad, e>>] : e \in Exprs}
           \cup {CalcStart(<<<<"7", " ">>, <<"q">>, TypedLine(e, <<>>), <<"Q">>>>) @@ [expr |-> <<Bad, Bad, e>>] : e \in Exprs}
Prints == [fn : {"print"}, v : -(Word \div 2) .. Word \div 2 - 1]

SampleCalls == {BfStart, HanoiStart, EchoStart, [fn |-> "primes"]} \cup Hunts \cup Jsons \cup Calcs \cup Prints

Atexits ==
  {ExitStart(m, [h \in 1 .. 7 |-> [registers |-> IF h = 1 THEN a ELSE IF h = 2 THEN b ELSE <<>>,
                                   exits |-> h = x]]) :
     m \in {<<1, 2>>, <<2, 1>>, <<2, 1, 5>>, <<2, 5, 1>>, <<5, 7, 1, 2>>}, a \in {<<>>, <<3>>, <<3, 4>>}, b \in {<<>>, <<6>>}, x \in 0 .. 3}
EnvVars == {<<>>} \cup {<<n, v>> : n \in {<<65>>, <<65, 66>>}, v \in {<<>>, <<66, 61>>}}
EntryOf(v) == IF v = <<>> THEN <<>> ELSE v[1] \o <<61>> \o v[2]
Getenvs == {[fn |-> "getenv", vars |-> v, slots |-> [i \in 1 .. 3 |-> EntryOf(v[i])], name |-> n] :
              v \in [1 .. 3 -> EnvVars], n \in {<<>>, <<65>>, <<65, 66>>, <<66>>}}
Dups == [fn : {"dup"}, s : Strs({65, 200}, 3), n : 0 .. 4, got : BOOLEAN]
RuntimeCalls == Atexits \cup Getenvs \cup Dups

AtF(fl) == [Unset EXCEPT !.left = fl.left, !.pad = fl.pad, !.width = fl.width, !.precision = fl.precision]
NumPiece(star, fl, c, v) ==
  [fmt |-> <<"%">> \o (IF fl.left /\ ~star THEN <<"-">> ELSE <<>>) \o (IF fl.pad = "0" THEN <<"0">> ELSE <<>>)
             \o (IF star THEN <<"*">> ELSE IF fl.width = 0 THEN <<>> ELSE Digits(fl.width, 10, Low))
             \o (IF fl.precision = 0 THEN <<>> ELSE <<".">> \o (IF star THEN <<"*">> ELSE Digits(fl.precision, 10, Low)))
             \o <<"l", c>>,
   args |-> (IF star THEN <<IF fl.left THEN -fl.width ELSE fl.width>> ELSE <<>>)
              \o (IF star /\ fl.precision # 0 THEN <<fl.precision>> ELSE <<>>) \o <<v>>,
   shows |-> IF c = "s" THEN LET cut == IF fl.precision = 0 \/ fl.precision > Len(v) THEN v ELSE SubSeq(v, 1, fl.precision)
                                 fill == Repeat(" ", IF fl.width > Len(cut) THEN fl.width - Len(cut) ELSE 0)
                             IN  IF fl.left THEN cut \o fill ELSE fill \o cut
             ELSE Layout(c, v, AtF(fl))]
PieceFlags == [left : BOOLEAN, pad : {" ", "0"}, width : {0, 3, 12}, precision : {0, 2}]
StarFlags == {fl \in PieceFlags : fl.width # 0}
Pieces ==
  {NumPiece(FALSE, fl, "d", v) : fl \in PieceFlags, v \in {7, 200}}
    \cup {NumPiece(TRUE, fl, "s", <<"a", "b", "c", "d">>) : fl \in StarFlags}
    \cup {NumPiece(FALSE, fl, "s", <<"a">>) : fl \in PieceFlags}
Others1 ==
  {[fmt |-> <<"%", "%">>, args |-> <<>>, shows |-> <<"%">>], [fmt |-> <<"a", "\n">>, args |-> <<>>, shows |-> <<"a", "\n">>],
   [fmt |-> <<"%", "5", "f">>, args |-> <<>>, shows |-> <<"%", "f">>], [fmt |-> <<"%", "k">>, args |-> <<>>, shows |-> <<"%", "k">>],
   [fmt |-> <<"%", "c">>, args |-> <<"z">>, shows |-> <<"z">>], [fmt |-> <<"%", "p">>, args |-> <<18>>, shows |-> <<"0", "x", "0", "0", "0", "0", "0", "0", "1", "2">>],
   [fmt |-> <<"%", "+", "i">>, args |-> <<5>>, shows |-> <<"+", "5">>], [fmt |-> <<"%", "#", "x">>, args |-> <<10>>, shows |-> <<"0", "x", "a">>],
   [fmt |-> <<"%", " ", "d">>, args |-> <<5>>, shows |-> <<" ", "5">>], [fmt |-> <<"%", "s">>, args |-> <<NoString>>, shows |-> <<"(", "n", "u", "l", "l", ")">>]}
Starts == {x \in Others1 : x.fmt[2] \in {"%", "\n", "f", "c"}}
Trailing == [fmt |-> <<"%", "l">>, args |-> <<>>, shows |-> <<"%">>]
PieceLists == {<<a, b, c>> : a \in Starts, b \in Pieces, c \in Others1 \cup {Trailing}}
Printfs == [fn : {"snprintf"}, pieces : PieceLists, cap : {1, 6, 60}]
             \cup [fn : {"fprintf"}, pieces : PieceLists, refused : {{}, {2}}]

AllCalls == Sorts(BOOLEAN) \cup Searches \cup Days \cup Times \cup Decodes \cup Widens
              \cup Narrows \cup Formats \cup Consoles \cup TextCalls
              \cup PackageCalls \cup SampleCalls \cup RuntimeCalls \cup Printfs

-----------------------------------------------------------------------------
(* What the run checks: the properties of the extended modules by subject. *)

\* time.c: dates are counted by the Gregorian calendar, broken down and put together
\* again without loss in any zone, and printed so that they read back.
DatesAgree == CountsTheCalendar /\ MktimeInverts /\ StampReadsBack

\* utf.c: only what is encoded is decoded, and conversions keep characters whole.
UnicodeWhole == DecodesWhatIsEncoded /\ WholeCharacters


\* string.c, args.c, stdlib.c: copies that overlap or are cut, comparisons, searches,
\* the splitting of a line into words, the environment and strings on the heap.
TextHandled == CopiesExactly /\ StringsAgree /\ WordsAreRuns /\ RuntimeTexts

\* hbpkg.c: versions are totally ordered, metadata reads back what was written, and
\* an order of installation exists exactly for the graphs without a cycle.
PackagesOrdered == VersionsOrdered /\ MetaReadsBack /\ DependenciesSorted


=============================================================================
