------------------------------- MODULE Posix -------------------------------
(***************************************************************************)
(* c/rt/posix.c and c/rt/args.c: getcwd, the command line split into       *)
(* words, getopt.                                                          *)
(***************************************************************************)
EXTENDS Strings, TLC

ENOENT == 2
EFAULT == 14
ERANGE == 34

\* getcwd into a buffer of `size' bytes, which may be NULL; eax is what the kernel
\* answered, and its path has a terminator.  errno is left alone on success.
TooLong(len, size) == len + 1 > size
getcwd(null, path, size, eax) ==
  CASE null -> [errno |-> EFAULT, buf |-> <<>>]
    [] ~null /\ eax < 0 -> [errno |-> ENOENT, buf |-> <<>>]
    [] ~null /\ eax >= 0 /\ TooLong(Len(path), size) -> [errno |-> ERANGE, buf |-> <<>>]
    [] OTHER -> [errno |-> 0, buf |-> path \o <<0>>]

-----------------------------------------------------------------------------
(* The command line.  m holds it as mv_getargs left it, p walks it.         *)

Blank == {32, 9}
RECURSIVE SkipBlanks(_, _)
SkipBlanks(m, p) ==
  IF m[p] \in Blank THEN SkipBlanks([m EXCEPT ![p] = 0], p + 1) ELSE [mem |-> m, p |-> p]

\* argv without argv[0]: the addresses of the words, at most max - 1 of them.
RECURSIVE WordsFrom(_, _, _, _)
WordsFrom(m, p, argv, max) ==
  LET s    == SkipBlanks(m, p)
      stop == {a \in s.p .. Len(m) : s.mem[a] = 0 \/ s.mem[a] \in Blank}
  IN  IF m[p] = 0 \/ Len(argv) + 1 >= max THEN [mem |-> m, argv |-> argv]
      ELSE IF s.mem[s.p] = 0 THEN [mem |-> s.mem, argv |-> argv]
      ELSE WordsFrom(s.mem, Min(stop), Append(argv, s.p), max)

\* A command line the kernel does not give is an empty one.
mv_args(m, eax, max) ==
  IF eax < 0 THEN [mem |-> [m EXCEPT ![1] = 0], argv |-> <<>>] ELSE WordsFrom(m, 1, <<>>, max)

-----------------------------------------------------------------------------
(* getopt.  Words and the option string are sequences of characters; st is  *)
(* its state between calls: argv (argv[0] left out), optind and `scanned'.  *)

IsOption(word) == Len(word) > 1 /\ word[1] = "-"
Brought(v, i, o) ==
  SubSeq(v, 1, o - 1) \o <<v[i]>> \o SubSeq(v, o, i - 1) \o SubSeq(v, i + 1, Len(v))

\* The next word that starts an option, brought to optind.  Fault: an operand is
\* stepped over where it stands.
NextWord_inplace(st, i) == [st EXCEPT !.optind = i, !.scanned = 1]
NextWord(st, i) == [st EXCEPT !.argv = Brought(@, i, st.optind), !.scanned = 1]

Scan(st, plus) ==
  LET o == st.optind  v == st.argv  later == {i \in o + 1 .. Len(v) : IsOption(v[i])} IN
  IF st.scanned # 0 THEN st
  ELSE IF o > Len(v) THEN [st EXCEPT !.done = TRUE]
  ELSE IF v[o] = <<"-", "-">> THEN [st EXCEPT !.optind = o + 1, !.done = TRUE]
  ELSE IF IsOption(v[o]) THEN [st EXCEPT !.scanned = 1]
  ELSE IF plus \/ later = {} THEN [st EXCEPT !.done = TRUE]
  ELSE NextWord(st, Min(later))

\* The text at offset `at' of a word; past its end it is what follows in memory.
TextAt(word, at) == IF at <= Len(word) THEN SubSeq(word, at + 1, Len(word)) ELSE <<"?">>
Prog == <<"p">>

Given(st, ret, arg) == [st EXCEPT !.out = Append(@, [ret |-> ret, arg |-> arg])]
NoArg == <<>>

\* One call: an option is read from the word at optind.
Option(st, spec) ==
  LET word   == st.argv[st.optind]
      option == word[st.scanned + 1]
      last   == st.scanned + 2 > Len(word)
      next   == IF last THEN [st EXCEPT !.optind = @ + 1, !.scanned = 0]
                ELSE [st EXCEPT !.scanned = @ + 1]
      at     == {i \in DOMAIN spec : spec[i] = option}
      takes  == Min(at) < Len(spec) /\ spec[Min(at) + 1] = ":"
      before == IF next.optind = 1 THEN Prog ELSE next.argv[next.optind - 1]
  IN  IF at = {} \/ option = ":" THEN Given(next, "?", NoArg)
      ELSE IF ~takes THEN Given(next, option, NoArg)
      ELSE IF ~last THEN [Given(next, option, TextAt(before, next.scanned)) EXCEPT !.scanned = 0]
      ELSE IF next.optind <= Len(next.argv)
        THEN Given([next EXCEPT !.optind = @ + 1], option, next.argv[next.optind])
      ELSE Given(next, IF spec[1] = ":" THEN ":" ELSE "?", NoArg)

getopt(st, optstring) ==
  LET plus == optstring[1] = "+"
      rest == IF plus THEN Tail(optstring) ELSE optstring
      spec == IF rest # <<>> /\ rest[1] = "-" THEN Tail(rest) ELSE rest
      s    == Scan(st, plus)
  IN  IF s.done THEN s ELSE Option(s, spec)

\* getopt called until it answers -1, or `calls' times.
RECURSIVE Options(_, _, _)
Options(st, optstring, calls) ==
  IF st.done \/ calls = 0 THEN st ELSE Options(getopt(st, optstring), optstring, calls - 1)
Parsed(argv, optstring, calls) ==
  Options([argv |-> argv, optind |-> 1, scanned |-> 0, done |-> FALSE, out |-> <<>>],
          optstring, calls)

=============================================================================
