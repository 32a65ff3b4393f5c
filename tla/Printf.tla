------------------------------- MODULE Printf -------------------------------
(***************************************************************************)
(* How format_into of c/rt/stdio.c reads a format: flags, width and        *)
(* precision, the arguments each takes, and the text that goes to a buffer *)
(* or in chunks to a stream.  An argument is a word, or a text for %s.     *)
(***************************************************************************)
EXTENDS Caller, Numbers

\* A place in a format: the text and the arguments left, the flags read so far.
Unset == [width |-> 0, precision |-> 0, pad |-> " ", left |-> FALSE, plus |-> FALSE,
          space |-> FALSE, alt |-> FALSE]
Next1(p) == CharAt(p.fmt, 1)
On(p) == [p EXCEPT !.fmt = Tail(@)]

RECURSIVE FlagsIn(_)
FlagsIn(p) ==
  CASE Next1(p) = "-" -> FlagsIn([On(p) EXCEPT !.f.left = TRUE])
    [] Next1(p) = "0" -> FlagsIn([On(p) EXCEPT !.f.pad = "0"])
    [] Next1(p) = "+" -> FlagsIn([On(p) EXCEPT !.f.plus = TRUE])
    [] Next1(p) = " " -> FlagsIn([On(p) EXCEPT !.f.space = TRUE])
    [] Next1(p) = "#" -> FlagsIn([On(p) EXCEPT !.f.alt = TRUE])
    [] OTHER -> p

RECURSIVE Amount(_, _)
Amount(p, n) ==
  IF digit_value(Next1(p)) < 10 THEN Amount(On(p), 10 * n + digit_value(Next1(p)))
  ELSE [at |-> p, n |-> n]

Starred(f, w) == IF w < 0 THEN [f EXCEPT !.width = -w, !.left = TRUE] ELSE [f EXCEPT !.width = w]
Width(p) ==
  IF Next1(p) = "*" THEN [On(p) EXCEPT !.args = Tail(@), !.f = Starred(@, Head(p.args))]
  ELSE [Amount(p, 0).at EXCEPT !.f.width = Amount(p, 0).n]

\* "%.0d is still one digit here", and so is every precision that is 0 or negative.
AtLeastOne(n) == IF n <= 0 THEN 1 ELSE n
Precision(p) ==
  IF Next1(p) # "." THEN p
  ELSE IF Next1(On(p)) = "*"
    THEN [On(On(p)) EXCEPT !.args = Tail(@), !.f.precision = AtLeastOne(Head(p.args))]
    ELSE [Amount(On(p), 0).at EXCEPT !.f.precision = AtLeastOne(Amount(On(p), 0).n)]

RECURSIVE Modifiers(_)
Modifiers(p) == IF Next1(p) \in {"l", "h", "z", "t", "j", "q"} THEN Modifiers(On(p)) ELSE p

\* A null pointer where a string belongs; no string holds a NUL.
NoString == <<"NUL">>
Padded(s, f) ==
  LET n    == IF f.precision # 0 /\ f.precision < Len(s) THEN f.precision ELSE Len(s)
      room == Repeat(" ", Over(f.width, n))
  IN  IF f.left THEN SubSeq(s, 1, n) \o room ELSE room \o SubSeq(s, 1, n)

\* What one conversion shows, and whether it takes an argument.
TakesArg(c) == c \in {"d", "i", "u", "o", "x", "X", "p", "s", "c"}
Shows(c, arg, f) ==
  CASE c \in {"d", "i"} -> Converted("d", arg, f)
    [] c \in {"u", "o", "x", "X"} -> Converted(c, arg, f)
    [] c = "p" -> <<"0", "x">> \o out_number(arg, <<>>, 16, Low, [Unset EXCEPT !.width = 8, !.pad = "0"])
    [] c = "s" -> Padded(IF arg = NoString THEN <<"(", "n", "u", "l", "l", ")">> ELSE arg, f)
    [] c = "c" -> <<arg>>
    [] c = "NUL" -> <<"%">>
    [] OTHER -> <<"%", c>>

RECURSIVE format_into(_, _, _)
format_into(fmt, args, out) ==
  CASE fmt = <<>> -> out
    [] fmt # <<>> /\ Head(fmt) # "%" -> format_into(Tail(fmt), args, Append(out, Head(fmt)))
    [] fmt # <<>> /\ Head(fmt) = "%" /\ CharAt(fmt, 2) = "%" ->
         format_into(Tail(Tail(fmt)), args, Append(out, "%"))
    [] OTHER ->
         LET p    == Modifiers(Precision(Width(FlagsIn([fmt |-> Tail(fmt), args |-> args, f |-> Unset]))))
             c    == Next1(p)
             text == out \o Shows(c, IF TakesArg(c) THEN Head(p.args) ELSE 0, p.f)
         IN  IF c = "NUL" THEN text
             ELSE format_into(Tail(p.fmt), IF TakesArg(c) THEN Tail(p.args) ELSE p.args, text)

\* out_char and out_flush on a stream: chunks of OUT_CHUNK bytes, the last one at the
\* end.  o->len counts only what goes to a buffer; a chunk the stream did not take
\* whole is only remembered.
Chunks(text) ==
  [i \in 1 .. (Len(text) + OUT_CHUNK - 1) \div OUT_CHUNK |->
     SubSeq(text, (i - 1) * OUT_CHUNK + 1, IF i * OUT_CHUNK < Len(text) THEN i * OUT_CHUNK ELSE Len(text))]
vfprintf(text, refused) ==
  [chunks |-> Chunks(text), returned |-> IF refused \cap DOMAIN Chunks(text) # {} THEN -1 ELSE 0]

\* A format is put together from pieces [fmt, args, shows].
Fmt(c) == FlattenSeq([i \in DOMAIN c.pieces |-> c.pieces[i].fmt])
ArgsOf(c) == FlattenSeq([i \in DOMAIN c.pieces |-> c.pieces[i].args])
Written1(c) == format_into(Fmt(c), ArgsOf(c), <<>>)

Snprintf == Returns("snprintf", vsnprintf(Written1(call), call.cap))
Fprintf == Returns("fprintf", vfprintf(Written1(call), call.refused))
PrintfNext == Snprintf \/ Fprintf

\* stdio.c:615-787: a format shows its pieces in order: every conversion takes exactly
\* its own arguments (`*' included), unknown ones and floats show themselves and take
\* none, %s keeps its width and its cut on the right side, and the chunks a stream gets
\* are the text the buffer gets; -1 tells of any chunk that was not taken.
FormatsRead ==
  /\ Returned("snprintf") =>
       LET text == FlattenSeq([i \in DOMAIN call.pieces |-> call.pieces[i].shows])
       IN  /\ result.returned = Len(text)
           /\ IsPrefix(result.buf, text)
           /\ Len(result.buf) = call.cap - 1 \/ (Len(result.buf) < call.cap /\ result.buf = text)
  /\ Returned("fprintf") =>
       /\ FlattenSeq(result.chunks) = FlattenSeq([i \in DOMAIN call.pieces |-> call.pieces[i].shows])
       /\ \A i \in DOMAIN result.chunks : Len(result.chunks[i]) \in 1 .. OUT_CHUNK
       /\ result.returned = -1 <=> \E i \in call.refused : i <= Len(result.chunks)

=============================================================================
