------------------------------- MODULE Samples ------------------------------
(***************************************************************************)
(* The sample programs of samples/ that compute something: bf.c, hanoi.c,  *)
(* wumpus.c, json_parse.c, calc.c, primes.c, and the ways the samples      *)
(* print a number.  A program is a call whose variables are the fields of  *)
(* `call'; one turn of its main loop is one step.  What it prints is kept  *)
(* as the values printed; banners and prompts are left out.                *)
(***************************************************************************)
EXTENDS Caller, Numbers, FiniteSetsExt

CONSTANTS TOK_MAX,          \* json_parse.c: 126, the length at which a token is cut
          TOK_LIMIT         \* json_parse.c: 200, the "safety limit" on tokens

-----------------------------------------------------------------------------
(* bf.c: a Brainfuck interpreter over one program *)

\* p0 .. p105.  Instruction pc is program[pc + 1].
program ==
  Repeat("+", 8) \o <<"[", ">">> \o Repeat("+", 4) \o <<"[", ">", "+", "+", ">">> \o Repeat("+", 3)
    \o <<">">> \o Repeat("+", 3) \o <<">", "+">> \o Repeat("<", 4) \o <<"-", "]">>
    \o <<">", "+", ">", "+", ">", "-", ">", ">", "+", "[", "<", "]", "<", "-", "]">>
    \o <<">", ">", ".", ">", "-", "-", "-", ".">> \o Repeat("+", 7) \o <<".", ".", "+", "+", "+", ".">>
    \o <<">", ">", ".", "<", "-", ".", "<", ".", "+", "+", "+", ".">>
    \o Repeat("-", 6) \o <<".">> \o Repeat("-", 8) \o <<".", ">", ">", "+", ".", ">", "+", "+", ".">>
plen == 106

\* The chain of tests that reads an instruction: 0 outside the program.
Fetch(pc) == IF pc \in 0 .. plen - 1 THEN program[pc + 1] ELSE "NUL"

\* t0 .. t9: the chains of tests ignore a write elsewhere and read 0 there.
Cells == 0 .. 9
get_tape(s) == IF s.dp \in Cells THEN s.tape[s.dp] ELSE 0
Bumped(s, k) == IF s.dp \in Cells THEN [s EXCEPT !.tape[s.dp] = @ + k] ELSE s

\* "We know the structure so hardcode bracket positions".  Fault: the innermost
\* pair is left out of the backward scan.
RECURSIVE ScanForward(_, _)
ScanForward(pc, depth) ==
  IF depth = 0 THEN pc
  ELSE LET at == pc + 1
       IN  ScanForward(at, depth + (CASE at \in {14, 43} -> 1 [] at \in {33, 45, 48} -> -1 [] OTHER -> 0))

BackClosers == {33, 45, 48}

RECURSIVE ScanBack(_, _)
ScanBack(pc, depth) ==
  IF depth = 0 THEN pc
  ELSE LET at == pc - 1
       IN  ScanBack(at, depth + (CASE at \in {8, 14, 43} -> -1 [] at \in BackClosers -> 1 [] OTHER -> 0))

Executed(s, ch) ==
  CASE ch = "+" -> Bumped(s, 1)
    [] ch = "-" -> Bumped(s, -1)
    [] ch = ">" -> [s EXCEPT !.dp = @ + 1]
    [] ch = "<" -> [s EXCEPT !.dp = @ - 1]
    [] ch = "." -> [s EXCEPT !.out = Append(@, get_tape(s))]
    [] ch = "[" /\ get_tape(s) = 0 -> [s EXCEPT !.pc = ScanForward(@, 1)]
    [] ch = "]" /\ get_tape(s) > 0 -> [s EXCEPT !.pc = ScanBack(@, 1)]
    [] OTHER -> s

BfStart == [fn |-> "bf", pc |-> 0, dp |-> 0, tape |-> [i \in Cells |-> 0], out |-> <<>>]
BfTurn ==
  call.fn = "bf" /\ call.pc < plen
    /\ Loops("bf", [Executed(call, Fetch(call.pc)) EXCEPT !.pc = @ + 1])
BfEnds == call.fn = "bf" /\ call.pc >= plen /\ Returns("bf", call.out)

-----------------------------------------------------------------------------
(* hanoi.c: four disks by the binary counter method *)

DISKS == 4
total == 2 ^ DISKS - 1

\* The position of the lowest set bit.
RECURSIVE LowestSet(_)
LowestSet(aux) == IF (aux \div 2) * 2 = aux THEN 1 + LowestSet(aux \div 2) ELSE 0

\* "even disks go right, odd go left".
next_peg(disk, cur) == IF disk \in {0, 2} THEN (cur % 3) + 1 ELSE ((cur + 1) % 3) + 1

\* d0_peg .. d3_peg, and the lines printed.
HanoiStart == [fn |-> "hanoi", from |-> 1, peg |-> [d \in 0 .. DISKS - 1 |-> 1], out |-> <<>>]
HanoiTurn ==
  /\ call.fn = "hanoi" /\ call.from <= total
  /\ LET disk == LowestSet(call.from)
         to == next_peg(disk, call.peg[disk])
     IN  Loops("hanoi", [call EXCEPT !.from = @ + 1, !.peg[disk] = to,
                                     !.out = Append(@, <<call.from, disk, call.peg[disk], to>>)])
HanoiEnds == call.fn = "hanoi" /\ call.from > total /\ Returns("hanoi", call.out)

-----------------------------------------------------------------------------
(* wumpus.c.  A key is its character less '0': a digit is the room it names. *)

Rooms == 0 .. 7
KeyM == 61
KeyS == 67

Cave == <<{1, 3, 7}, {0, 2, 4}, {1, 3, 5}, {0, 2, 6}, {1, 5, 7}, {2, 4, 6}, {3, 5, 7}, {0, 4, 6}>>
Exits(room) == Cave[room + 1]

\* "& 32767" of a product that wraps keeps its low bits.
Lcg(seed) == (seed * (1103515245 % 32768) + 12345) % 32768
\* A thing put at v moves `by' rooms on when somebody is there, once.
Placed(v, by, taken) == IF v % 8 \in taken THEN (v + by) % 8 ELSE v % 8

WumpusStart(key) ==
  LET s0 == Lcg(IF key \in 0 .. 9 THEN 37 + key * 17 ELSE 37)
      s1 == Lcg(s0)    s2 == Lcg(s1)    s3 == Lcg(s2)    s4 == Lcg(s3)
      wumpus == Placed(s1, 1, {s0 % 8})
      pit1 == Placed(s2, 2, {s0 % 8, wumpus})
      pit2 == Placed(s3, 3, {s0 % 8, wumpus, pit1})
  IN  [fn |-> "wumpus", seed |-> s4, player |-> s0 % 8, wumpus |-> wumpus, pit1 |-> pit1, pit2 |-> pit2,
       bats |-> Placed(s4, 4, {s0 % 8, wumpus, pit1, pit2}), arrows |-> 3, alive |-> TRUE, won |-> FALSE]

\* The warnings shown in a room.
Warnings(g) ==
  {w \in {"smell", "draft", "bats"} :
     Exits(g.player) \cap (CASE w = "smell" -> {g.wumpus} [] w = "draft" -> {g.pit1, g.pit2} [] OTHER -> {g.bats}) # {}}

\* The bats carry the player to a room of their own choice.
Moved(g, next) ==
  IF next \notin Exits(g.player) THEN g
  ELSE LET dies == next \in {g.wumpus, g.pit1, g.pit2}
           flown == (g.seed * 7 + 3) % 8
           here == [g EXCEPT !.player = next, !.alive = ~dies]
       IN  IF next = g.bats THEN [here EXCEPT !.seed = flown, !.player = flown] ELSE here

Shot(g, next) ==
  IF g.arrows = 0 THEN g
  ELSE LET hit == next = g.wumpus
       IN  [g EXCEPT !.arrows = @ - 1, !.won = hit, !.alive = ~hit /\ g.arrows > 1]

\* The keys of a turn: 'm' and a room, 's' and a room, anything else.  The key that
\* answered "Which room?" is then tested for 's' as well.
WumpusTurn(key, answer, second) ==
  /\ call.fn = "wumpus" /\ call.alive
  /\ LET moved == IF key = KeyM THEN Moved(call, answer) ELSE call
     IN  Loops("wumpus", CASE key = KeyS -> Shot(call, answer)
                           [] key = KeyM /\ answer = KeyS -> Shot(moved, second)
                           [] OTHER -> moved)
WumpusEnds == call.fn = "wumpus" /\ ~call.alive /\ Returns("wumpus", call.won)

-----------------------------------------------------------------------------
(* json_parse.c: the tokenizer.  json_buf[pos] is json[pos + 1]. *)

Blanks == {" ", "\t", "\n", "\r"}
Digit == {"0", "1", "2", "3", "4", "5", "6", "7", "8", "9"}

RECURSIVE skip_ws(_, _)
skip_ws(json, pos) ==
  IF pos < Len(json) /\ json[pos + 1] \in Blanks THEN skip_ws(json, pos + 1) ELSE pos

match_lit(json, pos, lit) ==
  pos + Len(lit) <= Len(json) /\ SubSeq(json, pos + 1, pos + Len(lit)) = lit

Lexed(pos, val) == [pos |-> pos, val |-> val]

\* "if (i >= 126) { break; }".
TokFull(i) == i >= TOK_MAX

\* A string's text, from behind the opening quote; an escape is copied as it stands.
RECURSIVE StringText(_, _, _)
StringText(json, pos, val) ==
  IF pos >= Len(json) \/ json[pos + 1] = "\"" THEN Lexed(pos, val)
  ELSE LET n == IF json[pos + 1] = "\\" /\ pos + 1 < Len(json) THEN 2 ELSE 1
           more == val \o SubSeq(json, pos + 1, pos + n)
       IN  IF TokFull(Len(more)) THEN Lexed(pos + n, more) ELSE StringText(json, pos + n, more)

RECURSIVE NumberText(_, _, _)
NumberText(json, pos, val) ==
  IF pos >= Len(json) \/ json[pos + 1] \notin Digit \cup {".", "e", "E"} THEN Lexed(pos, val)
  ELSE LET signed == json[pos + 1] \in {"e", "E"} /\ pos + 1 < Len(json) /\ json[pos + 2] \in {"+", "-"}
           n == IF signed THEN 2 ELSE 1
           more == val \o SubSeq(json, pos + 1, pos + n)
       IN  IF TokFull(Len(more)) THEN Lexed(pos + n, more) ELSE NumberText(json, pos + n, more)

Literals == <<<<"t", "r", "u", "e">>, <<"f", "a", "l", "s", "e">>, <<"n", "u", "l", "l">>>>

\* A token: where it starts and the tokenizer goes on, its type (a punctuator's and a
\* literal's is its text) and the text kept for a string or a number.
next_token(json, start) ==
  LET pos == skip_ws(json, start)
      Tok(type, end, val) == [type |-> type, from |-> pos, pos |-> end, val |-> val]
      lits == {k \in DOMAIN Literals : match_lit(json, pos, Literals[k])}
  IN  IF pos >= Len(json) THEN Tok("END", pos, <<>>)
      ELSE LET c == json[pos + 1] IN
        CASE c \in {"{", "}", "[", "]", ":", ","} -> Tok(c, pos + 1, <<>>)
          [] c = "\"" -> LET l == StringText(json, pos + 1, <<>>)
                         IN  Tok("STRING", IF l.pos < Len(json) THEN l.pos + 1 ELSE l.pos, l.val)
          [] c = "-" -> LET l == NumberText(json, pos + 1, <<"-">>) IN Tok("NUMBER", l.pos, l.val)
          [] c \in Digit -> LET l == NumberText(json, pos, <<>>) IN Tok("NUMBER", l.pos, l.val)
          [] lits # {} -> LET k == CHOOSE k \in lits : TRUE
                          IN  Tok("LITERAL", pos + Len(Literals[k]), <<>>)
          [] OTHER -> Tok("UNKNOWN", pos + 1, <<>>)

\* fill_json and main's loop.
JsonStart(json) == [fn |-> "json", json |-> json, toks |-> <<>>]
LastTok == call.toks[Len(call.toks)]
JsonOver == call.toks # <<>> /\ (LastTok.type = "END" \/ Len(call.toks) > TOK_LIMIT)
JsonTurn ==
  /\ call.fn = "json" /\ ~JsonOver
  /\ Loops("json", [call EXCEPT !.toks =
                      Append(@, next_token(call.json, IF @ = <<>> THEN 0 ELSE LastTok.pos))])
JsonEnds == call.fn = "json" /\ JsonOver /\ Returns("json", call.toks)

-----------------------------------------------------------------------------
(* calc.c.  A line is its characters; the line feed is read past its end. *)

Wrap(v) == Signed(v % Word)
Abs(a) == IF a < 0 THEN -a ELSE a
Quotient(a, b) == IF (a < 0) = (b < 0) THEN Abs(a) \div Abs(b) ELSE -(Abs(a) \div Abs(b))

RECURSIVE SkipSpaces(_)
SkipSpaces(s) == IF s # <<>> /\ s[1] = " " THEN SkipSpaces(Tail(s)) ELSE s

RECURSIVE ReadDigits(_, _)
ReadDigits(s, num) ==
  IF s # <<>> /\ s[1] \in Digit THEN ReadDigits(Tail(s), Wrap(num * 10 + digit_value(s[1])))
  ELSE [num |-> num, rest |-> s]

read_number(s) ==
  IF s # <<>> /\ s[1] = "-"
    THEN LET n == ReadDigits(Tail(s), 0) IN [n EXCEPT !.num = Wrap(0 - @)]
    ELSE ReadDigits(s, 0)

Applied(op, a, b) ==
  Wrap(CASE op = "+" -> a + b [] op = "-" -> a - b [] op = "*" -> a * b [] OTHER -> Quotient(a, b))

\* The operators of a line, from the text behind its first number: what is printed
\* and the `op' left for the next line.  print_str leaves its last letter in `ch': a
\* report made when the line feed was already read takes the next line with it.
RECURSIVE Operators(_, _, _)
Operators(s, value, op) ==
  LET Report(text, rest) == [op |-> "none", out |-> <<text>>, swallows |-> rest = <<>>] IN
  IF s = <<>> THEN [op |-> op, out |-> IF op = "none" THEN <<>> ELSE <<"=", value>>, swallows |-> FALSE]
  ELSE LET t == SkipSpaces(s) IN
    IF t = <<>> \/ t[1] \notin {"+", "-", "*", "/"} THEN Report("Error", t)
    ELSE LET n == read_number(SkipSpaces(Tail(t)))
         IN  IF t[1] = "/" /\ n.num = 0 THEN Report("Div by 0", n.rest)
             ELSE Operators(n.rest, Applied(t[1], value, n.num), t[1])

\* Past its last line the program waits for input.
CalcStart(lines) == [fn |-> "calc", lines |-> lines, at |-> 1, op |-> "none", out |-> <<>>]
Quits(line) == line # <<>> /\ line[1] \in {"q", "Q"}
CalcTurn ==
  /\ call.fn = "calc" /\ call.at <= Len(call.lines) /\ ~Quits(call.lines[call.at])
  /\ LET first == read_number(SkipSpaces(call.lines[call.at]))
         line == Operators(first.rest, first.num, call.op)
     IN  Loops("calc", [call EXCEPT !.at = @ + (IF line.swallows THEN 2 ELSE 1), !.op = line.op,
                                    !.out = Append(@, [line |-> call.at, shown |-> line.out])])
CalcEnds == call.fn = "calc" /\ call.at <= Len(call.lines) /\ Quits(call.lines[call.at])
              /\ Returns("calc", call.out)

-----------------------------------------------------------------------------
(* How the samples print a number, in words of the size Word; and primes.c. *)

\* calc.c, hanoi.c, fib.c: a digit for each power of ten, from the divisor down,
\* once one was not 0.
RECURSIVE PowersDown(_, _, _)
PowersDown(n, div, started) ==
  IF div = 0 THEN <<>>
  ELSE LET digit == Quotient(n, div)
           now == started \/ digit > 0
       IN  (IF now THEN <<Low[digit + 1]>> ELSE <<>>) \o PowersDown(n - digit * div, div \div 10, now)

Minus(v) == IF v < 0 THEN <<"-">> ELSE <<>>
Magnitude(v) == IF v < 0 THEN Wrap(0 - v) ELSE v

\* The greatest power of ten an int holds, 1000000000 in the code.
TopPower == Max({10 ^ k : k \in {k \in 0 .. 9 : 10 ^ k < Word \div 2}})

print_dec(v) ==
  Minus(v) \o (IF v = 0 THEN <<"0">> ELSE PowersDown(Magnitude(v), TopPower, FALSE))

print_hanoi(v) == LET text == PowersDown(v, 100, FALSE) IN IF text = <<>> THEN <<"0">> ELSE text

\* "Find highest power of 10".
RECURSIVE Highest(_, _)
Highest(num, temp) == IF temp * 10 <= num THEN Highest(num, temp * 10) ELSE temp
print_fib(v) == IF v = 0 THEN <<"0">> ELSE PowersDown(v, Highest(v, 1), FALSE)

\* json_parse.c, echo_server.c: the digits from the last, written out backwards.
RECURSIVE LastFirst(_)
LastFirst(n) == IF n > 0 THEN <<Low[(n % 10) + 1]>> \o LastFirst(n \div 10) ELSE <<>>
print_int(v) == Minus(v) \o (IF v = 0 THEN <<"0">> ELSE Reverse(LastFirst(Magnitude(v))))

print_prime(v) ==
  (IF v >= 100 THEN <<Low[(v \div 100) + 1]>> ELSE <<>>)
    \o (IF v >= 10 THEN <<Low[((v % 100) \div 10) + 1]>> ELSE <<>>) \o <<Low[(v % 10) + 1]>>

\* The divisors tried are those with div * div <= num.
is_prime(num) == \A div \in 2 .. num : div * div <= num => (num \div div) * div # num

PrintNumber ==
  Returns("print", IF call.v < 0 THEN <<print_dec(call.v), print_int(call.v)>>
                   ELSE <<print_dec(call.v), print_int(call.v), print_hanoi(call.v), print_fib(call.v),
                          print_prime(call.v)>>)
Primes == Returns("primes", {n \in 2 .. 100 : is_prime(n)})

SamplesNext ==
  \/ BfTurn \/ BfEnds \/ HanoiTurn \/ HanoiEnds
  \/ \E key, answer, second \in Rooms \cup {KeyM, KeyS} : WumpusTurn(key, answer, second)
  \/ WumpusEnds \/ JsonTurn \/ JsonEnds \/ CalcTurn \/ CalcEnds \/ PrintNumber \/ Primes

-----------------------------------------------------------------------------
(* Properties *)

\* The bracket that pairs with the one at i of the program's text, by nesting.
Depth(i, j) ==
  Cardinality({k \in i .. j : program[k] = "["}) - Cardinality({k \in i .. j : program[k] = "]"})
Partner(i) ==
  IF program[i] = "[" THEN Min({j \in i .. plen : Depth(i, j) = 0}) ELSE Max({j \in 1 .. i : Depth(j, i) = 0})

\* bf.c: each turn is a step of the language as it is defined: bytes that wrap, a tape
\* wider than the program's reach, and brackets paired by nesting, although the
\* interpreter has integers, ten cells, a `]' that jumps on positive cells only and a
\* list of the places where it knows the brackets to be.  At the end it has printed
\* the greeting its program is known for.
Language(s, i, s2) ==
  LET ch == program[i]
      cell == s.tape[s.dp] % 256
      jumps == (ch = "[" /\ cell = 0) \/ (ch = "]" /\ cell # 0)
  IN  /\ s2.pc = (IF jumps THEN Partner(i) ELSE i)
      /\ s2.dp = s.dp + (CASE ch = ">" -> 1 [] ch = "<" -> -1 [] OTHER -> 0)
      /\ s2.dp \in Cells
      /\ s2.tape[s.dp] % 256 = (cell + (CASE ch = "+" -> 1 [] ch = "-" -> 255 [] OTHER -> 0)) % 256
      /\ \A k \in Cells \ {s.dp} : s2.tape[k] = s.tape[k]
      /\ s2.out = s.out \o (IF ch = "." THEN <<cell>> ELSE <<>>)
Greeting == <<72, 101, 108, 108, 111, 32, 87, 111, 114, 108, 100, 33, 10>>
Interprets ==
  /\ [][BfTurn => Language(call, call.pc + 1, call')]_vars
  /\ [](Returned("bf") => result = Greeting)

\* hanoi.c: the binary counter moves only a disk that lies on top, to a peg without a
\* smaller one, and after 2^4 - 1 moves the tower stands on another peg.
TowersMoved ==
  /\ [][HanoiTurn =>
          LET disk == CHOOSE d \in DOMAIN call.peg : call'.peg[d] # call.peg[d]
          IN  /\ \A d \in DOMAIN call.peg \ {disk} : call'.peg[d] = call.peg[d]
              /\ \A d \in 0 .. disk - 1 : call.peg[d] \notin {call.peg[disk], call'.peg[disk]}]_vars
  /\ [](Returned("hanoi") => \E p \in {2, 3} : \A d \in DOMAIN call.peg : call.peg[d] = p)

\* wumpus.c: as long as the hunt goes on there is an arrow left and the player is in a
\* room of the cave, also after the bats; a step that ends it without an arrow flying
\* was announced in the room the player left; a way walked can be walked back.
HuntFair ==
  /\ [](call.fn = "wumpus" => call.player \in Rooms /\ (call.alive => call.arrows \in 1 .. 3))
  /\ [][call.fn = "wumpus" /\ call' # call =>
          /\ ~call'.alive /\ call'.arrows = call.arrows => Warnings(call) \cap {"smell", "draft"} # {}
          /\ call'.seed = call.seed /\ call'.player # call.player => call.player \in Exits(call'.player)]_vars

\* The part of the input a token covers.
Covered(t) == SubSeq(call.json, t.from + 1, t.pos)
\* A string token is whole when it was not cut.
Whole(t) == Len(t.val) < TOK_MAX

\* json_parse.c: every token takes input and its text fits tok_val[128] with its
\* terminator; between two tokens there are only blanks; the text of a number, and of
\* a string that was not cut, is what stands in the input, a quote in it escaped.
TokensRead ==
  call.fn = "json" =>
    \A i \in DOMAIN call.toks :
      LET t == call.toks[i]
          before == IF i = 1 THEN 0 ELSE call.toks[i - 1].pos
      IN  /\ t.type # "END" => t.pos > t.from
          /\ Len(t.val) <= TOK_MAX + 1
          /\ \A k \in before + 1 .. t.from : call.json[k] \in Blanks
          /\ t.type = "END" => t.from = Len(call.json)
          /\ t.type = "NUMBER" => t.val = Covered(t)
          /\ t.type = "STRING" /\ Whole(t) =>
               /\ Covered(t) \in {<<"\"">> \o t.val \o <<"\"">>, <<"\"">> \o t.val}
               /\ \A k \in DOMAIN t.val : t.val[k] = "\"" => k > 1 /\ t.val[k - 1] = "\\"

\* calc.c: a line with operators, when it is read, is worked out from left to right
\* whatever the lines before it left behind, with C's division and the word's wrapping;
\* a division by 0 is reported instead.  The lines are read in order, and no line but
\* one that follows a report is left out.  call.expr[i] is line i before it was
\* written down.
RECURSIVE Worked(_, _)
Worked(v, steps) ==
  IF steps = <<>> THEN <<"=", v>>
  ELSE LET op == steps[1][1]
           b == steps[1][2]
       IN  IF op = "/" /\ b = 0 THEN <<"Div by 0">>
           ELSE Worked(CHOOSE r \in -(Word \div 2) .. Word \div 2 - 1 :
                         CASE op = "+" -> (r - v - b) % Word = 0
                           [] op = "-" -> (r - v + b) % Word = 0
                           [] op = "*" -> (r - v * b) % Word = 0
                           [] OTHER -> Abs(r * b) <= Abs(v) /\ Abs(v - r * b) < Abs(b) /\ r * b * v >= 0,
                       Tail(steps))
LinesWorked ==
  call.fn = "calc" =>
    \A i \in DOMAIN call.out :
      LET n == call.out[i].line
          e == call.expr[n]
      IN  /\ e.steps # <<>> => call.out[i].shown = Worked(e.first, e.steps)
          /\ i > 1 => LET last == call.out[i - 1] IN
               n = last.line + 1 \/ (n = last.line + 2 /\ last.shown \in {<<"Error">>, <<"Div by 0">>})

\* Every way of printing an int gives the digits strtol reads back, but for the least
\* one, which has no magnitude; and primes.c tries enough divisors, and no number
\* too many.
NumbersShown ==
  /\ Returned("print") /\ call.v # -(Word \div 2) =>
       \A i \in DOMAIN result : strtol(result[i], 10) = call.v /\ (call.v # 0 => Head(result[i]) # "0")
  /\ Returned("primes") => result = {n \in 2 .. 100 : \A d \in 2 .. n - 1 : n % d # 0}

=============================================================================
