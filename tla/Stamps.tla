------------------------------- MODULE Stamps ------------------------------
(***************************************************************************)
(* c/rt/time.c: the clock, the zone the Sett holds, difftime and strftime. *)
(* A tm is Calendar's record; text is a sequence of characters, and the    *)
(* name of a day or a month counts as one.                                 *)
(***************************************************************************)
EXTENDS Calendar, Numbers

time(answer) == IF answer.eax # 0 THEN 0 ELSE answer.sec

\* What follows the blanks and the sign of the Sett's text; no digit there means 0.
RECURSIVE DropSpaces(_)
DropSpaces(s) == IF CharAt(s, 1) = " " THEN DropSpaces(Tail(s)) ELSE s
RECURSIVE Decimal(_, _)
Decimal(s, value) ==
  IF digit_value(CharAt(s, 1)) < 10 THEN Decimal(Tail(s), value * 10 + digit_value(s[1])) ELSE value
tz_offset_minutes(answer) ==
  LET p == DropSpaces(answer.text)
      q == IF CharAt(p, 1) \in {"-", "+"} THEN Tail(p) ELSE p
  IN  IF answer.eax # 0 THEN 0
      ELSE (IF CharAt(p, 1) = "-" THEN -1 ELSE 1) * Decimal(q, 0)

\* i32, here a word of Word values.
Saturated(d) ==
  IF d > Word \div 2 - 1 THEN Word \div 2 - 1
  ELSE IF d < -(Word \div 2) THEN -(Word \div 2) ELSE d
difftime(a, b) == Saturated(a - b)

put_num(value, width, pad) ==
  LET digits == Digits(IF value < 0 THEN -value ELSE value, 10, Low)
  IN  (IF value < 0 THEN <<"-">> ELSE <<>>) \o Repeat(pad, Over(width, Len(digits))) \o digits
put_zone(minutes) ==
  LET mag == IF minutes < 0 THEN -minutes ELSE minutes
  IN  <<"UTC", IF minutes < 0 THEN "-" ELSE "+">> \o put_num(mag \div 60, 2, "0")
        \o <<":">> \o put_num(mag % 60, 2, "0")

day_name == <<"Sun", "Mon", "Tue", "Wed", "Thu", "Fri", "Sat">>
mon_name == <<"Jan", "Feb", "Mar", "Apr", "May", "Jun", "Jul", "Aug", "Sep", "Oct", "Nov", "Dec">>

Hour12(hour) == IF hour % 12 = 0 THEN 12 ELSE hour % 12

\* What strftime writes for one field; %A and %B differ from %a and %b in wording.
Field(conv, tm, tz) ==
  CASE conv = "Y" -> put_num(tm.date.year, 4, "0")
    [] conv = "y" -> put_num(Rem(tm.date.year, 100), 2, "0")
    [] conv = "m" -> put_num(tm.date.month, 2, "0")
    [] conv = "d" -> put_num(tm.date.day, 2, "0")
    [] conv = "e" -> put_num(tm.date.day, 2, " ")
    [] conv = "H" -> put_num(tm.hour, 2, "0")
    [] conv = "I" -> put_num(Hour12(tm.hour), 2, "0")
    [] conv = "M" -> put_num(tm.min, 2, "0")
    [] conv = "S" -> put_num(tm.sec, 2, "0")
    [] conv = "j" -> put_num(tm.yday + 1, 3, "0")
    [] conv \in {"a", "A"} -> <<day_name[tm.wday + 1]>>
    [] conv \in {"b", "B"} -> <<mon_name[tm.date.month]>>
    [] conv = "p" -> <<IF tm.hour < 12 THEN "AM" ELSE "PM">>
    [] conv = "Z" -> put_zone(tz)
    [] conv = "NUL" -> <<"%">>
    [] OTHER -> <<conv>>

RECURSIVE Expanded(_, _, _)
Expanded(fmt, tm, tz) ==
  IF fmt = <<>> THEN <<>>
  ELSE IF fmt[1] # "%" THEN <<fmt[1]>> \o Expanded(Tail(fmt), tm, tz)
  ELSE Field(CharAt(fmt, 2), tm, tz) \o Expanded(SubSeq(fmt, 3, Len(fmt)), tm, tz)

\* put drops what does not leave room for the terminator, and a text cut short counts 0.
Room(used, size) == used + 1 <= size
strftime(size, fmt, tm, tz) ==
  LET text == Expanded(fmt, tm, tz) IN
  IF size = 0 THEN [buf |-> <<>>, returned |-> 0]
  ELSE [buf |-> Kept(text, size), returned |-> IF Room(Len(text), size) THEN Len(text) ELSE 0]

=============================================================================
