------------------------------ MODULE Strings ------------------------------
(***************************************************************************)
(* c/rt/string.c.  Memory m is a sequence of bytes (0 .. 255), an address  *)
(* an index of it and 0 the null pointer; a string ends at its zero byte.  *)
(* A function that writes gives the memory it leaves.                      *)
(***************************************************************************)
EXTENDS Integers, Sequences, SequencesExt, FiniteSetsExt

NULL == 0
\* No loop here reads on past a difference or a zero, so what lies past the end of m
\* never matters; it reads as 0.
At(m, a) == IF a <= Len(m) THEN m[a] ELSE 0
Up(n) == [i \in 1 .. n |-> i - 1]

\* n bytes copied one by one from s to d, in the order given.
Copied(m, d, s, order) == FoldLeft(LAMBDA x, i : [x EXCEPT ![d + i] = x[s + i]], m, order)
memcpy(m, d, s, n) == Copied(m, d, s, Up(n))

\* Fault: an overlapping copy upwards is done forwards too.
Backwards_never(d, s) == FALSE
Backwards(d, s) == d > s
memmove(m, d, s, n) ==
  IF d = s THEN m
  ELSE Copied(m, d, s, IF Backwards(d, s) THEN Reverse(Up(n)) ELSE Up(n))
memset(m, d, c, n) ==
  [a \in DOMAIN m |-> IF d <= a /\ a < d + n THEN c % 256 ELSE m[a]]
bzero(m, d, n) == memset(m, d, 0, n)

strlen(m, s) == Min({n \in 0 .. Len(m) - s : m[s + n] = 0})
strnlen(m, s, max) == Min({n \in 0 .. max : n = max \/ At(m, s + n) = 0})

\* Where the loops of memcmp, strcmp and strncmp stop: at the first difference,
\* at the end of a (memcmp does not look for it), or after n.
Parting(m, a, b, n, ends) ==
  Min({i \in 0 .. n : i = n \/ At(m, a + i) # At(m, b + i) \/ (ends /\ At(m, a + i) = 0)})
Difference(m, a, b, n, ends) ==
  LET i == Parting(m, a, b, n, ends) IN IF i = n THEN 0 ELSE m[a + i] - m[b + i]
memcmp(m, a, b, n) == Difference(m, a, b, n, FALSE)
strncmp(m, a, b, n) == Difference(m, a, b, n, TRUE)
strcmp(m, a, b) == strncmp(m, a, b, strlen(m, a) + 1)
strcoll(m, a, b) == strcmp(m, a, b)

\* char is signed: a byte above 127 is negative in the loops that fold case.
Folded(b) == IF 65 <= b /\ b <= 90 THEN b + 32 ELSE IF b > 127 THEN b - 256 ELSE b
strcasecmp(m, a, b) ==
  LET i == Min({i \in 0 .. Len(m) - a :
                  m[a + i] = 0 \/ At(m, b + i) = 0 \/ Folded(m[a + i]) # Folded(At(m, b + i))})
  IN  IF m[a + i] # 0 /\ m[b + i] # 0 THEN Folded(m[a + i]) - Folded(m[b + i])
      ELSE m[a + i] - m[b + i]
strncasecmp(m, a, b, n) ==
  LET i == Min({i \in 0 .. n : \/ i = n \/ At(m, a + i) = 0
                                 \/ Folded(At(m, a + i)) # Folded(At(m, b + i))})
  IN  IF i = n THEN 0 ELSE Folded(m[a + i]) - Folded(m[b + i])

FirstOf(addresses) == IF addresses = {} THEN NULL ELSE Min(addresses)
memchr(m, s, c, n) == FirstOf({a \in s .. s + n - 1 : m[a] = c % 256})

\* The terminator is part of what strchr and strrchr look through.
Places(m, s, c) == {a \in s .. s + strlen(m, s) : m[a] = c % 256}
strchr(m, s, c) == FirstOf(Places(m, s, c))
strrchr(m, s, c) == IF Places(m, s, c) = {} THEN NULL ELSE Max(Places(m, s, c))
strstr(m, h, n) ==
  IF m[n] = 0 THEN h
  ELSE FirstOf({a \in h .. h + strlen(m, h) - 1 : strncmp(m, a, n, strlen(m, n)) = 0})

strspn(m, s, accept) ==
  Min({n \in 0 .. strlen(m, s) : m[s + n] = 0 \/ strchr(m, accept, m[s + n]) = NULL})
strcspn(m, s, reject) ==
  Min({n \in 0 .. strlen(m, s) : m[s + n] = 0 \/ strchr(m, reject, m[s + n]) # NULL})
strpbrk(m, s, accept) ==
  FirstOf({a \in s .. s + strlen(m, s) - 1 : strchr(m, accept, m[a]) # NULL})

strcpy(m, d, s) == memcpy(m, d, s, strlen(m, s) + 1)
strncpy(m, d, s, n) ==
  LET k == strnlen(m, s, n) IN bzero(memcpy(m, d, s, k), d + k, n - k)
strcat(m, d, s) == strcpy(m, d + strlen(m, d), s)

strncat(m, d, s, n) ==
  LET end == d + strlen(m, d)  k == strnlen(m, s, n)
  IN  bzero(memcpy(m, end, s, k), end + k, 1)
strxfrm(m, d, s, n) ==
  LET len == strlen(m, s)  k == IF len < n - 1 THEN len ELSE n - 1
  IN  [mem |-> IF d # NULL /\ n > 0 THEN bzero(memcpy(m, d, s, k), d + k, 1) ELSE m,
       len |-> len]

\* The address the scan goes on from.
Resume(m, end) == IF m[end] # 0 THEN end + 1 ELSE NULL
strtok_r(m, str, delim, saveptr) ==
  LET from  == IF str # NULL THEN str ELSE saveptr
      start == from + strspn(m, from, delim)
      end   == start + strcspn(m, start, delim)
  IN  IF from = NULL \/ m[start] = 0
      THEN [mem |-> m, saveptr |-> NULL, token |-> NULL]
      ELSE [mem |-> [m EXCEPT ![end] = 0], saveptr |-> Resume(m, end), token |-> start]

\* strtok(s, delim) and then strtok(NULL, delim) until it gives NULL: the tokens,
\* each where it starts, and the memory left.
RECURSIVE Tokens(_, _, _, _)
Tokens(m, str, delim, saveptr) ==
  LET t == strtok_r(m, str, delim, saveptr)
  IN  IF t.token = NULL THEN [mem |-> t.mem, tokens |-> <<>>]
      ELSE LET rest == Tokens(t.mem, NULL, delim, t.saveptr)
           IN  [rest EXCEPT !.tokens = <<t.token>> \o @]
strtok(m, s, delim) == Tokens(m, s, delim, NULL)

-----------------------------------------------------------------------------
(* The reference: strings as sequences, with no memory under them *)

StrAt(m, s) == SubSeq(m, s, s + strlen(m, s) - 1)
Laid(strings) == FlattenSeq([i \in DOMAIN strings |-> strings[i] \o <<0>>])
Sgn(n) == IF n < 0 THEN -1 ELSE IF n > 0 THEN 1 ELSE 0
LexOrder(a, b) ==
  IF a = b THEN 0
  ELSE IF IsStrictPrefix(a, b) THEN -1
  ELSE IF IsStrictPrefix(b, a) THEN 1
  ELSE LET i == Min({i \in DOMAIN a \cap DOMAIN b : a[i] # b[i]})
       IN  Sgn(a[i] - b[i])

\* The maximal runs of a that hold no separator, as the addresses they start at.
RunStarts(a, seps) ==
  {i \in DOMAIN a : a[i] \notin seps /\ (i = 1 \/ a[i - 1] \in seps)}
RunFrom(a, i, seps) ==
  LET ends == {j \in i .. Len(a) : a[j] \in seps}
  IN  SubSeq(a, i, IF ends = {} THEN Len(a) ELSE Min(ends) - 1)

=============================================================================
