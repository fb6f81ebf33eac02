------------------------------ MODULE Strings ------------------------------
(***************************************************************************)
(* The loops over bytes: the kernel's string.c, the users' ulib.c, and the *)
(* formats of printf (printf.c) and cprintf (console.c).  A behaviour is   *)
(* one call, in any memory.  The memory is small, and no range that a call *)
(* is given leaves it.                                                     *)
(***************************************************************************)
EXTENDS Integers, FiniteSets, SequencesExt

CONSTANTS
  Size,       \* bound: bytes of memory
  Bytes,      \* bound: what a byte holds; 0 ends a string
  Half,       \* an int is in -Half..(Half - 1)
  MaxFmt      \* bound: characters of a format

VARIABLES
  mem,        \* the memory
  was,        \* the memory before the call
  args,       \* the call and its arguments
  ret         \* what it returns, or prints

vars == <<mem, was, args, ret>>

Cells == 1..Size
NUL == 0
NoCall == <<"">>

Init == mem \in [Cells -> Bytes] /\ was = mem /\ args = NoCall /\ ret = 0
-----------------------------------------------------------------------------
(* Loops.                                                                  *)

Up(n) == [i \in 1..n |-> i - 1]
Copy(m, d, s, order) ==
  FoldLeft(LAMBDA x, i : [x EXCEPT ![d + i] = x[s + i]], m, order)
Clear(m, d, n) == [a \in Cells |-> IF a \in d..(d + n - 1) THEN NUL ELSE m[a]]

\* How many steps a loop takes: up to the n-th, or until it stops.
Steps(n, Stops(_)) ==
  CHOOSE i \in 0..n : (i = n \/ Stops(i)) /\ \A j \in 0..(i - 1) : ~Stops(j)
-----------------------------------------------------------------------------
(* string.c                                                                *)

strlen(m, s) == Steps(Size, LAMBDA i : m[s + i] = NUL)

\* Mutant: always upwards.
memmove_Up(m, d, s, n) == Copy(m, d, s, Up(n))

\* Downwards if the destination begins inside the source.
memmove(m, d, s, n) ==
  Copy(m, d, s, IF s < d /\ s + n > d THEN Reverse(Up(n)) ELSE Up(n))

memcmp(m, p, q, n) ==
  LET i == Steps(n, LAMBDA j : m[p + j] # m[q + j])
  IN  IF i = n THEN 0 ELSE m[p + i] - m[q + i]

strncmp(m, p, q, n) ==
  LET i == Steps(n, LAMBDA j : m[p + j] = NUL \/ m[p + j] # m[q + j])
  IN  IF i = n THEN 0 ELSE m[p + i] - m[q + i]

\* The byte that ends the first loop is copied, and counts.
strncpy(m, s, t, n) ==
  LET k == Steps(n, LAMBDA i : m[t + i] = NUL)
  IN  Clear(Copy(m, s, t, Up(k)), s + k, n - k)

\* The NUL behind what is copied is one more if the end of t was copied.
safestrcpy(m, s, t, n) ==
  LET k == Steps(n - 1, LAMBDA i : m[t + i] = NUL)
      copied == IF k < n - 1 THEN k + 1 ELSE k
  IN  IF n <= 0 THEN m ELSE [Copy(m, s, t, Up(copied)) EXCEPT ![s + copied] = NUL]
-----------------------------------------------------------------------------
(* ulib.c                                                                  *)

umemmove(m, d, s, n) == Copy(m, d, s, Up(n))

strcpy(m, s, t) == Copy(m, s, t, Up(strlen(m, t) + 1))

strcmp(m, p, q) ==
  LET i == Steps(Size, LAMBDA j : m[p + j] = NUL \/ m[p + j] # m[q + j])
  IN  m[p + i] - m[q + i]

\* An address, or 0: also for the byte that ends the string.
strchr(m, s, c) ==
  LET i == Steps(Size, LAMBDA j : m[s + j] = NUL \/ m[s + j] = c)
  IN  IF m[s + i] = NUL THEN 0 ELSE s + i

\* What the reads of one byte return, up to the end of a line or of the input.
LineEnds == {"\n", "\r"}
gets(in, max) ==
  LET n == Steps(max - 1, LAMBDA i : i >= Len(in) \/ (i > 0 /\ in[i] \in LineEnds))
  IN  SubSeq(in, 1, n) \o <<"\\0">>

\* The digits of printf.c and those of console.c.
digits == <<"0", "1", "2", "3", "4", "5", "6", "7", "8", "9",
            "A", "B", "C", "D", "E", "F">>
consdigits == SubSeq(digits, 1, 10) \o <<"a", "b", "c", "d", "e", "f">>
Value(c) == (CHOOSE i \in 1..16 : digits[i] = c) - 1
IsDigit(c) == \E i \in 1..10 : digits[i] = c

atoi(s) ==
  LET k == Steps(Len(s), LAMBDA i : ~IsDigit(s[i + 1]))
  IN  FoldLeft(LAMBDA n, c : n * 10 + Value(c), 0, SubSeq(s, 1, k))
-----------------------------------------------------------------------------
(* printf.c and console.c                                                  *)

\* printint() of either file: the digits of the unsigned number, last first,
\* then turned.
printint(table, xx, base, sgn) ==
  LET neg == sgn /\ xx < 0
      x == (IF neg THEN -xx ELSE xx) % (2 * Half)
      f[n \in 0..(2 * Half)] ==
        <<table[(n % base) + 1]>> \o (IF n \div base = 0 THEN <<>> ELSE f[n \div base])
  IN  Reverse(f[x] \o IF neg THEN <<"-">> ELSE <<>>)

\* The i-th word behind the format, as a number and as a string.
Word(i) == i - 2
Text(i) == IF i = 1 THEN <<"(null)">> ELSE <<"s", digits[i]>>

\* %x is %p too.
Directive(table, c, i) ==
  CASE c = "d" -> printint(table, Word(i), 10, TRUE)
    [] c = "x" -> printint(table, Word(i), 16, FALSE)
    [] c = "s" -> Text(i)
    [] c = "c" -> <<"c", digits[i]>>

\* A state for each character: after a % or not.
printf(fmt) ==
  LET step(st, c) ==
        IF st.state = 0
        THEN IF c = "%" THEN [st EXCEPT !.state = 1]
             ELSE [st EXCEPT !.out = Append(@, c)]
        ELSE IF c \in {"d", "x", "s", "c"}
        THEN [state |-> 0, ap |-> st.ap + 1, out |-> st.out \o Directive(digits, c, st.ap)]
        ELSE [st EXCEPT !.state = 0,
                        !.out = @ \o IF c = "%" THEN <<c>> ELSE <<"%", c>>]
  IN  FoldLeft(step, [state |-> 0, ap |-> 1, out |-> <<>>], fmt).out

\* The character behind a % is taken with it; %c is not known.
RECURSIVE cprintf(_, _)
cprintf(fmt, ap) ==
  IF fmt = <<>> THEN <<>>
  ELSE IF fmt[1] # "%" THEN <<fmt[1]>> \o cprintf(Tail(fmt), ap)
  ELSE IF Len(fmt) = 1 THEN <<>>
  ELSE LET rest(k) == cprintf(SubSeq(fmt, 3, Len(fmt)), k)
       IN  CASE fmt[2] \in {"d", "x", "s"} ->
                  Directive(consdigits, fmt[2], ap) \o rest(ap + 1)
             [] fmt[2] = "%" -> <<"%">> \o rest(ap)
             [] OTHER -> <<"%", fmt[2]>> \o rest(ap)
-----------------------------------------------------------------------------
(* One call.                                                               *)

IsString(m, s) == \E i \in s..Size : m[i] = NUL
Fits(s, n) == s + n <= Size + 1
Apart(s, t, n) == s + n <= t \/ t + n <= s

Call(a, m, r) == args' = a /\ mem' = m /\ ret' = r

\* Ranges of n bytes.
ranges(p, q, n) ==
  /\ Fits(p, n) /\ Fits(q, n)
  /\ \/ Call(<<"memmove", p, q, n>>, memmove(mem, p, q, n), 0)
     \/ Call(<<"umemmove", p, q, n>>, umemmove(mem, p, q, n), 0)
     \/ Call(<<"memcmp", p, q, n>>, mem, memcmp(mem, p, q, n))

\* Strings; the copies of one are not made into itself.
strings(p, q, n) ==
  /\ IsString(mem, p) /\ IsString(mem, q)
  /\ \/ Call(<<"strncmp", p, q, n>>, mem, strncmp(mem, p, q, n))
     \/ n = 0 /\ Call(<<"strcmp", p, q, n>>, mem, strcmp(mem, p, q))
     \/ n = 0 /\ p = q
        /\ \E c \in Bytes : Call(<<"strchr", p, c, n>>, mem, strchr(mem, p, c))
copies(p, q, n) ==
  /\ IsString(mem, q) /\ Fits(p, n)
  /\ LET l == strlen(mem, q) + 1
     IN  \/ /\ Apart(p, q, IF n > l THEN n ELSE l)
            /\ \/ Call(<<"strncpy", p, q, n>>, strncpy(mem, p, q, n), 0)
               \/ Call(<<"safestrcpy", p, q, n>>, safestrcpy(mem, p, q, n), 0)
         \/ /\ n = 0 /\ Fits(p, l) /\ Apart(p, q, l)
            /\ Call(<<"strcpy", p, q, n>>, strcpy(mem, p, q), 0)

\* Calls for which the memory does not matter.
numbers(x) ==
  \/ \E base \in {10, 16}, sgn \in BOOLEAN :
       Call(<<"printint", x, base, sgn>>, mem, printint(digits, x, base, sgn))
  \/ Call(<<"atoi", x>>, mem, atoi(printint(digits, x, 10, TRUE)))
formats(fmt) == Call(<<"printf", fmt>>, mem, <<printf(fmt), cprintf(fmt, 1)>>)
lines(in, max) == Call(<<"gets", in, max>>, mem, gets(in, max))

Next ==
  /\ args = NoCall
  /\ \/ \E p, q \in Cells, n \in 0..Size : ranges(p, q, n) \/ strings(p, q, n)
                                            \/ copies(p, q, n)
     \/ /\ mem = [a \in Cells |-> NUL]
        /\ \/ \E x \in -Half..(Half - 1) : numbers(x)
           \/ \E fmt \in SeqOf({"%", "d", "x", "s", "c", "a"}, MaxFmt) : formats(fmt)
           \/ \E in \in SeqOf({"a", "\n", "\r"}, 3), max \in 1..4 : lines(in, max)
  /\ UNCHANGED was

Spec == Init /\ [][Next]_vars
-----------------------------------------------------------------------------
(* Properties: what each function is for.                                  *)

Least(a, b) == IF a <= b THEN a ELSE b
Range_(m, s, n) == [i \in 1..n |-> m[s + i - 1]]
Str(m, s) == Range_(m, s, strlen(m, s))
Cut(s, n) == SubSeq(s, 1, Least(n, Len(s)))
\* A string is in place, and nothing outside the n bytes at p has changed.
Placed(p, n, s) == /\ Range_(mem, p, Len(s)) = s
                   /\ \A a \in Cells \ (p..(p + n - 1)) : mem[a] = was[a]
Less(s, t) == \E i \in 0..Len(s) :
                /\ i < Len(t) /\ Cut(s, i) = Cut(t, i)
                /\ i < Len(s) => s[i + 1] < t[i + 1]
Compares(s, t) == (ret = 0 <=> s = t) /\ (ret < 0 <=> Less(s, t))

CopiesRight ==
  LET f == args[1]
      p == args[2]
      q == args[3]
      n == args[4]
      t == Str(was, q)
      zeros(k) == [i \in 1..k |-> NUL]
  IN  CASE f = "memmove" -> Placed(p, n, Range_(was, q, n))
        [] f = "umemmove" ->
             Placed(p, n, IF q < p /\ p < q + n
                          THEN [i \in 1..n |-> was[q + ((i - 1) % (p - q))]]
                          ELSE Range_(was, q, n))
        [] f = "strncpy" -> Placed(p, n, Cut(t, n) \o zeros(n - Len(Cut(t, n))))
        [] f = "safestrcpy" ->
             Placed(p, n, IF n = 0 THEN <<>>
                          ELSE Cut(t, n - 1) \o zeros(IF Len(t) < n - 1 THEN 2 ELSE 1))
        [] f = "strcpy" -> Placed(p, Len(t) + 1, t \o <<NUL>>)
        [] OTHER -> mem = was

SearchesRight ==
  LET f == args[1]
      p == args[2]
      q == args[3]
      n == args[4]
  IN  CASE f = "memcmp" -> Compares(Range_(was, p, n), Range_(was, q, n))
        [] f = "strcmp" -> Compares(Str(was, p), Str(was, q))
        [] f = "strncmp" -> Compares(Cut(Str(was, p), n), Cut(Str(was, q), n))
        [] f = "strchr" ->
             IF \E i \in DOMAIN Str(was, p) : Str(was, p)[i] = q
             THEN was[ret] = q /\ \A a \in p..(ret - 1) : was[a] # q
             ELSE ret = 0
        [] OTHER -> TRUE

PrintsRight ==
  LET f == args[1]
      x == args[2]
      \* A hexadecimal digit as the console writes it.
      lower(c) == IF c \in ToSet(digits) THEN consdigits[Value(c) + 1] ELSE c
      number(s, base) == FoldLeft(LAMBDA n, c : n * base + Value(c), 0, s)
  IN  CASE f = "printint" ->
             LET neg == args[4] /\ x < 0
                 ds == IF neg THEN Tail(ret) ELSE ret
             IN  /\ neg => ret[1] = "-"
                 /\ Len(ds) > 1 => ds[1] # "0"
                 /\ number(ds, args[3]) = IF neg THEN -x ELSE x % (2 * Half)
        [] f = "atoi" -> ret = IF x < 0 THEN 0 ELSE x
        [] f = "printf" ->
             (\A i \in DOMAIN x : x[i] # "c") =>
               ret[2] = [i \in DOMAIN ret[1] |-> lower(ret[1][i])]
        [] f = "gets" ->
             /\ Len(ret) <= args[3] /\ ret[Len(ret)] = "\\0"
             /\ IsPrefix(Front(ret), x)
             /\ \A i \in 1..(Len(ret) - 2) : ret[i] \notin LineEnds
             /\ \/ Len(ret) \in {args[3], Len(x) + 1}
                \/ Len(ret) > 1 /\ ret[Len(ret) - 1] \in LineEnds
        [] OTHER -> TRUE

\* The kernel's memmove() is right for ranges that overlap, and the users' one
\* unless the destination begins inside the source; safestrcpy() always ends
\* its string, and with its second NUL still stays in its n bytes, like
\* strncpy(); the comparisons are the order of the strings; the least number is
\* printed right although it has no opposite, and atoi() reads back every number
\* that is not negative; printf() and cprintf() print the same but for %c and
\* for the case of hexadecimal digits; a line that gets() returns always ends in
\* the buffer, and goes no further than the first \n or \r.
StringsSound ==
  args # NoCall =>
    /\ args[1] \in {"memmove", "umemmove", "strncpy", "safestrcpy", "strcpy",
                    "memcmp", "strcmp", "strncmp", "strchr"} =>
         CopiesRight /\ SearchesRight
    /\ args[1] \in {"printint", "atoi", "printf", "gets"} =>
         PrintsRight /\ mem = was
=============================================================================
