----------------------------- MODULE UserProofs -----------------------------
(***************************************************************************)
(* Proofs about what a user program meets: Console and Keyboard, for any   *)
(* ring, any width of its indices above it and any number of readers, and  *)
(* Umalloc, for a heap of any size and any requests.                       *)
(***************************************************************************)
EXTENDS Console, Keyboard, Umalloc, Arithmetic, SequenceTheorems

(* The console: it implements Terminal, and nobody sleeps while there is   *)
(* something to read.                                                      *)

\* How many characters wait to be read, and how many are being edited.
Ready == Count(r, w)
Editing == Count(w, e)

ConsoleTypes ==
  /\ buf \in [0..(INPUT_BUF - 1) -> Typed]
  /\ r \in 0..(Wrap - 1) /\ w \in 0..(Wrap - 1) /\ e \in 0..(Wrap - 1)
  /\ pc \in [Readers -> {"idle", "loop", "doze", "sleep"}]

\* The three indices are in order, a full ring has no line in progress, and
\* such a line has no end in it.
Ring ==
  /\ Ready + Editing <= INPUT_BUF
  /\ Ready + Editing = INPUT_BUF => Editing = 0
  /\ \A i \in 1..Editing : Between(w, e)[i] \notin {NL, EOF}

\* Who sleeps, or is about to and has the lock, has nothing to read; if it is
\* killed, kill() came too late.
Sleepers ==
  \A p \in Readers :
    /\ pc[p] \in {"doze", "sleep"} => r = w /\ (p \in killed => p \in late)
    /\ pc[p] = "doze" => lock = p

OnScreen == pos \in 0..((ROWS - 1) * COLS - 1)

\* The inductive invariant.
ConsoleInv == ConsoleTypes /\ Ring /\ Sleepers /\ OnScreen
-----------------------------------------------------------------------------
(* The indices.                                                            *)

LEMMA ConsoleSizes ==
  /\ INPUT_BUF \in Nat \ {0} /\ Wrap \in Nat \ {0}
  /\ INPUT_BUF < Wrap /\ Wrap % INPUT_BUF = 0
  /\ COLS \in Nat \ {0} /\ ROWS \in Nat /\ ROWS >= 2
BY ConsoleAssumption

LEMMA PlusIn ==
  ASSUME NEW x \in Int, NEW k \in Int
  PROVE  Plus(x, k) \in 0..(Wrap - 1)
<1>1. x + k \in Int
  OBVIOUS
<1> QED BY <1>1, ConsoleSizes, DivMod DEF Plus

LEMMA PlusPlus ==
  ASSUME NEW x \in Int, NEW j \in Int, NEW k \in Int
  PROVE  Plus(Plus(x, j), k) = Plus(x, j + k)
<1>1. x + j \in Int /\ (x + j) + k = x + (j + k)
  OBVIOUS
<1>2. (((x + j) % Wrap) + k) % Wrap = ((x + j) + k) % Wrap
  BY <1>1, ConsoleSizes, ModPlus
<1> QED BY <1>1, <1>2 DEF Plus

LEMMA PlusZero ==
  ASSUME NEW x \in 0..(Wrap - 1)
  PROVE  Plus(x, 0) = x
<1>1. x \in Int /\ x + 0 = x
  BY ConsoleSizes
<1> QED BY <1>1, ConsoleSizes, ModNear DEF Plus

\* Count undoes Plus.
LEMMA CountOfPlus ==
  ASSUME NEW x \in 0..(Wrap - 1), NEW k \in 0..(Wrap - 1)
  PROVE  Count(x, Plus(x, k)) = k
<1>1. x \in Int /\ k \in Int /\ x + k \in Int /\ -x \in Int /\ (x + k) + (-x) = k
  BY ConsoleSizes
<1>2. (((x + k) % Wrap) + (-x)) % Wrap = ((x + k) + (-x)) % Wrap
  BY <1>1, ConsoleSizes, ModPlus
<1>3. k % Wrap = k
  BY <1>1, ConsoleSizes, ModNear
<1>4. ((x + k) % Wrap) + (-x) = ((x + k) % Wrap) - x
  <2>1. (x + k) % Wrap \in Int
    BY <1>1, ConsoleSizes, DivMod
  <2> QED BY <1>1, <2>1
<1> QED BY <1>1, <1>2, <1>3, <1>4 DEF Count, Plus

LEMMA PlusOfCount ==
  ASSUME NEW x \in 0..(Wrap - 1), NEW y \in 0..(Wrap - 1)
  PROVE  Count(x, y) \in 0..(Wrap - 1) /\ y = Plus(x, Count(x, y))
<1> DEFINE d == y - x
<1>1. x \in Int /\ y \in Int /\ d \in Int /\ d + x = y
  BY ConsoleSizes
<1>2. d % Wrap \in 0..(Wrap - 1)
  BY <1>1, ConsoleSizes, DivMod
<1>3. ((d % Wrap) + x) % Wrap = (d + x) % Wrap
  BY <1>1, ConsoleSizes, ModPlus
<1>4. y % Wrap = y
  BY <1>1, ConsoleSizes, ModNear
<1>5. (d % Wrap) + x = x + (d % Wrap)
  BY <1>1, <1>2
<1> QED BY <1>1, <1>2, <1>3, <1>4, <1>5 DEF Count, Plus

\* Where the indices are, seen from r and from w.
LEMMA Indices ==
  ASSUME ConsoleTypes, Ring
  PROVE  /\ Ready \in Nat /\ Editing \in Nat /\ Ready + Editing \in 0..(Wrap - 1)
         /\ w = Plus(r, Ready) /\ e = Plus(w, Editing) /\ e = Plus(r, Ready + Editing)
         /\ Count(r, e) = Ready + Editing
         /\ r = w <=> Ready = 0
         /\ e = w <=> Editing = 0
<1>1. /\ Ready \in 0..(Wrap - 1) /\ w = Plus(r, Ready)
      /\ Editing \in 0..(Wrap - 1) /\ e = Plus(w, Editing)
  BY PlusOfCount DEF ConsoleTypes, Ready, Editing
<1>2. /\ Ready \in Nat /\ Editing \in Nat /\ Ready + Editing \in 0..(Wrap - 1)
      /\ Ready \in Int /\ Editing \in Int /\ r \in Int
  BY <1>1, ConsoleSizes DEF Ring, ConsoleTypes
<1>3. Plus(Plus(r, Ready), Editing) = Plus(r, Ready + Editing)
  BY <1>2, PlusPlus
<1>4. Count(r, Plus(r, Ready + Editing)) = Ready + Editing
  BY <1>2, CountOfPlus DEF ConsoleTypes
<1>5. Plus(r, 0) = r /\ Plus(w, 0) = w /\ Count(r, r) = 0 /\ Count(w, w) = 0
  <2>1. Plus(r, 0) = r /\ Plus(w, 0) = w
    BY PlusZero DEF ConsoleTypes
  <2>2. 0 \in 0..(Wrap - 1)
    BY ConsoleSizes
  <2>3. Count(r, Plus(r, 0)) = 0 /\ Count(w, Plus(w, 0)) = 0
    BY <2>2, CountOfPlus DEF ConsoleTypes
  <2> QED BY <2>1, <2>3
<1>6. r = w <=> Ready = 0
  BY <1>1, <1>5 DEF Ready
<1>7. e = w <=> Editing = 0
  BY <1>1, <1>5 DEF Editing
<1> QED BY <1>1, <1>2, <1>3, <1>4, <1>6, <1>7
-----------------------------------------------------------------------------
(* The characters.                                                         *)

\* m characters of the ring b from index x on.
Cells(b, x, m) == [i \in 1..m |-> b[(x + (i - 1)) % INPUT_BUF]]
Rings == [0..(INPUT_BUF - 1) -> Typed]

LEMMA CellIn ==
  ASSUME NEW x \in Int
  PROVE  x % INPUT_BUF \in 0..(INPUT_BUF - 1)
BY ConsoleSizes, DivMod

LEMMA CellsSeq ==
  ASSUME NEW b \in Rings, NEW x \in Int, NEW m \in Nat
  PROVE  /\ Cells(b, x, m) \in Seq(Typed)
         /\ Len(Cells(b, x, m)) = m
         /\ \A i \in 1..m : Cells(b, x, m)[i] = b[(x + (i - 1)) % INPUT_BUF]
<1>1. ASSUME NEW i \in 1..m PROVE b[(x + (i - 1)) % INPUT_BUF] \in Typed
  <2>1. x + (i - 1) \in Int
    OBVIOUS
  <2>2. (x + (i - 1)) % INPUT_BUF \in 0..(INPUT_BUF - 1)
    BY <2>1, CellIn
  <2> QED BY <2>2 DEF Rings
<1>2. Cells(b, x, m) \in [1..m -> Typed]
  BY <1>1 DEF Cells
<1>3. Cells(b, x, m) \in Seq(Typed)
  BY <1>2, SeqDef
<1>4. Len(Cells(b, x, m)) = m
  BY <1>2, <1>3, LenProperties
<1> QED BY <1>3, <1>4 DEF Cells

\* The wrap of an index does not change the place it points to.
LEMMA PlusCell ==
  ASSUME NEW x \in Int, NEW k \in Int
  PROVE  Plus(x, k) % INPUT_BUF = (x + k) % INPUT_BUF
<1> DEFINE y == x + k
           z == y % Wrap
<1>1. y \in Int /\ 0 \in Int
  OBVIOUS
<1> HIDE DEF y
<1>2. z \in Int
  BY <1>1, ConsoleSizes, DivMod
<1>3. (z + 0) % INPUT_BUF = (y + 0) % INPUT_BUF
  <2>1. INPUT_BUF \in Nat \ {0} /\ Wrap \in Nat \ {0} /\ Wrap % INPUT_BUF = 0
    BY ConsoleSizes
  <2> QED BY <1>1, <2>1, ModOfMultiple, ZenonT(60)
<1> HIDE DEF z
<1>4. z + 0 = z /\ y + 0 = y
  BY <1>1, <1>2
<1> QED BY <1>3, <1>4 DEF Plus, y, z

\* The characters that two indices delimit are cells.
LEMMA Delimited ==
  ASSUME NEW b, NEW x \in Int, NEW m \in Nat
  PROVE  [i \in 1..m |-> b[Plus(x, i - 1) % INPUT_BUF]] = Cells(b, x, m)
<1>1. ASSUME NEW i \in 1..m
      PROVE  Plus(x, i - 1) % INPUT_BUF = (x + (i - 1)) % INPUT_BUF
  <2>1. i - 1 \in Int
    OBVIOUS
  <2> QED BY <2>1, PlusCell
<1> QED BY <1>1 DEF Cells

LEMMA BetweenIsCells ==
  ASSUME ConsoleTypes, Ring
  PROVE  Between(r, w) = Cells(buf, r, Ready) /\ Between(w, e) = Cells(buf, w, Editing)
<1>1. r \in Int /\ w \in Int /\ Ready \in Nat /\ Editing \in Nat
  BY Indices, ConsoleSizes DEF ConsoleTypes
<1> QED BY <1>1, Delimited DEF Between, CharAt, Ready, Editing

\* Where a character goes that is m places behind x, no other of the m is.
LEMMA OtherCell ==
  ASSUME NEW x \in Int, NEW m \in Nat, m < INPUT_BUF, NEW i \in 0..(m - 1)
  PROVE  (x + i) % INPUT_BUF # (x + m) % INPUT_BUF
<1> SUFFICES ASSUME (x + i) % INPUT_BUF = (x + m) % INPUT_BUF
             PROVE  FALSE
  OBVIOUS
<1>1. x + i \in Int /\ x + m \in Int /\ (x + m) - (x + i) = m - i
      /\ (x + m) - (x + m) = 0 /\ m - i \in Int /\ m - i \in 0..(INPUT_BUF - 1) /\ m - i # 0
      /\ 0 \in Int /\ 0 \in 0..(INPUT_BUF - 1)
  BY ConsoleSizes
<1>2. ((x + m) - ((x + i) % INPUT_BUF)) % INPUT_BUF = ((x + m) - (x + i)) % INPUT_BUF
  BY <1>1, ConsoleSizes, ModPlus
<1>3. ((x + m) - ((x + m) % INPUT_BUF)) % INPUT_BUF = ((x + m) - (x + m)) % INPUT_BUF
  BY <1>1, ConsoleSizes, ModPlus
<1>4. (m - i) % INPUT_BUF = m - i /\ 0 % INPUT_BUF = 0
  BY <1>1, ConsoleSizes, ModNear
<1> QED BY <1>1, <1>2, <1>3, <1>4

\* A character behind m others: it follows them, and they stay.
LEMMA CellsAppend ==
  ASSUME NEW b \in Rings, NEW x \in Int, NEW m \in Nat, m < INPUT_BUF, NEW c \in Typed,
         NEW d \in Rings, d = [b EXCEPT ![(x + m) % INPUT_BUF] = c]
  PROVE  /\ Cells(d, x, m + 1) = Append(Cells(b, x, m), c)
         /\ \A k \in 0..m : Cells(d, x, k) = Cells(b, x, k)
<1> DEFINE z == (x + m) % INPUT_BUF
<1>1. z \in 0..(INPUT_BUF - 1)
  <2>1. x + m \in Int
    OBVIOUS
  <2> QED BY <2>1, CellIn
<1>2. d[z] = c /\ \A j \in 0..(INPUT_BUF - 1) : j # z => d[j] = b[j]
  BY <1>1 DEF Rings
<1>3. ASSUME NEW i \in 0..(m - 1)
      PROVE  d[(x + i) % INPUT_BUF] = b[(x + i) % INPUT_BUF]
  <2>1. (x + i) % INPUT_BUF # z
    BY OtherCell
  <2>2. x + i \in Int
    OBVIOUS
  <2>3. (x + i) % INPUT_BUF \in 0..(INPUT_BUF - 1)
    BY <2>2, CellIn
  <2> QED BY <1>2, <2>1, <2>3
<1>4. ASSUME NEW k \in 0..m PROVE Cells(d, x, k) = Cells(b, x, k)
  <2>1. ASSUME NEW i \in 1..k
        PROVE  d[(x + (i - 1)) % INPUT_BUF] = b[(x + (i - 1)) % INPUT_BUF]
    <3>1. i - 1 \in 0..(m - 1)
      OBVIOUS
    <3> QED BY <1>3, <3>1
  <2> QED BY <2>1 DEF Cells
<1>5. Cells(d, x, m + 1) = Append(Cells(b, x, m), c)
  <2> DEFINE s == Cells(d, x, m + 1)
             q == Cells(b, x, m)
             t == Append(q, c)
  <2>1. /\ s \in Seq(Typed) /\ Len(s) = m + 1
        /\ \A i \in 1..(m + 1) : s[i] = d[(x + (i - 1)) % INPUT_BUF]
    <3>1. m + 1 \in Nat
      OBVIOUS
    <3> QED BY <3>1, CellsSeq
  <2>2. /\ q \in Seq(Typed) /\ Len(q) = m
        /\ \A i \in 1..m : q[i] = b[(x + (i - 1)) % INPUT_BUF]
    BY CellsSeq
  <2> HIDE DEF s, q
  <2>3. /\ t \in Seq(Typed) /\ Len(t) = m + 1 /\ t[m + 1] = c
        /\ \A i \in 1..m : t[i] = q[i]
    BY <2>2, AppendProperties
  <2> HIDE DEF t
  <2>4. ASSUME NEW i \in 1..(m + 1) PROVE s[i] = t[i]
    <3>1. CASE i = m + 1
      <4>1. (m + 1) - 1 = m
        OBVIOUS
      <4> QED BY <1>2, <2>1, <2>3, <3>1, <4>1
    <3>2. CASE i # m + 1
      <4>1. i \in 1..m /\ i - 1 \in 0..(m - 1)
        BY <3>2
      <4> QED BY <1>3, <2>1, <2>2, <2>3, <4>1
    <3> QED BY <3>1, <3>2
  <2>5. s = t
    BY <2>1, <2>3, <2>4, SeqEqual
  <2> QED BY <2>5 DEF s, t, q
<1> QED BY <1>4, <1>5

\* The cells from Plus(x, j) on are those behind the first j.
LEMMA CellsShift ==
  ASSUME NEW b \in Rings, NEW x \in Int, NEW j \in Nat, NEW k \in Nat
  PROVE  /\ Cells(b, Plus(x, j), k) \in Seq(Typed) /\ Len(Cells(b, Plus(x, j), k)) = k
         /\ \A i \in 1..k : Cells(b, Plus(x, j), k)[i] = b[(x + (j + i - 1)) % INPUT_BUF]
<1> DEFINE y == Plus(x, j)
<1>1. y \in Int
  BY PlusIn, ConsoleSizes
<1>2. /\ Cells(b, y, k) \in Seq(Typed) /\ Len(Cells(b, y, k)) = k
      /\ \A i \in 1..k : Cells(b, y, k)[i] = b[(y + (i - 1)) % INPUT_BUF]
  <2> HIDE DEF y
  <2> QED BY <1>1, CellsSeq
<1>3. ASSUME NEW i \in 1..k
      PROVE  (y + (i - 1)) % INPUT_BUF = (x + (j + i - 1)) % INPUT_BUF
  <2> DEFINE u == x + j
             v == i - 1
  <2>1. u \in Int /\ v \in Int /\ u + v = x + (j + i - 1)
    OBVIOUS
  <2>2. ((u % Wrap) + v) % INPUT_BUF = (u + v) % INPUT_BUF
    <3>1. INPUT_BUF \in Nat \ {0} /\ Wrap \in Nat \ {0} /\ Wrap % INPUT_BUF = 0
      BY ConsoleSizes
    <3> HIDE DEF u, v
    <3> QED BY <2>1, <3>1, ModOfMultiple
  <2> QED BY <2>1, <2>2 DEF Plus
<1> QED BY <1>2, <1>3

LEMMA CellsConcat ==
  ASSUME NEW b \in Rings, NEW x \in Int, NEW j \in Nat, NEW k \in Nat
  PROVE  Cells(b, x, j + k) = Cells(b, x, j) \o Cells(b, Plus(x, j), k)
<1> DEFINE s == Cells(b, x, j + k)
           t == Cells(b, x, j)
           u == Cells(b, Plus(x, j), k)
<1>1. /\ s \in Seq(Typed) /\ Len(s) = j + k
      /\ \A i \in 1..(j + k) : s[i] = b[(x + (i - 1)) % INPUT_BUF]
  <2>1. j + k \in Nat
    OBVIOUS
  <2> QED BY <2>1, CellsSeq
<1>2. /\ t \in Seq(Typed) /\ Len(t) = j
      /\ \A i \in 1..j : t[i] = b[(x + (i - 1)) % INPUT_BUF]
  BY CellsSeq
<1>3. /\ u \in Seq(Typed) /\ Len(u) = k
      /\ \A i \in 1..k : u[i] = b[(x + (j + i - 1)) % INPUT_BUF]
  BY CellsShift
<1> HIDE DEF s, t, u
<1>4. /\ t \o u \in Seq(Typed) /\ Len(t \o u) = j + k
      /\ \A i \in 1..(j + k) : (t \o u)[i] = IF i <= j THEN t[i] ELSE u[i - j]
  BY <1>2, <1>3, ConcatProperties
<1>5. ASSUME NEW i \in 1..(j + k) PROVE s[i] = (t \o u)[i]
  <2>1. CASE i <= j
    <3>1. i \in 1..j
      BY <2>1
    <3>2. (t \o u)[i] = t[i]
      BY <1>4, <2>1
    <3> QED BY <1>1, <1>2, <3>1, <3>2
  <2>2. CASE ~(i <= j)
    <3>1. i - j \in 1..k /\ j + (i - j) - 1 = i - 1
      BY <2>2
    <3>2. u[i - j] = b[(x + (j + (i - j) - 1)) % INPUT_BUF]
      BY <1>3, <3>1
    <3> QED BY <1>1, <1>4, <2>2, <3>1, <3>2
  <2> QED BY <2>1, <2>2
<1>6. s = t \o u
  BY <1>1, <1>4, <1>5, SeqEqual
<1> QED BY <1>6 DEF s, t, u

LEMMA CellsTail ==
  ASSUME NEW b \in Rings, NEW x \in Int, NEW m \in Nat \ {0}
  PROVE  /\ Cells(b, x, m) # <<>>
         /\ Cells(b, Plus(x, 1), m - 1) = Tail(Cells(b, x, m))
<1> DEFINE s == Cells(b, x, m)
           t == Cells(b, Plus(x, 1), m - 1)
<1>1. /\ s \in Seq(Typed) /\ Len(s) = m
      /\ \A i \in 1..m : s[i] = b[(x + (i - 1)) % INPUT_BUF]
  BY CellsSeq
<1>2. /\ t \in Seq(Typed) /\ Len(t) = m - 1
      /\ \A i \in 1..(m - 1) : t[i] = b[(x + (1 + i - 1)) % INPUT_BUF]
  <2>1. 1 \in Nat /\ m - 1 \in Nat
    OBVIOUS
  <2> QED BY <2>1, CellsShift
<1> HIDE DEF s, t
<1>3. s # <<>>
  BY <1>1, EmptySeq
<1>4. /\ Tail(s) \in Seq(Typed) /\ Len(Tail(s)) = m - 1
      /\ \A i \in 1..(m - 1) : Tail(s)[i] = s[i + 1]
  BY <1>1, <1>3, HeadTailProperties
<1>5. ASSUME NEW i \in 1..(m - 1) PROVE t[i] = Tail(s)[i]
  <2>1. i + 1 \in 1..m /\ (i + 1) - 1 = 1 + i - 1
    OBVIOUS
  <2> QED BY <1>1, <1>2, <1>4, <2>1
<1>6. t = Tail(s)
  BY <1>2, <1>4, <1>5, SeqEqual
<1> QED BY <1>3, <1>6 DEF s, t

LEMMA CellsSub ==
  ASSUME NEW b \in Rings, NEW x \in Int, NEW m \in Nat, NEW k \in 0..m
  PROVE  Cells(b, x, k) = SubSeq(Cells(b, x, m), 1, k)
<1> DEFINE s == Cells(b, x, k)
           t == Cells(b, x, m)
<1>1. /\ s \in Seq(Typed) /\ Len(s) = k
      /\ \A i \in 1..k : s[i] = b[(x + (i - 1)) % INPUT_BUF]
  BY CellsSeq
<1>2. /\ t \in Seq(Typed) /\ Len(t) = m
      /\ \A i \in 1..m : t[i] = b[(x + (i - 1)) % INPUT_BUF]
  BY CellsSeq
<1> HIDE DEF s, t
<1>3. \A i \in 1..k : t[i] \in Typed
  BY <1>2, ElementOfSeq
<1>4. /\ SubSeq(t, 1, k) \in Seq(Typed)
      /\ Len(SubSeq(t, 1, k)) = (IF 1 <= k THEN k - 1 + 1 ELSE 0)
      /\ \A i \in 1..(k - 1 + 1) : SubSeq(t, 1, k)[i] = t[1 + i - 1]
  <2>1. 1 \in Int /\ k \in Int
    OBVIOUS
  <2> QED BY <1>3, <2>1, SubSeqProperties
<1>5. Len(SubSeq(t, 1, k)) = k
  BY <1>4
<1>6. ASSUME NEW i \in 1..k PROVE s[i] = SubSeq(t, 1, k)[i]
  <2>1. i \in 1..(k - 1 + 1) /\ 1 + i - 1 = i /\ i \in 1..m
    OBVIOUS
  <2> QED BY <1>1, <1>2, <1>4, <2>1
<1>7. s = SubSeq(t, 1, k)
  BY <1>1, <1>4, <1>5, <1>6, SeqEqual
<1> QED BY <1>7 DEF s, t
-----------------------------------------------------------------------------
(* The cursor.                                                             *)

LEMMA TimesMonotonic ==
  ASSUME NEW x \in Int, NEW y \in Int, x <= y, NEW k \in Nat
  PROVE  x * k <= y * k
OBVIOUS

LEMMA CursorStays ==
  ASSUME NEW at \in 0..((ROWS - 1) * COLS - 1), NEW c
  PROVE  cgaputc(at, c) \in 0..((ROWS - 1) * COLS - 1)
<1> DEFINE all == (ROWS - 1) * COLS
           moved == CASE c = NL -> at + COLS - (at % COLS)
                      [] c = "BACKSPACE" -> IF at > 0 THEN at - 1 ELSE at
                      [] OTHER -> at + 1
           q == moved \div COLS
<1>0. ROWS - 1 \in Int /\ all \in Int /\ at \in Int /\ COLS \in Nat /\ at >= 0 /\ at <= all - 1
  BY ConsoleSizes
<1>1. all >= COLS
  <2>1. 1 * COLS <= (ROWS - 1) * COLS
    <3>1. 1 \in Int /\ ROWS - 1 \in Int /\ 1 <= ROWS - 1 /\ COLS \in Nat
      BY ConsoleSizes
    <3> QED BY <3>1, TimesMonotonic
  <2> QED BY <2>1, ConsoleSizes
<1>2. at % COLS \in 0..(COLS - 1)
  BY <1>0, ConsoleSizes, DivMod
<1>3. moved \in Int /\ moved >= 0 /\ moved <= at + COLS
  <2>1. CASE c = NL
    <3>1. moved = at + COLS - (at % COLS)
      BY <2>1 DEF NL
    <3> QED BY <1>0, <1>2, <3>1, ConsoleSizes
  <2>2. CASE c # NL /\ c = "BACKSPACE"
    <3>1. moved = IF at > 0 THEN at - 1 ELSE at
      BY <2>2
    <3> QED BY <1>0, <3>1, ConsoleSizes
  <2>3. CASE c # NL /\ c # "BACKSPACE"
    <3>1. moved = at + 1
      BY <2>3
    <3> QED BY <1>0, <3>1, ConsoleSizes
  <2> QED BY <2>1, <2>2, <2>3
<1>4. cgaputc(at, c) = IF q >= ROWS - 1 THEN moved - COLS ELSE moved
  BY DEF cgaputc
<1> HIDE DEF moved
<1>5. q \in Int /\ moved % COLS \in 0..(COLS - 1) /\ moved = q * COLS + (moved % COLS)
  BY <1>3, ConsoleSizes, DivMod
<1> HIDE DEF q
<1>6. CASE q >= ROWS - 1
  <2>1. (ROWS - 1) * COLS <= q * COLS
    BY <1>0, <1>5, <1>6, TimesMonotonic
  <2>2. q * COLS \in Int /\ moved >= q * COLS
    BY <1>5, ConsoleSizes
  <2> HIDE DEF all
  <2>3. all <= q * COLS
    BY <2>1 DEF all
  <2>4. moved - COLS \in 0..(all - 1)
    BY <1>0, <1>1, <1>3, <2>2, <2>3
  <2> QED BY <1>4, <1>6, <2>4 DEF all
<1>7. CASE ~(q >= ROWS - 1)
  <2>1. (q + 1) * COLS <= (ROWS - 1) * COLS
    <3>1. q + 1 \in Int /\ q + 1 <= ROWS - 1
      BY <1>0, <1>5, <1>7, ConsoleSizes
    <3> QED BY <1>0, <3>1, TimesMonotonic
  <2>2. (q + 1) * COLS = q * COLS + COLS /\ q * COLS \in Int
    BY <1>5, ConsoleSizes
  <2>3. moved <= q * COLS + COLS - 1
    BY <1>5, <2>2, ConsoleSizes
  <2> HIDE DEF all
  <2>4. (q + 1) * COLS <= all
    BY <2>1 DEF all
  <2>5. moved \in 0..(all - 1)
    BY <1>0, <1>3, <2>2, <2>3, <2>4
  <2> QED BY <1>4, <1>7, <2>5 DEF all
<1> QED BY <1>6, <1>7

LEMMA BackStays ==
  ASSUME NEW at \in 0..((ROWS - 1) * COLS - 1), NEW k \in Nat
  PROVE  Back(at, k) \in 0..((ROWS - 1) * COLS - 1)
<1> DEFINE all == (ROWS - 1) * COLS
<1>1. all \in Int
  BY ConsoleSizes
<1> HIDE DEF all
<1>2. at \in 0..(all - 1)
  BY DEF all
<1>3. Back(at, k) \in 0..(all - 1)
  BY <1>1, <1>2 DEF Back
<1> QED BY <1>3 DEF all
-----------------------------------------------------------------------------
(* The steps: each keeps the invariant, and does to the queues of Terminal *)
(* what it should.                                                         *)

lines == Between(r, w)
edit == Between(w, e)

LEMMA Enough ==
  ASSUME ConsoleTypes', Ring', Sleepers', OnScreen'
  PROVE  ConsoleInv'
BY DEF ConsoleInv

\* The queues of the next state.
LEMMA QueuesNext ==
  ASSUME ConsoleTypes', Ready' \in Nat, Editing' \in Nat
  PROVE  lines' = Cells(buf', r', Ready') /\ edit' = Cells(buf', w', Editing')
<1>1. r' \in Int /\ w' \in Int
  BY ConsoleSizes DEF ConsoleTypes
<1>2. lines' = [i \in 1..Ready' |-> buf'[Plus(r', i - 1) % INPUT_BUF]]
  BY DEF lines, Between, CharAt, Ready, Count, Plus
<1>3. edit' = [i \in 1..Editing' |-> buf'[Plus(w', i - 1) % INPUT_BUF]]
  BY DEF edit, Between, CharAt, Editing, Count, Plus
<1> QED BY <1>1, <1>2, <1>3, Delimited

LEMMA QueuesNow ==
  ASSUME ConsoleTypes, Ring
  PROVE  /\ lines = Cells(buf, r, Ready) /\ edit = Cells(buf, w, Editing)
         /\ lines \in Seq(Typed) /\ edit \in Seq(Typed)
         /\ Len(lines) = Ready /\ Len(edit) = Editing
<1>1. lines = Cells(buf, r, Ready) /\ edit = Cells(buf, w, Editing)
  BY BetweenIsCells DEF lines, edit
<1>2. /\ buf \in Rings /\ r \in Int /\ w \in Int /\ Ready \in Nat /\ Editing \in Nat
  BY Indices, ConsoleSizes DEF ConsoleTypes, Rings
<1> QED BY <1>1, <1>2, CellsSeq

LEMMA TypedStep ==
  ASSUME ConsoleInv, NEW c \in Typed, typed(c)
  PROVE  ConsoleInv' /\ T!Type(c)
<1> USE DEF ConsoleInv
<1> DEFINE L == Ready
           E == Editing
<1>1. /\ L \in Nat /\ E \in Nat /\ L + E < INPUT_BUF /\ r \in Int /\ w \in Int /\ e \in Int
      /\ e = Plus(w, E) /\ e = Plus(r, L + E) /\ w = Plus(r, L) /\ buf \in Rings
      /\ r \in 0..(Wrap - 1) /\ w \in 0..(Wrap - 1)
  BY Indices, ConsoleSizes DEF ConsoleTypes, typed, Rings
<1>2. /\ buf' = [buf EXCEPT ![e % INPUT_BUF] = c] /\ e' = Plus(e, 1) /\ r' = r
      /\ pos' = cgaputc(pos, c) /\ UNCHANGED <<killed, late, lock>>
      /\ \A p \in Readers : pc[p] # "doze"
  BY ConsoleAssumption DEF typed, Sleepers, NoReader
<1> HIDE DEF L, E
<1>3. e' = Plus(w, E + 1) /\ e' = Plus(r, (L + E) + 1) /\ e' \in 0..(Wrap - 1)
  <2>1. L + E \in Int /\ E \in Int /\ 1 \in Int /\ r \in Int /\ w \in Int /\ e \in Int
    BY <1>1
  <2>2. Plus(Plus(w, E), 1) = Plus(w, E + 1)
    BY <2>1, PlusPlus
  <2>3. Plus(Plus(r, L + E), 1) = Plus(r, (L + E) + 1)
    BY <2>1, PlusPlus
  <2>4. Plus(e, 1) \in 0..(Wrap - 1)
    BY <2>1, PlusIn
  <2> QED BY <1>1, <1>2, <2>2, <2>3, <2>4
<1>4. Count(w, e') = E + 1 /\ Count(r, e') = (L + E) + 1
  <2>1. E + 1 \in 0..(Wrap - 1) /\ (L + E) + 1 \in 0..(Wrap - 1)
    BY <1>1, ConsoleSizes
  <2> QED BY <1>1, <1>3, <2>1, CountOfPlus
<1>5. /\ buf' = [buf EXCEPT ![(w + E) % INPUT_BUF] = c]
      /\ buf' = [buf EXCEPT ![(r + (L + E)) % INPUT_BUF] = c]
  <2>1. L + E \in Int /\ E \in Int
    BY <1>1
  <2>2. e % INPUT_BUF = (w + E) % INPUT_BUF /\ e % INPUT_BUF = (r + (L + E)) % INPUT_BUF
    BY <1>1, <2>1, PlusCell
  <2> QED BY <1>2, <2>2
<1>0. buf' \in Rings
  <2>1. e % INPUT_BUF \in 0..(INPUT_BUF - 1)
    BY <1>1, CellIn
  <2> QED BY <1>1, <1>2, <2>1 DEF Rings
<1>6. Cells(buf', w, E + 1) = Append(Cells(buf, w, E), c)
  <2>1. E < INPUT_BUF /\ E \in Nat /\ w \in Int /\ buf \in Rings
    BY <1>1, ConsoleSizes
  <2>2. buf' = [buf EXCEPT ![(w + E) % INPUT_BUF] = c]
    BY <1>5
  <2> QED BY <1>0, <2>1, <2>2, CellsAppend, ZenonT(60)
<1>7. /\ Cells(buf', r, (L + E) + 1) = Append(Cells(buf, r, L + E), c)
      /\ Cells(buf', r, L) = Cells(buf, r, L)
  <2>1. L + E < INPUT_BUF /\ L + E \in Nat /\ L \in 0..(L + E) /\ r \in Int /\ buf \in Rings
    BY <1>1
  <2>2. buf' = [buf EXCEPT ![(r + (L + E)) % INPUT_BUF] = c]
    BY <1>5
  <2> QED BY <1>0, <2>1, <2>2, CellsAppend, ZenonT(60)
<1>8. /\ lines = Cells(buf, r, L) /\ edit = Cells(buf, w, E)
      /\ lines \in Seq(Typed) /\ edit \in Seq(Typed) /\ Len(lines) = L /\ Len(edit) = E
  BY QueuesNow DEF L, E
<1>9. e' = Plus(r, INPUT_BUF) <=> (L + E) + 1 = INPUT_BUF
  <2>1. INPUT_BUF \in 0..(Wrap - 1)
    BY ConsoleSizes
  <2>2. Count(r, Plus(r, INPUT_BUF)) = INPUT_BUF
    BY <1>1, <2>1, CountOfPlus
  <2> QED BY <1>3, <1>4, <2>2
<1>10. OnScreen'
  BY <1>2, CursorStays DEF OnScreen
<1>11. CASE c \notin {NL, EOF} /\ (L + E) + 1 # INPUT_BUF
  <2>1. w' = w /\ pc' = pc
    BY <1>9, <1>11 DEF typed
  <2>2. ConsoleTypes'
    BY <1>0, <1>2, <1>3, <2>1 DEF ConsoleTypes, Rings
  <2>3. Ready' = L /\ Editing' = E + 1
    <3>1. Ready' = Count(r, w) /\ Editing' = Count(w, e')
      BY <1>2, <2>1 DEF Ready, Editing, Count
    <3> QED BY <1>4, <3>1 DEF L, Ready
  <2>4. lines' = lines /\ edit' = Append(edit, c)
    <3>1. L \in Nat /\ E + 1 \in Nat
      BY <1>1
    <3>2. lines' = Cells(buf', r', L) /\ edit' = Cells(buf', w', E + 1)
      BY <2>2, <2>3, <3>1, QueuesNext
    <3> QED BY <1>2, <1>6, <1>7, <1>8, <2>1, <3>2
  <2>5. Ring'
    <3>1. Ready' + Editing' <= INPUT_BUF /\ Ready' + Editing' # INPUT_BUF
      BY <1>1, <1>11, <2>3, ConsoleSizes
    <3>2. ASSUME NEW i \in 1..Editing' PROVE edit'[i] \notin {NL, EOF}
      <4>1. /\ \A j \in 1..E : Append(edit, c)[j] = edit[j]
            /\ Append(edit, c)[E + 1] = c
        BY <1>8, AppendProperties
      <4>2. CASE i = E + 1
        BY <1>11, <2>4, <4>1, <4>2
      <4>3. CASE i # E + 1
        <5>1. i \in 1..E
          BY <1>1, <2>3, <4>3
        <5>2. edit[i] \notin {NL, EOF}
          BY <5>1 DEF Ring, edit, E
        <5> QED BY <2>4, <4>1, <5>1, <5>2
      <4> QED BY <4>2, <4>3
    <3>3. \A i \in 1..Editing' : Between(w, e)'[i] \notin {NL, EOF}
      BY <3>2 DEF edit
    <3> QED BY <3>1, <3>3 DEF Ring
  <2>6. Sleepers'
    BY <1>2, <2>1 DEF Sleepers
  <2>7. ConsoleInv'
    BY <1>10, <2>2, <2>5, <2>6, Enough
  <2>8. T!Type(c)
    <3>1. Len(lines) + Len(edit) < INPUT_BUF /\ Len(lines) + Len(edit) + 1 < INPUT_BUF
      BY <1>1, <1>8, <1>11, ConsoleSizes
    <3> QED BY <1>11, <2>4, <3>1 DEF T!Type, lines, edit
  <2> QED BY <2>7, <2>8
<1>12. CASE c \in {NL, EOF} \/ (L + E) + 1 = INPUT_BUF
  <2>1. w' = e' /\ pc' = [p \in Readers |-> IF pc[p] = "sleep" THEN "loop" ELSE pc[p]]
    BY <1>9, <1>12 DEF typed, Wakeup
  <2>2. ConsoleTypes'
    <3>1. pc' \in [Readers -> {"idle", "loop", "doze", "sleep"}]
      BY <2>1 DEF ConsoleTypes
    <3> QED BY <1>0, <1>2, <1>3, <2>1, <3>1 DEF ConsoleTypes, Rings
  <2>3. Ready' = (L + E) + 1 /\ Editing' = 0
    <3>1. Ready' = Count(r, e') /\ Editing' = Count(e', e')
      BY <1>2, <2>1 DEF Ready, Editing, Count
    <3>2. Count(e', Plus(e', 0)) = 0 /\ Plus(e', 0) = e'
      <4>1. 0 \in 0..(Wrap - 1)
        BY ConsoleSizes
      <4> QED BY <1>3, <4>1, CountOfPlus, PlusZero
    <3> QED BY <1>4, <3>1, <3>2
  <2>4. lines' = lines \o Append(edit, c) /\ edit' = <<>>
    <3>1. (L + E) + 1 \in Nat /\ 0 \in Nat
      BY <1>1
    <3>2. lines' = Cells(buf', r', (L + E) + 1) /\ edit' = Cells(buf', w', 0)
      BY <2>2, <2>3, <3>1, QueuesNext
    <3>3. edit' = <<>>
      <4>1. w' \in Int
        BY <2>2, ConsoleSizes DEF ConsoleTypes
      <4>2. edit' \in Seq(Typed) /\ Len(edit') = 0
        BY <1>0, <3>1, <3>2, <4>1, CellsSeq
      <4> QED BY <4>2, EmptySeq
    <3>4. Cells(buf, r, L + E) = lines \o edit
      BY <1>1, <1>8, CellsConcat
    <3>5. Append(lines \o edit, c) = lines \o Append(edit, c)
      <4>1. lines \o edit \in Seq(Typed)
        BY <1>8, ConcatProperties
      <4>2. /\ Append(lines \o edit, c) = (lines \o edit) \o <<c>>
            /\ Append(edit, c) = edit \o <<c>>
        BY <1>8, <4>1, AppendIsConcat
      <4>3. <<c>> \in Seq(Typed)
        OBVIOUS
      <4>4. (lines \o edit) \o <<c>> = lines \o (edit \o <<c>>)
        BY <1>8, <4>3, ConcatAssociative
      <4> QED BY <4>2, <4>4
    <3> QED BY <1>2, <1>7, <3>2, <3>3, <3>4, <3>5
  <2>5. Ring'
    <3>1. Ready' + Editing' <= INPUT_BUF /\ Editing' = 0
      BY <1>1, <2>3, ConsoleSizes
    <3>2. \A i \in 1..Editing' : Between(w, e)'[i] \notin {NL, EOF}
      BY <2>3
    <3> QED BY <3>1, <3>2 DEF Ring
  <2>6. Sleepers'
    BY <1>2, <2>1 DEF Sleepers
  <2>7. ConsoleInv'
    BY <1>10, <2>2, <2>5, <2>6, Enough
  <2>8. T!Type(c)
    <3>1. /\ Len(lines) + Len(edit) < INPUT_BUF
          /\ c \in {NL, EOF} \/ Len(lines) + Len(edit) + 1 = INPUT_BUF
      BY <1>1, <1>8, <1>12, ConsoleSizes
    <3> QED BY <2>4, <3>1 DEF T!Type, lines, edit
  <2> QED BY <2>7, <2>8
<1> QED BY <1>11, <1>12

\* Characters taken back from the line in progress, k of them left.
LEMMA EraseStep ==
  ASSUME ConsoleInv, NEW k \in Nat, k < Editing, e' = Plus(w, k),
         UNCHANGED <<buf, r, w, pc, killed, late, lock>>
  PROVE  /\ ConsoleTypes' /\ Ring' /\ Sleepers'
         /\ edit # <<>> /\ edit' = SubSeq(edit, 1, k) /\ lines' = lines
<1> USE DEF ConsoleInv
<1>1. /\ Ready \in Nat /\ Editing \in Nat /\ Ready + Editing \in 0..(Wrap - 1)
      /\ r \in Int /\ w \in Int /\ buf \in Rings /\ w \in 0..(Wrap - 1)
  BY Indices, ConsoleSizes DEF ConsoleTypes, Rings
<1>2. k \in 0..(Wrap - 1) /\ k \in Int /\ k \in 0..Editing
  BY <1>1, ConsoleSizes
<1>3. ConsoleTypes'
  <2>1. e' \in 0..(Wrap - 1)
    BY <1>1, <1>2, PlusIn
  <2> QED BY <2>1 DEF ConsoleTypes
<1>4. Ready' = Ready /\ Editing' = k
  <2>1. Ready' = Ready /\ Editing' = Count(w, e')
    BY DEF Ready, Editing, Count
  <2>2. Count(w, Plus(w, k)) = k
    BY <1>1, <1>2, CountOfPlus
  <2> QED BY <2>1, <2>2
<1>5. /\ lines = Cells(buf, r, Ready) /\ edit = Cells(buf, w, Editing)
      /\ edit \in Seq(Typed) /\ Len(edit) = Editing
  BY QueuesNow
<1>6. lines' = Cells(buf', r', Ready) /\ edit' = Cells(buf', w', k)
  BY <1>1, <1>3, <1>4, QueuesNext
<1>7. lines' = lines /\ edit' = Cells(buf, w, k)
  BY <1>5, <1>6
<1>8. Cells(buf, w, k) = SubSeq(Cells(buf, w, Editing), 1, k)
  BY <1>1, <1>2, CellsSub
<1>9. edit # <<>>
  <2>1. Len(edit) # 0
    BY <1>1, <1>5
  <2> QED BY <1>5, <2>1, EmptySeq
<1>10. Ring'
  <2>1. Ready' + Editing' <= INPUT_BUF /\ Ready' + Editing' # INPUT_BUF
    BY <1>1, <1>4, ConsoleSizes DEF Ring
  <2>2. ASSUME NEW i \in 1..k PROVE edit'[i] \notin {NL, EOF}
    <3>1. i \in 1..Editing
      BY <1>1
    <3>2. /\ Cells(buf, w, k)[i] = buf[(w + (i - 1)) % INPUT_BUF]
          /\ Cells(buf, w, Editing)[i] = buf[(w + (i - 1)) % INPUT_BUF]
      BY <1>1, <3>1, CellsSeq
    <3>3. edit[i] \notin {NL, EOF}
      BY <3>1 DEF Ring, edit
    <3> QED BY <1>5, <1>7, <3>2, <3>3
  <2>3. \A i \in 1..Editing' : Between(w, e)'[i] \notin {NL, EOF}
    BY <1>4, <2>2 DEF edit
  <2> QED BY <2>1, <2>3 DEF Ring
<1>11. Sleepers'
  BY DEF Sleepers
<1> QED BY <1>3, <1>5, <1>7, <1>8, <1>9, <1>10, <1>11

LEMMA BackspaceStep ==
  ASSUME ConsoleInv, backspace
  PROVE  ConsoleInv' /\ T!Erase
<1> USE DEF ConsoleInv
<1>1. /\ e # w /\ e' = Plus(e, -1) /\ pos' = Back(pos, 1)
      /\ UNCHANGED <<buf, r, w, pc, killed, late, lock>>
  BY DEF backspace, readers
<1>2. /\ Editing \in Nat /\ Editing # 0 /\ w \in Int /\ e = Plus(w, Editing)
      /\ Editing - 1 \in Nat /\ Editing - 1 < Editing
  BY <1>1, Indices, ConsoleSizes DEF ConsoleTypes
<1>3. e' = Plus(w, Editing - 1)
  <2>1. Editing \in Int /\ -1 \in Int /\ Editing + (-1) = Editing - 1
    BY <1>2
  <2>2. Plus(Plus(w, Editing), -1) = Plus(w, Editing + (-1))
    BY <1>2, <2>1, PlusPlus
  <2> QED BY <1>1, <1>2, <2>1, <2>2
<1>4. /\ ConsoleTypes' /\ Ring' /\ Sleepers'
      /\ edit # <<>> /\ edit' = SubSeq(edit, 1, Editing - 1) /\ lines' = lines
  BY <1>1, <1>2, <1>3, EraseStep
<1>5. OnScreen'
  <2>1. 1 \in Nat
    OBVIOUS
  <2> QED BY <1>1, <2>1, BackStays DEF OnScreen
<1>6. Len(edit) = Editing
  BY QueuesNow
<1>7. T!Erase
  BY <1>4, <1>6 DEF T!Erase, lines, edit
<1> QED BY <1>4, <1>5, <1>7, Enough

\* There is no newline in the line in progress: ^U takes all of it.
LEMMA KilllineStep ==
  ASSUME ConsoleInv, killline
  PROVE  ConsoleInv' /\ T!Erase
<1> USE DEF ConsoleInv
<1> DEFINE P(j) == /\ \A i \in 1..j : CharAt(Plus(e, -i)) # NL
                   /\ j = Count(w, e) \/ CharAt(Plus(e, -(j + 1))) = NL
           k == CHOOSE j \in 0..Count(w, e) : P(j)
<1>1. /\ e # w /\ e' = Plus(e, -k) /\ pos' = Back(pos, k)
      /\ UNCHANGED <<buf, r, w, pc, killed, late, lock>>
  BY DEF killline, readers
<1>2. /\ Editing \in Nat /\ Editing # 0 /\ w \in Int /\ e = Plus(w, Editing)
      /\ w \in 0..(Wrap - 1) /\ Editing \in Int /\ buf \in Rings
  BY <1>1, Indices, ConsoleSizes DEF ConsoleTypes, Rings
<1>3. ASSUME NEW i \in 1..Editing PROVE CharAt(Plus(e, -i)) # NL
  <2>1. -i \in Int /\ Editing + (-i) = Editing - i /\ Editing - i \in Int
        /\ Editing - i + 1 \in 1..Editing /\ (Editing - i + 1) - 1 = Editing - i
    BY <1>2
  <2>2. Plus(Plus(w, Editing), -i) = Plus(w, Editing + (-i))
    BY <1>2, <2>1, PlusPlus
  <2>3. Plus(w, Editing - i) % INPUT_BUF = (w + (Editing - i)) % INPUT_BUF
    BY <1>2, <2>1, PlusCell
  <2>4. edit = Cells(buf, w, Editing)
    BY QueuesNow
  <2>5. edit[Editing - i + 1] = buf[(w + (Editing - i)) % INPUT_BUF]
    <3>1. \A j \in 1..Editing :
            Cells(buf, w, Editing)[j] = buf[(w + (j - 1)) % INPUT_BUF]
      BY <1>2, CellsSeq
    <3> QED BY <2>1, <2>4, <3>1
  <2>6. edit[Editing - i + 1] # NL
    BY <2>1 DEF Ring, edit
  <2> QED BY <1>2, <2>1, <2>2, <2>3, <2>5, <2>6 DEF CharAt
<1>4. Count(w, e) = Editing
  BY DEF Editing
<1>5. k = Editing
  <2> HIDE DEF P
  <2>1. P(Editing)
    BY <1>3, <1>4 DEF P
  <2>2. ASSUME NEW j \in 0..Editing, P(j) PROVE j = Editing
    <3>1. CASE j # Editing
      <4>1. j + 1 \in 1..Editing
        BY <1>2, <3>1
      <4>2. CharAt(Plus(e, -(j + 1))) # NL
        BY <1>3, <4>1
      <4> QED BY <1>4, <2>2, <3>1, <4>2 DEF P
    <3> QED BY <3>1
  <2>3. Editing \in 0..Editing
    BY <1>2
  <2>4. \E j \in 0..Count(w, e) : P(j)
    BY <1>4, <2>1, <2>3
  <2>5. k \in 0..Count(w, e) /\ P(k)
    BY <2>4
  <2> HIDE DEF k
  <2> QED BY <1>4, <2>2, <2>5
<1> HIDE DEF k
<1>6. e' = Plus(w, 0)
  <2>1. -Editing \in Int /\ Editing + (-Editing) = 0
    BY <1>2
  <2>2. Plus(Plus(w, Editing), -Editing) = Plus(w, Editing + (-Editing))
    BY <1>2, <2>1, PlusPlus
  <2> QED BY <1>1, <1>2, <1>5, <2>1, <2>2
<1>7. /\ ConsoleTypes' /\ Ring' /\ Sleepers'
      /\ edit # <<>> /\ edit' = SubSeq(edit, 1, 0) /\ lines' = lines
  <2>1. 0 \in Nat /\ 0 < Editing
    BY <1>2
  <2> QED BY <1>1, <1>6, <2>1, EraseStep
<1>8. OnScreen'
  BY <1>1, <1>2, <1>5, BackStays DEF OnScreen
<1>9. T!Erase
  BY <1>7 DEF T!Erase, lines, edit
<1> QED BY <1>7, <1>8, <1>9, Enough

\* Steps that leave the ring alone.
LEMMA SameQueues ==
  ASSUME UNCHANGED <<buf, r, w, e>>
  PROVE  /\ Ring => Ring'
         /\ UNCHANGED T!vars
<1>1. lines' = lines /\ edit' = edit
  BY DEF lines, edit, Between, CharAt
<1>2. UNCHANGED T!vars
  BY <1>1 DEF T!vars, lines, edit
<1>3. Ready' = Ready /\ Editing' = Editing /\ Between(w, e)' = Between(w, e)
  BY <1>1 DEF Ready, Editing, edit
<1> QED BY <1>2, <1>3 DEF Ring

\* Nobody sleeps while there is something to read, so nobody need be woken.
LEMMA TakesStep ==
  ASSUME ConsoleInv, NEW p \in Readers, takes(p)
  PROVE  ConsoleInv' /\ [T!Next]_(T!vars)
<1> USE DEF ConsoleInv
<1>1. r # w /\ UNCHANGED <<buf, w, e, pos>> /\ (r' = r \/ r' = Plus(r, 1))
  BY DEF takes
<1>2. /\ pc' \in [Readers -> {"idle", "loop", "doze", "sleep"}]
      /\ \A q \in Readers : pc'[q] \notin {"doze", "sleep"}
  <2>1. \A q \in Readers : pc[q] \notin {"doze", "sleep"}
    BY <1>1 DEF Sleepers
  <2>2. pc' = pc \/ pc' = [pc EXCEPT ![p] = "idle"]
    BY DEF takes, Leave
  <2> QED BY <2>1, <2>2 DEF ConsoleTypes
<1>3. Sleepers' /\ OnScreen'
  BY <1>1, <1>2 DEF Sleepers, OnScreen
<1>4. CASE r' = r
  <2>1. Ring' /\ UNCHANGED T!vars
    BY <1>1, <1>4, SameQueues
  <2>2. ConsoleTypes'
    BY <1>1, <1>2, <1>4 DEF ConsoleTypes
  <2> QED BY <1>3, <2>1, <2>2, Enough
<1>5. CASE r' = Plus(r, 1)
  <2>1. /\ Ready \in Nat \ {0} /\ Editing \in Nat /\ Ready + Editing \in 0..(Wrap - 1)
        /\ r \in Int /\ w \in Int /\ buf \in Rings /\ w = Plus(r, Ready)
    BY <1>1, Indices, ConsoleSizes DEF ConsoleTypes, Rings
  <2>2. r' \in 0..(Wrap - 1)
    BY <1>5, <2>1, PlusIn
  <2>3. ConsoleTypes'
    BY <1>1, <1>2, <2>2 DEF ConsoleTypes
  <2>4. Ready' = Ready - 1 /\ Editing' = Editing
    <3>1. Ready' = Count(r', w) /\ Editing' = Editing
      BY <1>1 DEF Ready, Editing, Count
    <3>2. 1 \in Int /\ Ready - 1 \in Int /\ 1 + (Ready - 1) = Ready
          /\ Ready - 1 \in 0..(Wrap - 1)
      BY <2>1, ConsoleSizes
    <3>3. Plus(Plus(r, 1), Ready - 1) = Plus(r, 1 + (Ready - 1))
      BY <2>1, <3>2, PlusPlus
    <3>4. Count(r', Plus(r', Ready - 1)) = Ready - 1
      BY <2>2, <3>2, CountOfPlus
    <3> QED BY <1>5, <2>1, <3>1, <3>2, <3>3, <3>4
  <2>5. /\ lines = Cells(buf, r, Ready) /\ edit = Cells(buf, w, Editing)
    BY QueuesNow
  <2>6. lines' = Cells(buf', r', Ready - 1) /\ edit' = Cells(buf', w', Editing)
    <3>1. Ready - 1 \in Nat
      BY <2>1
    <3> QED BY <2>1, <2>3, <2>4, <3>1, QueuesNext
  <2>7. /\ Cells(buf, r, Ready) # <<>>
        /\ Cells(buf, Plus(r, 1), Ready - 1) = Tail(Cells(buf, r, Ready))
    BY <2>1, CellsTail
  <2>8. lines # <<>> /\ lines' = Tail(lines) /\ edit' = edit
    BY <1>1, <1>5, <2>5, <2>6, <2>7
  <2>9. Ring'
    <3>1. Ready' + Editing' <= INPUT_BUF /\ Ready' + Editing' # INPUT_BUF
      BY <2>1, <2>4, ConsoleSizes DEF Ring
    <3>2. \A i \in 1..Editing' : Between(w, e)'[i] \notin {NL, EOF}
      BY <2>4, <2>8 DEF Ring, edit
    <3> QED BY <3>1, <3>2 DEF Ring
  <2>10. T!Read
    BY <2>8 DEF T!Read, lines, edit
  <2>11. T!Next
    BY <2>10 DEF T!Next
  <2>12. ConsoleInv'
    BY <1>3, <2>3, <2>9, Enough
  <2> QED BY <2>11, <2>12
<1> QED BY <1>1, <1>4, <1>5

LEMMA OtherSteps ==
  ASSUME ConsoleInv,
         \/ \E c \in {"a", NL} : consolewrite(c)
         \/ \E p \in Readers : finds_none(p) \/ sleep_reader(p) \/ kill_reader(p)
         \/ \E p \in Readers : \E k \in 1..MaxRead : consoleread(p, k)
         \/ UNCHANGED consvars
  PROVE  ConsoleInv' /\ UNCHANGED T!vars
<1> USE DEF ConsoleInv
<1>1. UNCHANGED <<buf, r, w, e>>
  BY DEF consolewrite, finds_none, sleep_reader, kill_reader, consoleread, consvars, input
<1>2. Ring' /\ UNCHANGED T!vars
  BY <1>1, SameQueues
<1>3. ASSUME NEW c, consolewrite(c) PROVE ConsoleInv'
  <2>1. OnScreen'
    BY <1>3, CursorStays DEF OnScreen, consolewrite
  <2>2. UNCHANGED <<pc, killed, late, lock>>
    BY <1>3 DEF consolewrite, readers
  <2> QED BY <1>1, <1>2, <2>1, <2>2 DEF ConsoleTypes, Sleepers
<1>4. ASSUME NEW p \in Readers, finds_none(p) PROVE ConsoleInv'
  <2>1. r = w /\ UNCHANGED pos
    BY <1>4 DEF finds_none
  <2>2. \/ /\ p \in killed /\ pc' = [pc EXCEPT ![p] = "idle"]
           /\ killed' = killed \ {p} /\ late' = late \ {p}
        \/ /\ p \notin killed /\ pc' = [pc EXCEPT ![p] = "doze"] /\ lock' = p
           /\ UNCHANGED <<killed, late>>
    BY <1>4 DEF finds_none, Leave
  <2>6. pc[p] = "loop" /\ \A q \in Readers : pc[q] # "doze"
    BY <1>4, ConsoleAssumption DEF finds_none, Sleepers, NoReader
  <2>3. ConsoleTypes'
    BY <1>1, <2>2 DEF ConsoleTypes
  <2>4. Sleepers'
    BY <1>1, <2>1, <2>2, <2>6 DEF Sleepers, ConsoleTypes
  <2>5. OnScreen'
    BY <2>1 DEF OnScreen
  <2> QED BY <1>2, <2>3, <2>4, <2>5
<1>8. ASSUME NEW p \in Readers, sleep_reader(p) PROVE ConsoleInv'
  <2>1. /\ pc[p] = "doze" /\ pc' = [pc EXCEPT ![p] = "sleep"]
        /\ UNCHANGED <<killed, late, pos>>
    BY <1>8 DEF sleep_reader
  <2>2. ConsoleTypes'
    BY <1>1, <2>1 DEF ConsoleTypes
  <2>3. \A q \in Readers : pc'[q] # "doze"
    BY <2>1 DEF Sleepers, ConsoleTypes
  <2>4. Sleepers'
    BY <1>1, <2>1, <2>3 DEF Sleepers, ConsoleTypes
  <2>5. OnScreen'
    BY <2>1 DEF OnScreen
  <2> QED BY <1>2, <2>2, <2>4, <2>5
<1>5. ASSUME NEW p \in Readers, kill_reader(p) PROVE ConsoleInv'
  <2>1. /\ pc' = [pc EXCEPT ![p] = IF pc[p] = "sleep" THEN "loop" ELSE pc[p]]
        /\ killed' = killed \cup {p} /\ late' = late \cup {q \in {p} : pc[q] = "doze"}
        /\ UNCHANGED <<lock, pos>>
    BY <1>5 DEF kill_reader
  <2>2. ConsoleTypes'
    BY <1>1, <2>1 DEF ConsoleTypes
  <2>3. Sleepers'
    BY <1>1, <2>1 DEF Sleepers, ConsoleTypes
  <2>4. OnScreen'
    BY <2>1 DEF OnScreen
  <2> QED BY <1>2, <2>2, <2>3, <2>4
<1>6. ASSUME NEW p \in Readers, NEW k \in 1..MaxRead, consoleread(p, k) PROVE ConsoleInv'
  <2>1. pc' = [pc EXCEPT ![p] = "loop"] /\ UNCHANGED <<killed, late, lock, pos>>
    BY <1>6 DEF consoleread
  <2>2. ConsoleTypes'
    BY <1>1, <2>1 DEF ConsoleTypes
  <2>3. Sleepers'
    BY <1>1, <2>1 DEF Sleepers, ConsoleTypes
  <2>4. OnScreen'
    BY <2>1 DEF OnScreen
  <2> QED BY <1>2, <2>2, <2>3, <2>4
<1>7. CASE UNCHANGED consvars
  <2>1. UNCHANGED <<pc, killed, late, lock, pos>>
    BY <1>7 DEF consvars, readers
  <2> QED BY <1>1, <1>2, <2>1 DEF ConsoleTypes, Sleepers, OnScreen
<1> QED BY <1>2, <1>3, <1>4, <1>5, <1>6, <1>7, <1>8

LEMMA ConsoleNextStep ==
  ASSUME ConsoleInv, [ConsoleNext]_consvars
  PROVE  ConsoleInv' /\ [T!Next]_(T!vars)
<1>1. ASSUME NEW c \in Typed, typed(c) PROVE ConsoleInv' /\ T!Next
  BY <1>1, TypedStep DEF T!Next
<1>2. CASE backspace \/ killline
  BY <1>2, BackspaceStep, KilllineStep DEF T!Next
<1>3. ASSUME NEW p \in Readers, takes(p) PROVE ConsoleInv' /\ [T!Next]_(T!vars)
  BY <1>3, TakesStep
<1> QED BY <1>1, <1>2, <1>3, OtherSteps DEF ConsoleNext, Intr, Run

LEMMA ConsoleStarts == consoleinit => ConsoleInv /\ T!Init
<1> SUFFICES ASSUME consoleinit PROVE ConsoleInv /\ T!Init
  OBVIOUS
<1>1. /\ buf = [i \in 0..(INPUT_BUF - 1) |-> NL] /\ r = 0 /\ w = 0 /\ e = 0
      /\ pc = [p \in Readers |-> "idle"] /\ pos = 0
  BY DEF consoleinit
<1>2. ConsoleTypes
  BY <1>1, ConsoleSizes DEF ConsoleTypes, Typed
<1>3. Ready = 0 /\ Editing = 0
  <2>1. 0 % Wrap = 0 /\ 0 - 0 = 0
    <3>1. 0 \in Int /\ 0 \in 0..(Wrap - 1)
      BY ConsoleSizes
    <3> QED BY <3>1, ConsoleSizes, ModNear
  <2> QED BY <1>1, <2>1 DEF Ready, Editing, Count
<1>4. Ring
  BY <1>3, ConsoleSizes DEF Ring
<1>5. Sleepers
  BY <1>1 DEF Sleepers
<1>6. OnScreen
  <2>1. 1 * COLS <= (ROWS - 1) * COLS
    <3>1. 1 \in Int /\ ROWS - 1 \in Int /\ 1 <= ROWS - 1 /\ COLS \in Nat
      BY ConsoleSizes
    <3> QED BY <3>1, TimesMonotonic
  <2> QED BY <1>1, <2>1, ConsoleSizes DEF OnScreen
<1>7. lines = <<>> /\ edit = <<>>
  <2>1. Len(lines) = 0 /\ Len(edit) = 0 /\ lines \in Seq(Typed) /\ edit \in Seq(Typed)
    BY <1>2, <1>3, <1>4, QueuesNow
  <2> QED BY <2>1, EmptySeq
<1>8. T!Init
  BY <1>7 DEF T!Init, lines, edit
<1> QED BY <1>2, <1>4, <1>5, <1>6, <1>8 DEF ConsoleInv
-----------------------------------------------------------------------------
(* The theorems.                                                           *)

\* The indices, the line in progress and the sleepers of console.c stay as the
\* inductive invariant says.
THEOREM ConsoleInvariant == ConsoleSpec => []ConsoleInv
BY ConsoleStarts, ConsoleNextStep, PTL DEF ConsoleSpec

\* ConsoleSound: no reader misses the wakeup of consoleintr(), nor kill()'s unless
\* it came between test and sleep, the ring is never
\* overrun nor stuck with a line that nobody can read, and cgaputc() keeps the
\* cursor on the screen.
THEOREM ConsoleIsSound == ConsoleSpec => []ConsoleSound
<1>1. ASSUME ConsoleInv PROVE ConsoleSound
  <2>1. /\ Ready \in Nat /\ Editing \in Nat /\ Count(r, e) = Ready + Editing
        /\ (r = w) <=> (Ready = 0)
    BY <1>1, Indices DEF ConsoleInv
  <2>2. Count(r, w) <= Count(r, e) /\ Count(r, e) <= INPUT_BUF
    BY <1>1, <2>1, ConsoleSizes DEF ConsoleInv, Ring, Ready
  <2>3. Count(r, e) = INPUT_BUF => w # r
    BY <1>1, <2>1, ConsoleSizes DEF ConsoleInv, Ring
  <2> QED BY <1>1, <2>2, <2>3 DEF ConsoleInv, ConsoleSound, Sleepers, OnScreen
<1> QED BY <1>1, ConsoleInvariant, PTL

\* The ring of console.c with its wrapping indices is a terminal: whatever is
\* typed and read, a finished line is read once, in order, and not before it
\* is finished.
THEOREM ConsoleIsTerminal == ConsoleSpec => IsTerminal
<1>1. consoleinit => T!Init
  BY ConsoleStarts
<1>2. ConsoleInv /\ [ConsoleNext]_consvars => [T!Next]_(T!vars)
  BY ConsoleNextStep
<1> QED BY <1>1, <1>2, ConsoleInvariant, PTL DEF ConsoleSpec, IsTerminal, T!Spec
-----------------------------------------------------------------------------
(* The keyboard.                                                           *)

Lock == IF caps THEN {"CAPSLOCK"} ELSE {}

\* In the middle of an escaped key the escape is the only flag that the history
\* does not explain.
Flags ==
  /\ pressed \subseteq {"SHIFT", "CTL"}
  /\ caps \in BOOLEAN
  /\ \/ event = NoEvent /\ shift = pressed \cup Lock
     \/ /\ \E key \in Keys, up \in BOOLEAN : key[1] = TRUE /\ event = <<key, up>>
        /\ shift = pressed \cup Lock \cup {"E0ESC"}

\* The flags that a key's last byte leaves are explained by the key alone,
\* whether the escape is in the flags or not.
LEMMA KeyEnds ==
  ASSUME NEW esc \in BOOLEAN, NEW code \in {42, 29, 58}, NEW up \in BOOLEAN,
         pressed \subseteq {"SHIFT", "CTL"}, caps \in BOOLEAN,
         shift = pressed \cup Lock \cup (IF esc THEN {"E0ESC"} ELSE {}),
         pressed' = IF up THEN pressed \ shiftcode(esc, code)
                    ELSE pressed \cup shiftcode(esc, code),
         caps' = (caps # (~up /\ togglecode(esc, code) # {})),
         shift' = kbdgetc(esc, code, up)
  PROVE  pressed' \subseteq {"SHIFT", "CTL"} /\ caps' \in BOOLEAN /\ shift' = pressed' \cup Lock'
<1> DEFINE sc == shiftcode(esc, code)
           tc == togglecode(esc, code)
           s == (shift \ {"E0ESC"}) \cup sc
<1>1. "E0ESC" \in shift <=> esc
  BY DEF Lock
<1>2. shift' = IF up THEN shift \ (sc \cup {"E0ESC"}) ELSE (s \ tc) \cup (tc \ s)
  BY <1>1 DEF kbdgetc
<1>3. sc \subseteq {"SHIFT", "CTL"} /\ (tc = {} \/ tc = {"CAPSLOCK"})
  BY DEF shiftcode, togglecode
<1>4. shift \ {"E0ESC"} = pressed \cup Lock
  BY DEF Lock
<1>5. pressed' \subseteq {"SHIFT", "CTL"} /\ caps' \in BOOLEAN
  BY <1>3
<1> HIDE DEF sc, tc
<1>6. CASE up
  <2>1. caps' = caps
    BY <1>6
  <2>2. shift' = (shift \ {"E0ESC"}) \ sc
    BY <1>2, <1>6
  <2>3. Lock \cap sc = {}
    BY <1>3 DEF Lock
  <2> QED BY <1>4, <1>5, <1>6, <2>1, <2>2, <2>3 DEF Lock, sc
<1>7. CASE ~up
  <2>1. shift' = ((pressed \cup Lock \cup sc) \ tc) \cup (tc \ (pressed \cup Lock \cup sc))
    BY <1>2, <1>4, <1>7
  <2>2. pressed' = pressed \cup sc
    BY <1>7 DEF sc
  <2>3. CASE tc = {}
    <3>1. caps' = caps
      BY <1>7, <2>3 DEF tc
    <3> QED BY <1>5, <2>1, <2>2, <2>3, <3>1 DEF Lock
  <2>4. CASE tc = {"CAPSLOCK"}
    <3>1. caps' = ~caps
      BY <1>7, <2>4 DEF tc
    <3>2. "CAPSLOCK" \notin pressed \cup sc
      BY <1>3
    <3> QED BY <1>5, <2>1, <2>2, <2>4, <3>1, <3>2 DEF Lock
  <2> QED BY <1>3, <2>3, <2>4
<1> QED BY <1>6, <1>7

LEMMA KeyStep ==
  ASSUME Flags, NEW key \in Keys, NEW up \in BOOLEAN, kbdintr(key, up)
  PROVE  Flags'
<1>1. key[1] \in BOOLEAN /\ key[2] \in {42, 29, 58}
  <2>1. \A k \in Keys : \E esc \in BOOLEAN, code \in {42, 29, 58} : k = <<esc, code>>
    BY Zenon DEF Keys
  <2>2. PICK esc \in BOOLEAN, code \in {42, 29, 58} : key = <<esc, code>>
    BY <2>1
  <2>3. key[1] = esc /\ key[2] = code
    BY <2>2
  <2> QED BY <2>3
<1>2. CASE key[1] /\ event = NoEvent
  <2>1. /\ event' = <<key, up>> /\ pressed' = pressed /\ caps' = caps
        /\ shift = pressed \cup Lock /\ shift' = kbdgetc(key[1], key[2], up)
    BY <1>2 DEF kbdintr, Flags, NoEvent
  <2>2. "E0ESC" \notin shift
    BY <2>1 DEF Flags, Lock
  <2>3. shift' = shift \cup {"E0ESC"}
    BY <1>2, <2>1, <2>2 DEF kbdgetc
  <2> QED BY <1>1, <1>2, <2>1, <2>3 DEF Flags, Lock
<1>3. CASE ~(key[1] /\ event = NoEvent)
  <2>1. /\ event' = NoEvent
        /\ pressed' = IF up THEN pressed \ shiftcode(key[1], key[2])
                      ELSE pressed \cup shiftcode(key[1], key[2])
        /\ caps' = (caps # (~up /\ togglecode(key[1], key[2]) # {}))
        /\ shift' = kbdgetc(key[1], key[2], up)
    BY <1>3 DEF kbdintr
  <2>2. shift = pressed \cup Lock \cup (IF key[1] THEN {"E0ESC"} ELSE {})
    <3>1. CASE event = NoEvent
      <4>1. shift = pressed \cup Lock
        BY <3>1 DEF Flags, NoEvent
      <4> QED BY <1>3, <3>1, <4>1
    <3>2. CASE event # NoEvent
      <4>1. event = <<key, up>>
        BY <3>2 DEF kbdintr
      <4>2. shift = pressed \cup Lock \cup {"E0ESC"} /\ key[1]
        BY <3>2, <4>1 DEF Flags
      <4> QED BY <4>2
    <3> QED BY <3>1, <3>2
  <2>3. pressed \subseteq {"SHIFT", "CTL"} /\ caps \in BOOLEAN
    BY DEF Flags
  <2>4. pressed' \subseteq {"SHIFT", "CTL"} /\ caps' \in BOOLEAN /\ shift' = pressed' \cup Lock'
    BY <1>1, <2>1, <2>2, <2>3, KeyEnds
  <2> QED BY <2>1, <2>4 DEF Flags
<1> QED BY <1>2, <1>3

\* FlagsFollowKeys: whatever keys are pressed and released, escaped ones too,
\* and wherever an interrupt falls between an escape and its code, kbdgetc()
\* leaves the flags of the keys that are down and of caps lock, and no escape.
THEOREM KeyboardFlags == KeySpec => []FlagsFollowKeys
<1>1. KeyInit => Flags
  BY DEF KeyInit, Flags, Lock
<1>2. Flags /\ [KeyNext]_keyvars => Flags'
  <2>1. ASSUME Flags, KeyNext PROVE Flags'
    BY <2>1, KeyStep DEF KeyNext
  <2>2. ASSUME Flags, UNCHANGED keyvars PROVE Flags'
    BY <2>2 DEF Flags, Lock, keyvars
  <2> QED BY <2>1, <2>2
<1>3. Flags => FlagsFollowKeys
  BY DEF Flags, FlagsFollowKeys, Lock, NoEvent
<1> QED BY <1>1, <1>2, <1>3, PTL DEF KeySpec
-----------------------------------------------------------------------------
(* The heap.                                                               *)

\* The blocks on a list, and one list with all its blocks: P and S are the
\* headers, H the blocks that are not on it, B the end of the heap.
On(P) == {a \in Addrs : P[a] # NULL}
ListTypes(P, S, H) ==
  P \in [Addrs -> Addrs \cup {NULL}] /\ S \in [Addrs -> Nat] /\ H \in SUBSET Addrs
Disjoint(P, S, H) == \A a, b \in On(P) \cup H : a < b => a + S[a] <= b
InHeap(P, S, H, B) ==
  \A a \in On(P) \cup H : a # Base => S[a] > 0 /\ a >= Heap /\ a + S[a] <= B
Sorted(P) ==
  \A a \in On(P) :
    /\ P[a] \in On(P)
    /\ \A b \in On(P) :
         IF a < P[a] THEN b <= a \/ P[a] <= b ELSE Base = P[a] /\ b <= a
HeapList(P, S, H, B) ==
  /\ ListTypes(P, S, H) /\ Disjoint(P, S, H) /\ InHeap(P, S, H, B) /\ Sorted(P)
  /\ On(P) \cap H = {} /\ Base \notin H /\ S[Base] = 0

\* The pairs of free blocks that touch.
Touch(P, S, a, b) == a \in On(P) /\ b \in On(P) /\ a # b /\ a + S[a] = b

\* b belongs behind p; b has been hung in there; p has been joined with q.
Fits(P, p, b) == (p < b /\ b < P[p]) \/ (p >= P[p] /\ (b > p \/ b < P[p]))
Linked(P, p, b, P2) == P2 = [P EXCEPT ![b] = P[p], ![p] = b]
Merged(P, S, p, q, P2, S2) ==
  /\ q = P[p] /\ p < q /\ p + S[p] = q
  /\ P2 = [P EXCEPT ![p] = P[q], ![q] = NULL]
  /\ S2 = [S EXCEPT ![p] = S[p] + S[q], ![q] = 0]
NoNewTouch(P, S, P2, S2) == \A x, y : Touch(P2, S2, x, y) => Touch(P, S, x, y)
Unlinked(P, p, m, P2) == m = P[p] /\ P2 = [P EXCEPT ![p] = P[m], ![m] = NULL]
Cut(S, m, u, t, S2) == t = m + (S[m] - u) /\ S2 = [S EXCEPT ![m] = S[m] - u, ![t] = u]
Written(S, b, u, S2) == S2 = [S EXCEPT ![b] = u]
LinkTouch(P, S, p, b, P2) ==
  \A x, y : Touch(P2, S, x, y) => Touch(P, S, x, y) \/ (x = b /\ y = P[p]) \/ (x = p /\ y = b)
MergeTouch(P, S, p, q, P2, S2) ==
  \A x, y : Touch(P2, S2, x, y) => y # q /\ (Touch(P, S, x, y) \/ (x = p /\ Touch(P, S, q, y)))
MergeResult(P, S, H, B, p, q, P2, S2) ==
  /\ HeapList(P2, S2, H, B) /\ On(P2) = On(P) \ {q} /\ p \in On(P2)
  /\ P2[p] = P[q] /\ S2[p] >= S[p] /\ S2[p] >= S[q]
  /\ \A x \in Addrs : x # p /\ x # q => P2[x] = P[x] /\ S2[x] = S[x]
  /\ MergeTouch(P, S, p, q, P2, S2)

LEMMA HeapAddrs ==
  /\ Base \in Addrs /\ Heap \in Addrs /\ NULL \notin Addrs /\ Base = 0 /\ Heap = 2
  /\ \A a \in Addrs : a \in Nat /\ a >= 0 /\ a <= Heap + MaxUnits
  /\ \A a \in Nat : a <= Heap + MaxUnits => a \in Addrs
  /\ MaxUnits \in Nat /\ MaxRequest \in Nat /\ NALLOC \in Nat \ {0}
  /\ Heap + MaxUnits \in Nat
BY HeapAssumption DEF Base, Heap, Addrs, NULL

\* A block b is hung in behind p, where it belongs.
LEMMA LinkKeeps ==
  ASSUME NEW P, NEW S, NEW H, NEW B, NEW b \in Addrs, b \notin H, NEW p \in On(P),
         HeapList(P, S, H \cup {b}, B), Fits(P, p, b), NEW P2, Linked(P, p, b, P2)
  PROVE  /\ HeapList(P2, S, H, B) /\ b \in On(P2) /\ p \in On(P2) /\ P2[p] = b /\ P2[b] = P[p]
         /\ p < b /\ LinkTouch(P, S, p, b, P2)
<1> DEFINE q == P[p]
<1>1. /\ ListTypes(P, S, H \cup {b}) /\ Disjoint(P, S, H \cup {b}) /\ InHeap(P, S, H \cup {b}, B)
      /\ Sorted(P) /\ On(P) \cap (H \cup {b}) = {} /\ Base \notin H \cup {b} /\ S[Base] = 0
  BY DEF HeapList
<1>2. p \in Addrs /\ q \in Addrs /\ q \in On(P) /\ b \notin On(P) /\ b # Base /\ p # b /\ q # b
  BY <1>1 DEF Sorted, On
<1>3. P \in [Addrs -> Addrs \cup {NULL}] /\ S \in [Addrs -> Nat] /\ H \in SUBSET Addrs
  BY <1>1 DEF ListTypes
<1>4. P2 \in [Addrs -> Addrs \cup {NULL}]
  BY <1>2, <1>3 DEF Linked
<1>5. P2[p] = b /\ P2[b] = q /\ \A x \in Addrs : x # p /\ x # b => P2[x] = P[x]
  BY <1>2, <1>3 DEF Linked
<1>6. On(P2) = On(P) \cup {b}
  <2>1. ASSUME NEW x \in Addrs PROVE P2[x] # NULL <=> P[x] # NULL \/ x = b
    BY <1>2, <1>5, HeapAddrs DEF On
  <2> QED BY <2>1 DEF On
<1>7. /\ p \in Nat /\ q \in Nat /\ b \in Nat /\ p < b
      /\ (b < q /\ p < q) \/ (q = Base /\ q <= p)
  <2>1. p \in Nat /\ q \in Nat /\ b \in Nat
    BY <1>2, HeapAddrs
  <2>2. (p < b /\ b < q) \/ (p >= q /\ (b > p \/ b < q))
    BY DEF Fits
  <2>3. p < q \/ Base = q
    BY <1>1 DEF Sorted
  <2> QED BY <2>1, <2>2, <2>3, HeapAddrs
<1>8. On(P2) \cup H = On(P) \cup (H \cup {b})
  BY <1>6
<1>9. ListTypes(P2, S, H) /\ Disjoint(P2, S, H) /\ InHeap(P2, S, H, B)
  BY <1>1, <1>3, <1>4, <1>8 DEF ListTypes, Disjoint, InHeap
<1>10. Sorted(P2)
  <2> SUFFICES ASSUME NEW a \in On(P2), NEW c \in On(P2)
               PROVE  /\ P2[a] \in On(P2)
                      /\ IF a < P2[a] THEN c <= a \/ P2[a] <= c ELSE Base = P2[a] /\ c <= a
    BY DEF Sorted
  <2>0. a \in Nat /\ c \in Nat /\ a \in Addrs /\ c \in Addrs
    BY HeapAddrs DEF On
  <2>1. CASE a = p
    <3>1. c # b => c \in On(P)
      BY <1>6
    <3>2. c # b => IF p < q THEN c <= p \/ q <= c ELSE Base = q /\ c <= p
      BY <1>1, <3>1 DEF Sorted
    <3>3. P2[a] = b /\ b \in On(P2) /\ a < P2[a]
      BY <2>1, <1>5, <1>6, <1>7
    <3>4. c <= a \/ b <= c
      BY <2>0, <2>1, <3>2, <1>7
    <3> QED BY <3>3, <3>4
  <2>2. CASE a = b
    <3>1. c # b => IF p < q THEN c <= p \/ q <= c ELSE Base = q /\ c <= p
      BY <1>1, <1>6 DEF Sorted
    <3>2. P2[a] = q /\ q \in On(P2)
      BY <2>2, <1>2, <1>5, <1>6
    <3>3. b < q => c <= b \/ q <= c
      BY <2>0, <3>1, <1>7
    <3>4. ~(b < q) => Base = q /\ c <= b
      BY <2>0, <3>1, <1>7, HeapAddrs
    <3> QED BY <2>2, <3>2, <3>3, <3>4
  <2>3. CASE a # p /\ a # b
    <3>1. a \in On(P) /\ P2[a] = P[a]
      BY <2>0, <2>3, <1>5, <1>6
    <3>2. /\ P[a] \in On(P) /\ P[a] \in Nat
          /\ \A x \in On(P) : IF a < P[a] THEN x <= a \/ P[a] <= x ELSE Base = P[a] /\ x <= a
      BY <1>1, <3>1, HeapAddrs DEF Sorted, On
    <3>3. IF p < q THEN a <= p \/ q <= a ELSE Base = q /\ a <= p
      BY <1>1, <3>1 DEF Sorted
    <3>4. c = b => IF a < P[a] THEN c <= a \/ P[a] <= c ELSE Base = P[a] /\ c <= a
      <4>1. IF a < P[a] THEN p <= a \/ P[a] <= p ELSE Base = P[a] /\ p <= a
        BY <3>2
      <4>2. IF a < P[a] THEN q <= a \/ P[a] <= q ELSE Base = P[a] /\ q <= a
        BY <3>2, <1>2
      <4> QED BY <2>0, <2>3, <3>2, <3>3, <4>1, <4>2, <1>7, HeapAddrs
    <3> QED BY <3>1, <3>2, <3>4, <1>6
  <2> QED BY <2>1, <2>2, <2>3
<1>11. HeapList(P2, S, H, B)
  BY <1>1, <1>6, <1>9, <1>10 DEF HeapList
<1>12. ASSUME NEW x, NEW y, Touch(P2, S, x, y)
       PROVE  Touch(P, S, x, y) \/ (x = b /\ y = q) \/ (x = p /\ y = b)
  <2>1. x \in On(P2) /\ y \in On(P2) /\ x # y /\ x + S[x] = y
    BY <1>12 DEF Touch
  <2>2. x \in Nat /\ y \in Nat /\ x \in Addrs /\ y \in Addrs /\ S[x] \in Nat
    BY <2>1, <1>3, HeapAddrs DEF On
  <2>3. x < y
    BY <2>1, <2>2
  <2>4. CASE x = b
    <3>1. y \in On(P)
      BY <2>1, <2>4, <1>6
    <3>2. IF p < q THEN y <= p \/ q <= y ELSE Base = q /\ y <= p
      BY <3>1, <1>1 DEF Sorted
    <3>3. q < y => b + S[b] <= q /\ q + S[q] <= y /\ (q # Base => S[q] > 0)
      <4>1. b < q => b + S[b] <= q
        BY <1>1, <1>2 DEF Disjoint
      <4>2. q < y => q + S[q] <= y
        BY <1>1, <1>2, <3>1 DEF Disjoint
      <4>3. q # Base => S[q] > 0
        BY <1>1, <1>2 DEF InHeap
      <4> QED BY <4>1, <4>2, <4>3, <3>2, <1>7, <2>2, <2>3, <2>4
    <3>4. S[q] \in Nat /\ S[b] \in Nat
      BY <1>2, <1>3
    <3> QED BY <2>1, <2>2, <2>3, <2>4, <3>2, <3>3, <3>4, <1>7, HeapAddrs
  <2>5. CASE x # b /\ y = b
    <3>1. x \in On(P)
      BY <2>1, <2>5, <1>6
    <3>2. IF p < q THEN x <= p \/ q <= x ELSE Base = q /\ x <= p
      BY <3>1, <1>1 DEF Sorted
    <3>3. x < p => x + S[x] <= p
      BY <1>1, <3>1 DEF Disjoint
    <3> QED BY <2>1, <2>2, <2>3, <2>5, <3>2, <3>3, <1>7
  <2>6. CASE x # b /\ y # b
    BY <2>1, <2>6, <1>6 DEF Touch
  <2> QED BY <2>4, <2>5, <2>6
<1> QED BY <1>5, <1>6, <1>7, <1>11, <1>12 DEF LinkTouch

\* A block is joined with the next, which begins where it ends.
LEMMA MergeKeeps ==
  ASSUME NEW P, NEW S, NEW H, NEW B, NEW p \in On(P), NEW q, HeapList(P, S, H, B),
         NEW P2, NEW S2, Merged(P, S, p, q, P2, S2)
  PROVE  MergeResult(P, S, H, B, p, q, P2, S2)
<1>0. /\ q = P[p] /\ p < q /\ p + S[p] = q
      /\ P2 = [P EXCEPT ![p] = P[q], ![q] = NULL]
      /\ S2 = [S EXCEPT ![p] = S[p] + S[q], ![q] = 0]
  BY DEF Merged
<1>1. /\ ListTypes(P, S, H) /\ Disjoint(P, S, H) /\ InHeap(P, S, H, B)
      /\ Sorted(P) /\ On(P) \cap H = {} /\ Base \notin H /\ S[Base] = 0
  BY DEF HeapList
<1>2. P \in [Addrs -> Addrs \cup {NULL}] /\ S \in [Addrs -> Nat] /\ H \in SUBSET Addrs
  BY <1>0, <1>1 DEF ListTypes
<1>3. p \in Addrs /\ q \in Addrs /\ q \in On(P) /\ P[q] \in On(P) /\ P[q] \in Addrs
  BY <1>0, <1>1 DEF Sorted, On
<1>4. p \in Nat /\ q \in Nat /\ p < q /\ q # Base /\ p # q /\ P[q] \in Nat /\ q # NULL /\ P[q] # NULL
  BY <1>0, <1>3, HeapAddrs
<1>5. p # Base /\ S[p] \in Nat /\ S[q] \in Nat /\ S[q] > 0
  BY <1>0, <1>1, <1>2, <1>3, <1>4, HeapAddrs DEF InHeap
<1>6. P[q] # q
  BY <1>0, <1>1, <1>3, <1>4 DEF Sorted
<1>7. P2 \in [Addrs -> Addrs \cup {NULL}] /\ S2 \in [Addrs -> Nat]
  <2>1. S[p] + S[q] \in Nat
    BY <1>0, <1>5
  <2> QED BY <1>0, <1>2, <1>3, <2>1
<1>8. /\ P2[p] = P[q] /\ P2[q] = NULL /\ S2[p] = S[p] + S[q] /\ S2[q] = 0
      /\ \A x \in Addrs : x # p /\ x # q => P2[x] = P[x] /\ S2[x] = S[x]
  BY <1>0, <1>2, <1>3, <1>4
<1>9. On(P2) = On(P) \ {q}
  <2>1. ASSUME NEW x \in Addrs PROVE P2[x] # NULL <=> P[x] # NULL /\ x # q
    BY <1>0, <1>3, <1>4, <1>8 DEF On
  <2> QED BY <1>0, <2>1 DEF On
<1>10. Disjoint(P2, S2, H)
  <2> SUFFICES ASSUME NEW a \in On(P2) \cup H, NEW b \in On(P2) \cup H, a < b
               PROVE  a + S2[a] <= b
    BY DEF Disjoint
  <2>1. a \in Addrs /\ b \in Addrs /\ a \in On(P) \cup H /\ b \in On(P) \cup H /\ a # q /\ b # q
    BY <1>0, <1>1, <1>2, <1>3, <1>9 DEF On
  <2>2. a \in Nat /\ b \in Nat /\ a + S[a] <= b
    BY <1>0, <1>1, <2>1, HeapAddrs DEF Disjoint
  <2>3. CASE a = p
    <3>1. q <= b
      BY <1>0, <2>2, <2>3
    <3>2. q + S[q] <= b
      BY <1>0, <1>1, <1>3, <1>4, <2>1, <2>2, <3>1 DEF Disjoint
    <3> QED BY <1>0, <2>2, <2>3, <3>2, <1>4, <1>5, <1>8
  <2>4. CASE a # p
    BY <1>0, <2>1, <2>2, <2>4, <1>8
  <2> QED BY <1>0, <2>3, <2>4
<1>11. InHeap(P2, S2, H, B)
  <2> SUFFICES ASSUME NEW a \in On(P2) \cup H, a # Base
               PROVE  S2[a] > 0 /\ a >= Heap /\ a + S2[a] <= B
    BY DEF InHeap
  <2>1. a \in Addrs /\ a \in On(P) \cup H /\ a # q
    BY <1>0, <1>1, <1>2, <1>3, <1>9 DEF On
  <2>2. S[a] > 0 /\ a >= Heap /\ a + S[a] <= B
    BY <1>0, <1>1, <2>1 DEF InHeap
  <2>3. q + S[q] <= B
    BY <1>0, <1>1, <1>3, <1>4 DEF InHeap
  <2>4. CASE a = p
    <3>1. p + (S[p] + S[q]) = q + S[q]
      BY <1>0, <1>4, <1>5
    <3> QED BY <1>0, <2>2, <2>3, <2>4, <3>1, <1>5, <1>8
  <2>5. CASE a # p
    BY <1>0, <2>1, <2>2, <2>5, <1>8
  <2> QED BY <1>0, <2>4, <2>5
<1>12. Sorted(P2)
  <2> SUFFICES ASSUME NEW a \in On(P2), NEW c \in On(P2)
               PROVE  /\ P2[a] \in On(P2)
                      /\ IF a < P2[a] THEN c <= a \/ P2[a] <= c ELSE Base = P2[a] /\ c <= a
    BY DEF Sorted
  <2>0. a \in Nat /\ c \in Nat /\ a \in Addrs /\ c \in Addrs /\ a \in On(P) /\ c \in On(P) /\ a # q /\ c # q
    BY <1>0, <1>9, HeapAddrs DEF On
  <2>1. IF q < P[q] THEN c <= q \/ P[q] <= c ELSE Base = P[q] /\ c <= q
    BY <1>0, <1>1, <1>3, <2>0 DEF Sorted
  <2>2. c <= p \/ q <= c
    BY <1>0, <1>1, <1>4, <2>0 DEF Sorted
  <2>3. CASE a = p
    <3>1. P2[a] \in On(P2)
      BY <1>0, <2>3, <1>3, <1>6, <1>8, <1>9
    <3> QED BY <1>0, <2>0, <2>1, <2>2, <2>3, <3>1, <1>4, <1>8, HeapAddrs
  <2>4. CASE a # p
    <3>1. /\ P2[a] = P[a] /\ P[a] \in On(P)
          /\ IF a < P[a] THEN c <= a \/ P[a] <= c ELSE Base = P[a] /\ c <= a
      BY <1>0, <1>1, <1>8, <2>0, <2>4 DEF Sorted
    <3>2. P[a] # q
      <4>1. P[a] = q => (IF a < q THEN p <= a \/ q <= p ELSE Base = q)
        BY <1>0, <1>1, <2>0 DEF Sorted
      <4>2. a <= p \/ q <= a
        BY <1>0, <1>1, <1>4, <2>0 DEF Sorted
      <4> QED BY <1>0, <2>0, <2>4, <4>1, <4>2, <1>4
    <3> QED BY <1>0, <3>1, <3>2, <1>9
  <2> QED BY <1>0, <2>3, <2>4
<1>13. HeapList(P2, S2, H, B)
  <2>1. S2[Base] = 0
    BY <1>0, <1>1, <1>4, <1>5, <1>8, HeapAddrs
  <2>2. ListTypes(P2, S2, H)
    BY <1>0, <1>2, <1>7 DEF ListTypes
  <2> QED BY <1>0, <1>1, <1>9, <1>10, <1>11, <1>12, <2>1, <2>2 DEF HeapList
<1>14. ASSUME NEW x, NEW y, Touch(P2, S2, x, y)
       PROVE  y # q /\ (Touch(P, S, x, y) \/ (x = p /\ Touch(P, S, q, y)))
  <2>1. x \in On(P) /\ y \in On(P) /\ x # y /\ x + S2[x] = y /\ x # q /\ y # q /\ x \in Addrs
    BY <1>0, <1>9, <1>14 DEF Touch, On
  <2>2. CASE x = p
    <3>1. p + (S[p] + S[q]) = q + S[q]
      BY <1>0, <1>4, <1>5
    <3> QED BY <1>0, <2>1, <2>2, <3>1, <1>3, <1>8 DEF Touch
  <2>3. CASE x # p
    BY <1>0, <2>1, <2>3, <1>8 DEF Touch
  <2> QED BY <1>0, <2>1, <2>2, <2>3
<1>15. p \in On(P2) /\ S2[p] >= S[p] /\ S2[p] >= S[q]
  <2>1. p \in On(P2)
    BY <1>0, <1>4, <1>9
  <2>2. S2[p] = S[p] + S[q]
    BY <1>0, <1>8
  <2> QED BY <1>0, <2>1, <2>2, <1>5
<1> QED BY <1>8, <1>9, <1>13, <1>14, <1>15 DEF MergeTouch, MergeResult

\* A block is taken off the list.
LEMMA UnlinkKeeps ==
  ASSUME NEW P, NEW S, NEW H, NEW B, NEW p \in On(P), NEW m, m # Base,
         HeapList(P, S, H, B), NEW P2, Unlinked(P, p, m, P2)
  PROVE  HeapList(P2, S, H \cup {m}, B) /\ p \in On(P2) /\ NoNewTouch(P, S, P2, S)
<1>0. m = P[p] /\ P2 = [P EXCEPT ![p] = P[m], ![m] = NULL]
  BY DEF Unlinked
<1>1. /\ ListTypes(P, S, H) /\ Disjoint(P, S, H) /\ InHeap(P, S, H, B)
      /\ Sorted(P) /\ On(P) \cap H = {} /\ Base \notin H /\ S[Base] = 0
  BY DEF HeapList
<1>2. P \in [Addrs -> Addrs \cup {NULL}] /\ S \in [Addrs -> Nat] /\ H \in SUBSET Addrs
  BY <1>0, <1>1 DEF ListTypes
<1>3. p \in Addrs /\ m \in Addrs /\ m \in On(P) /\ P[m] \in On(P) /\ P[m] \in Addrs
  BY <1>0, <1>1 DEF Sorted, On
<1>4. p \in Nat /\ m \in Nat /\ P[m] \in Nat /\ P[m] # NULL
  BY <1>0, <1>3, HeapAddrs
<1>5. p < m
  BY <1>0, <1>1, <1>4 DEF Sorted
<1>6. P[m] # m
  <2>1. IF m < P[m] THEN m <= m \/ P[m] <= m ELSE Base = P[m] /\ m <= m
    BY <1>0, <1>1, <1>3 DEF Sorted
  <2> QED BY <1>0, <2>1, <1>4
<1>7. P2 \in [Addrs -> Addrs \cup {NULL}]
  BY <1>0, <1>2, <1>3
<1>8. P2[p] = P[m] /\ P2[m] = NULL /\ \A x \in Addrs : x # p /\ x # m => P2[x] = P[x]
  BY <1>0, <1>2, <1>3, <1>5
<1>9. On(P2) = On(P) \ {m}
  <2>1. ASSUME NEW x \in Addrs PROVE P2[x] # NULL <=> P[x] # NULL /\ x # m
    BY <1>0, <1>3, <1>4, <1>5, <1>8 DEF On
  <2> QED BY <1>0, <2>1 DEF On
<1>10. On(P2) \cup (H \cup {m}) = On(P) \cup H
  BY <1>0, <1>3, <1>9
<1>11. Disjoint(P2, S, H \cup {m}) /\ InHeap(P2, S, H \cup {m}, B)
  BY <1>0, <1>1, <1>10 DEF Disjoint, InHeap
<1>12. Sorted(P2)
  <2> SUFFICES ASSUME NEW a \in On(P2), NEW c \in On(P2)
               PROVE  /\ P2[a] \in On(P2)
                      /\ IF a < P2[a] THEN c <= a \/ P2[a] <= c ELSE Base = P2[a] /\ c <= a
    BY DEF Sorted
  <2>0. a \in Nat /\ c \in Nat /\ a \in Addrs /\ c \in Addrs /\ a \in On(P) /\ c \in On(P) /\ a # m /\ c # m
    BY <1>0, <1>9, HeapAddrs DEF On
  <2>1. IF m < P[m] THEN c <= m \/ P[m] <= c ELSE Base = P[m] /\ c <= m
    BY <1>0, <1>1, <1>3, <2>0 DEF Sorted
  <2>2. c <= p \/ m <= c
    BY <1>0, <1>1, <1>5, <2>0 DEF Sorted
  <2>3. CASE a = p
    <3>1. P2[a] \in On(P2)
      BY <1>0, <2>3, <1>3, <1>6, <1>8, <1>9
    <3> QED BY <1>0, <2>0, <2>1, <2>2, <2>3, <3>1, <1>4, <1>5, <1>8, HeapAddrs
  <2>4. CASE a # p
    <3>1. /\ P2[a] = P[a] /\ P[a] \in On(P)
          /\ IF a < P[a] THEN c <= a \/ P[a] <= c ELSE Base = P[a] /\ c <= a
      BY <1>0, <1>1, <1>8, <2>0, <2>4 DEF Sorted
    <3>2. P[a] # m
      <4>1. P[a] = m => (IF a < m THEN p <= a \/ m <= p ELSE Base = m)
        BY <1>0, <1>1, <2>0 DEF Sorted
      <4>2. a <= p \/ m <= a
        BY <1>0, <1>1, <1>5, <2>0 DEF Sorted
      <4> QED BY <1>0, <2>0, <2>4, <4>1, <4>2, <1>4, <1>5
    <3> QED BY <1>0, <3>1, <3>2, <1>9
  <2> QED BY <1>0, <2>3, <2>4
<1>13. HeapList(P2, S, H \cup {m}, B)
  <2>1. ListTypes(P2, S, H \cup {m})
    BY <1>0, <1>2, <1>3, <1>7 DEF ListTypes
  <2> QED BY <1>0, <1>1, <1>9, <1>11, <1>12, <2>1 DEF HeapList
<1>14. ASSUME NEW x, NEW y, Touch(P2, S, x, y) PROVE Touch(P, S, x, y)
  BY <1>0, <1>9, <1>14 DEF Touch
<1>15. p \in On(P2)
  <2>1. p # m
    BY <1>0, <1>4, <1>5
  <2> QED BY <1>0, <2>1, <1>9
<1> QED BY <1>13, <1>14, <1>15 DEF NoNewTouch

\* The tail of a block on the list is cut off.
LEMMA SplitKeeps ==
  ASSUME NEW P, NEW S, NEW H, NEW B \in Nat, B <= Heap + MaxUnits, NEW m \in On(P), m # Base,
         NEW u \in Nat, u > 0, u < S[m], NEW t,
         HeapList(P, S, H, B), NEW S2, Cut(S, m, u, t, S2)
  PROVE  HeapList(P, S2, H \cup {t}, B) /\ NoNewTouch(P, S, P, S2)
<1>0. t = m + (S[m] - u) /\ S2 = [S EXCEPT ![m] = S[m] - u, ![t] = u]
  BY DEF Cut
<1>1. /\ ListTypes(P, S, H) /\ Disjoint(P, S, H) /\ InHeap(P, S, H, B)
      /\ Sorted(P) /\ On(P) \cap H = {} /\ Base \notin H /\ S[Base] = 0
  BY DEF HeapList
<1>2. P \in [Addrs -> Addrs \cup {NULL}] /\ S \in [Addrs -> Nat] /\ H \in SUBSET Addrs
  BY <1>0, <1>1 DEF ListTypes
<1>3. m \in Addrs /\ m \in Nat /\ S[m] \in Nat /\ m >= Heap /\ m + S[m] <= B /\ m \notin H
  BY <1>0, <1>1, <1>2, HeapAddrs DEF On, InHeap
<1>4. t \in Nat /\ m < t /\ t + u = m + S[m] /\ S[m] - u \in Nat /\ S[m] - u > 0 /\ m + (S[m] - u) = t
  BY <1>0, <1>3
<1>5. t \in Addrs /\ t # Base /\ t >= Heap
  <2>1. t <= Heap + MaxUnits /\ t >= Heap
    BY <1>0, <1>3, <1>4, HeapAddrs
  <2> QED BY <1>0, <1>4, <2>1, HeapAddrs
<1>6. ASSUME NEW a \in On(P) \cup H, a # m
      PROVE  a \in Nat /\ a \in Addrs /\ a # t /\ (a < m => a + S[a] <= m) /\ (m < a => t + u <= a)
             /\ (a < t => a + S[a] <= t)
  <2>1. a \in Nat /\ a \in Addrs /\ S[a] \in Nat
    BY <1>0, <1>2, HeapAddrs DEF On
  <2>2. (a < m => a + S[a] <= m) /\ (m < a => m + S[m] <= a)
    BY <1>0, <1>1, <1>6 DEF Disjoint
  <2> QED BY <1>0, <2>1, <2>2, <1>3, <1>4, <1>6
<1>7. t \notin On(P) /\ t \notin H
  BY <1>0, <1>3, <1>4, <1>6
<1>8. S2 \in [Addrs -> Nat]
  BY <1>0, <1>2, <1>3, <1>4, <1>5
<1>9. S2[m] = S[m] - u /\ S2[t] = u /\ \A x \in Addrs : x # m /\ x # t => S2[x] = S[x]
  BY <1>0, <1>2, <1>3, <1>4, <1>5
<1>10. Disjoint(P, S2, H \cup {t})
  <2> SUFFICES ASSUME NEW a \in On(P) \cup (H \cup {t}), NEW b \in On(P) \cup (H \cup {t}), a < b
               PROVE  a + S2[a] <= b
    BY DEF Disjoint
  <2>1. CASE a = t
    <3>1. b # t /\ b # m
      BY <1>0, <2>1, <1>3, <1>4
    <3> QED BY <1>0, <2>1, <3>1, <1>3, <1>4, <1>6, <1>9
  <2>2. CASE a = m
    <3>1. b = t \/ (b # m /\ t + u <= b)
      BY <1>0, <2>2, <1>3, <1>6
    <3>2. b \in Nat
      BY <1>0, <3>1, <1>4, <1>6
    <3>3. m + S2[m] = t
      BY <1>0, <1>4, <1>9
    <3> QED BY <1>0, <2>2, <3>1, <3>2, <3>3, <1>4
  <2>3. CASE a # t /\ a # m
    <3>1. a \in Addrs /\ S2[a] = S[a] /\ a \in On(P) \cup H
      BY <1>0, <2>3, <1>6, <1>9
    <3>2. CASE b = t
      BY <1>0, <3>1, <3>2, <2>3, <1>6
    <3>3. CASE b # t
      <4>1. b \in On(P) \cup H
        BY <1>0, <3>3
      <4> QED BY <1>0, <3>1, <4>1, <1>1 DEF Disjoint
    <3> QED BY <1>0, <3>2, <3>3
  <2> QED BY <1>0, <2>1, <2>2, <2>3
<1>11. InHeap(P, S2, H \cup {t}, B)
  <2> SUFFICES ASSUME NEW a \in On(P) \cup (H \cup {t}), a # Base
               PROVE  S2[a] > 0 /\ a >= Heap /\ a + S2[a] <= B
    BY DEF InHeap
  <2>1. CASE a = t
    BY <1>0, <2>1, <1>3, <1>4, <1>5, <1>9
  <2>2. CASE a = m
    BY <1>0, <2>2, <1>3, <1>4, <1>9
  <2>3. CASE a # t /\ a # m
    <3>1. a \in Addrs /\ S2[a] = S[a] /\ a \in On(P) \cup H
      BY <1>0, <2>3, <1>6, <1>9
    <3> QED BY <1>0, <3>1, <1>1 DEF InHeap
  <2> QED BY <1>0, <2>1, <2>2, <2>3
<1>12. HeapList(P, S2, H \cup {t}, B)
  <2>1. ListTypes(P, S2, H \cup {t})
    BY <1>0, <1>2, <1>5, <1>8 DEF ListTypes
  <2>2. S2[Base] = 0
    BY <1>0, <1>1, <1>5, <1>9, HeapAddrs
  <2> QED BY <1>0, <1>1, <1>5, <1>7, <1>10, <1>11, <2>1, <2>2 DEF HeapList
<1>13. ASSUME NEW x, NEW y, Touch(P, S2, x, y) PROVE Touch(P, S, x, y)
  <2>1. x \in On(P) /\ y \in On(P) /\ x # y /\ x + S2[x] = y
    BY <1>0, <1>13 DEF Touch
  <2>2. x # m
    BY <1>0, <2>1, <1>4, <1>7, <1>9
  <2>3. S2[x] = S[x]
    BY <1>0, <2>1, <2>2, <1>6, <1>9
  <2> QED BY <1>0, <2>1, <2>3 DEF Touch
<1> QED BY <1>12, <1>13 DEF NoNewTouch

\* More memory at the end of the heap, u units of it a block.
LEMMA ExtendKeeps ==
  ASSUME NEW P, NEW S, NEW H, NEW B \in Nat, B >= Heap, NEW u \in Nat, u > 0, B + u <= Heap + MaxUnits,
         HeapList(P, S, H, B), NEW S2, Written(S, B, u, S2)
  PROVE  /\ HeapList(P, S2, H \cup {B}, B + u) /\ B \notin H /\ B \in Addrs /\ S2[B] = u
         /\ NoNewTouch(P, S, P, S2)
<1>1. /\ ListTypes(P, S, H) /\ Disjoint(P, S, H) /\ InHeap(P, S, H, B)
      /\ Sorted(P) /\ On(P) \cap H = {} /\ Base \notin H /\ S[Base] = 0
  BY DEF HeapList
<1>2. P \in [Addrs -> Addrs \cup {NULL}] /\ S \in [Addrs -> Nat] /\ H \in SUBSET Addrs
  BY <1>1 DEF ListTypes
<1>3. B \in Addrs /\ B # Base
  BY HeapAddrs
<1>4. ASSUME NEW a \in On(P) \cup H
      PROVE  a \in Nat /\ a \in Addrs /\ S[a] \in Nat /\ a < B /\ a + S[a] <= B
  <2>1. a \in Nat /\ a \in Addrs /\ S[a] \in Nat
    BY <1>2, HeapAddrs DEF On
  <2>2. a # Base => S[a] > 0 /\ a + S[a] <= B
    BY <1>1 DEF InHeap
  <2> QED BY <2>1, <2>2, <1>1, HeapAddrs
<1>5. S2 \in [Addrs -> Nat] /\ S2[B] = u /\ \A x \in Addrs : x # B => S2[x] = S[x]
  BY <1>2, <1>3 DEF Written
<1>6. B \notin On(P) /\ B \notin H
  BY <1>4
<1>7. Disjoint(P, S2, H \cup {B})
  <2> SUFFICES ASSUME NEW a \in On(P) \cup (H \cup {B}), NEW b \in On(P) \cup (H \cup {B}), a < b
               PROVE  a + S2[a] <= b
    BY DEF Disjoint
  <2>1. a # B
    BY <1>4
  <2>2. a \in On(P) \cup H /\ S2[a] = S[a]
    BY <2>1, <1>4, <1>5
  <2>3. CASE b = B
    BY <2>2, <2>3, <1>4
  <2>4. CASE b # B
    <3>1. b \in On(P) \cup H
      BY <2>4
    <3> QED BY <2>2, <3>1, <1>1 DEF Disjoint
  <2> QED BY <2>3, <2>4
<1>8. InHeap(P, S2, H \cup {B}, B + u)
  <2> SUFFICES ASSUME NEW a \in On(P) \cup (H \cup {B}), a # Base
               PROVE  S2[a] > 0 /\ a >= Heap /\ a + S2[a] <= B + u
    BY DEF InHeap
  <2>1. CASE a = B
    BY <2>1, <1>5
  <2>2. CASE a # B
    <3>1. a \in On(P) \cup H /\ S2[a] = S[a]
      BY <2>2, <1>4, <1>5
    <3>2. S[a] > 0 /\ a >= Heap
      BY <3>1, <1>1 DEF InHeap
    <3> QED BY <3>1, <3>2, <1>4
  <2> QED BY <2>1, <2>2
<1>9. HeapList(P, S2, H \cup {B}, B + u)
  <2>1. ListTypes(P, S2, H \cup {B})
    BY <1>2, <1>3, <1>5 DEF ListTypes
  <2>2. S2[Base] = 0
    BY <1>1, <1>3, <1>5, HeapAddrs
  <2> QED BY <1>1, <1>3, <1>6, <1>7, <1>8, <2>1, <2>2 DEF HeapList
<1>10. ASSUME NEW x, NEW y, Touch(P, S2, x, y) PROVE Touch(P, S, x, y)
  <2>1. S2[x] = S[x]
    BY <1>4, <1>5, <1>10 DEF Touch
  <2> QED BY <1>10, <2>1 DEF Touch
<1> QED BY <1>3, <1>5, <1>6, <1>9, <1>10 DEF NoNewTouch

\* The variables beside the headers.  The rest of the ring, from freep to where
\* free() is, has been passed.
HeapTypes ==
  /\ brk \in Heap..(Heap + MaxUnits)
  /\ incall \in {"", "malloc", "free", "morecore"}
  /\ nunits \in Nat /\ grown \in BOOLEAN
  /\ incall \in {"", "malloc"} => bp = NULL
  /\ incall = "" => grown = FALSE
  /\ freep = NULL => On(ptr) = {} /\ live = {}
  /\ freep # NULL => freep \in On(ptr)
Passed(a) == IF freep <= fp THEN freep <= a /\ a < fp ELSE freep <= a \/ a < fp
FreeWalk ==
  incall \in {"free", "morecore"} =>
    /\ fp \in On(ptr) /\ freep # NULL /\ bp \in Addrs /\ bp \notin live
    /\ \A a \in On(ptr) : Passed(a) => ~Belongs(a, bp)
MallocWalk ==
  /\ incall \in {"malloc", "morecore"} => nunits > 0 /\ freep # NULL
  /\ incall = "malloc" => prevp \in On(ptr) /\ mp = ptr[prevp]
  /\ incall = "morecore" => size[bp] >= nunits
  /\ incall = "malloc" /\ grown => size[freep] >= nunits \/ (prevp = freep /\ size[mp] >= nunits)
Joined == \A x, y \in Addrs : ~Touch(ptr, size, x, y)

\* The inductive invariant.
HeapInv ==
  /\ HeapList(ptr, size, Held, brk) /\ Joined
  /\ HeapTypes /\ FreeWalk /\ MallocWalk

\* No two free blocks touch if no others do than before.
LEMMA JoinedKept ==
  ASSUME Joined, NEW P, NEW S, NoNewTouch(ptr, size, P, S)
  PROVE  \A x, y : ~Touch(P, S, x, y)
<1>1. ASSUME NEW x, NEW y, Touch(ptr, size, x, y) PROVE FALSE
  BY <1>1 DEF Touch, Joined, On
<1> QED BY <1>1 DEF NoNewTouch

LEMMA HeapStarts == heapinit => HeapInv
<1> SUFFICES ASSUME heapinit PROVE HeapInv
  OBVIOUS
<1>1. On(ptr) = {}
  BY DEF heapinit, On
<1>2. Held = {}
  BY DEF heapinit, Held
<1>3. HeapList(ptr, size, Held, brk)
  <2>1. ListTypes(ptr, size, Held)
    BY <1>2 DEF heapinit, ListTypes
  <2>2. size[Base] = 0
    BY HeapAddrs DEF heapinit
  <2> QED BY <1>1, <1>2, <2>1, <2>2 DEF HeapList, Disjoint, InHeap, Sorted
<1>4. Joined
  BY <1>1 DEF Joined, Touch
<1>5. HeapTypes
  <2>1. brk \in Heap..(Heap + MaxUnits)
    <3>1. brk = Heap
      BY DEF heapinit
    <3> QED BY <3>1, HeapAddrs
  <2>2. incall = "" /\ nunits = 0 /\ grown = FALSE /\ bp = NULL /\ freep = NULL /\ live = {}
    BY DEF heapinit
  <2> QED BY <1>1, <2>1, <2>2 DEF HeapTypes
<1>6. FreeWalk /\ MallocWalk
  BY DEF heapinit, FreeWalk, MallocWalk
<1> QED BY <1>3, <1>4, <1>5, <1>6 DEF HeapInv

LEMMA FreeKeeps ==
  ASSUME HeapInv, NEW b \in live, free(b)
  PROVE  HeapInv'
<1>1. HeapList(ptr, size, Held, brk) /\ Joined /\ HeapTypes /\ FreeWalk /\ MallocWalk
  BY DEF HeapInv
<1>2. /\ incall = "" /\ incall' = "free" /\ bp' = b /\ fp' = freep /\ live' = live \ {b}
      /\ ptr' = ptr /\ size' = size /\ freep' = freep /\ brk' = brk
      /\ nunits' = nunits /\ grown' = grown
  BY DEF free, headers
<1>3. Held' = Held /\ Held = live
  BY <1>2 DEF Held
<1>4. HeapList(ptr, size, Held, brk)'
  BY <1>1, <1>2, <1>3
<1>5. Joined'
  BY <1>1, <1>2 DEF Joined
<1>6. HeapTypes'
  BY <1>1, <1>2 DEF HeapTypes
<1>7. freep \in On(ptr) /\ freep # NULL /\ freep \in Nat
  <2>1. freep # NULL
    BY <1>1 DEF HeapTypes
  <2> QED BY <1>1, <2>1, HeapAddrs DEF HeapTypes, On
<1>8. FreeWalk'
  <2>1. b \in Addrs
    BY <1>1, <1>3 DEF HeapList, ListTypes
  <2>2. ASSUME NEW a \in On(ptr)' PROVE ~Passed(a)'
    <3>1. a \in Nat
      BY <2>2, HeapAddrs DEF On
    <3>2. freep <= freep /\ ~(freep <= a /\ a < freep)
      BY <3>1, <1>7
    <3>3. freep' = freep /\ fp' = freep
      BY <1>2
    <3> QED BY <3>2, <3>3 DEF Passed
  <2> QED BY <1>2, <1>7, <2>1, <2>2 DEF FreeWalk
<1>9. MallocWalk'
  BY <1>2 DEF MallocWalk
<1> QED BY <1>4, <1>5, <1>6, <1>8, <1>9 DEF HeapInv

\* free() goes on to the next block.
LEMMA PassKeeps ==
  ASSUME HeapInv, incall \in {"free", "morecore"}, ~Belongs(fp, bp), fp' = ptr[fp],
         UNCHANGED <<headers, incall, nunits, prevp, mp, bp, grown, brk, live>>
  PROVE  HeapInv'
<1>1. HeapList(ptr, size, Held, brk) /\ Joined /\ HeapTypes /\ FreeWalk /\ MallocWalk
  BY DEF HeapInv
<1>2. ptr' = ptr /\ size' = size /\ freep' = freep /\ brk' = brk /\ live' = live
  BY DEF headers
<1>3. Held' = Held
  BY <1>2 DEF Held
<1>4. HeapList(ptr, size, Held, brk)'
  BY <1>1, <1>2, <1>3
<1>5. Joined' /\ HeapTypes' /\ MallocWalk'
  BY <1>1, <1>2 DEF Joined, HeapTypes, MallocWalk
<1>6. Sorted(ptr) /\ fp \in On(ptr) /\ freep \in On(ptr) /\ freep # NULL
  BY <1>1 DEF HeapList, FreeWalk, HeapTypes
<1>7. fp \in Nat /\ freep \in Nat /\ ptr[fp] \in On(ptr) /\ ptr[fp] \in Nat
  BY <1>6, HeapAddrs DEF Sorted, On
<1>8. ASSUME NEW a \in On(ptr), Passed(a)' PROVE ~Belongs(a, bp)
  <2>1. a \in Nat
    BY HeapAddrs DEF On
  <2>2. IF fp < ptr[fp] THEN a <= fp \/ ptr[fp] <= a ELSE Base = ptr[fp] /\ a <= fp
    BY <1>6 DEF Sorted
  <2>3. IF fp < ptr[fp] THEN freep <= fp \/ ptr[fp] <= freep ELSE Base = ptr[fp] /\ freep <= fp
    BY <1>6 DEF Sorted
  <2>4. IF freep <= ptr[fp] THEN freep <= a /\ a < ptr[fp] ELSE freep <= a \/ a < ptr[fp]
    BY <1>2, <1>8 DEF Passed
  <2>5. a = fp \/ (IF freep <= fp THEN freep <= a /\ a < fp ELSE freep <= a \/ a < fp)
    BY <2>1, <2>2, <2>3, <2>4, <1>7, HeapAddrs
  <2>6. a = fp \/ Passed(a)
    BY <2>5 DEF Passed
  <2> QED BY <2>6, <1>1 DEF FreeWalk
<1>9. FreeWalk'
  <2>1. ASSUME NEW a \in On(ptr), ~Belongs(a, bp) PROVE ~Belongs(a, bp)'
    BY <1>2, <2>1 DEF Belongs
  <2> QED BY <1>1, <1>2, <1>7, <1>8, <2>1 DEF FreeWalk
<1> QED BY <1>4, <1>5, <1>9 DEF HeapInv

\* The headers after insert(), told as one hanging in and two joins.
LEMMA InsertKeeps ==
  ASSUME HeapInv, incall \in {"free", "morecore"}, Belongs(fp, bp), insert(fp, bp)
  PROVE  /\ HeapList(ptr', size', live, brk) /\ \A x, y : ~Touch(ptr', size', x, y)
         /\ freep' = fp /\ fp \in On(ptr')
         /\ size'[fp] >= size[bp] \/ size'[ptr'[fp]] >= size[bp]
<1> DEFINE p == fp
           b == bp
           q == ptr[fp]
<1>1. HeapList(ptr, size, Held, brk) /\ Joined /\ FreeWalk
  BY DEF HeapInv
<1>2. Held = live \cup {b}
  BY DEF Held
<1>3. p \in On(ptr) /\ b \in Addrs /\ b \notin live
  BY <1>1 DEF FreeWalk
<1>4. Fits(ptr, p, b)
  BY DEF Belongs, Fits
<1>5. HeapList(ptr, size, live \cup {b}, brk)
  BY <1>1, <1>2
<1>0. PICK P1 : P1 = [ptr EXCEPT ![b] = q, ![p] = b]
  OBVIOUS
<1>6. /\ HeapList(P1, size, live, brk) /\ b \in On(P1) /\ p \in On(P1) /\ P1[p] = b /\ P1[b] = q
      /\ p < b /\ LinkTouch(ptr, size, p, b, P1)
  <2>1. Linked(ptr, p, b, P1)
    BY <1>0 DEF Linked
  <2> HIDE DEF p, b
  <2>2. /\ HeapList(P1, size, live, brk) /\ b \in On(P1) /\ p \in On(P1) /\ P1[p] = b /\ P1[b] = ptr[p]
        /\ p < b /\ LinkTouch(ptr, size, p, b, P1)
    BY <1>3, <1>4, <1>5, <2>1, LinkKeeps
  <2> QED BY <2>2 DEF p
<1>7. \A x, y : Touch(P1, size, x, y) => (x = b /\ y = q) \/ (x = p /\ y = b)
  <2>1. ASSUME NEW x, NEW y, Touch(ptr, size, x, y) PROVE FALSE
    BY <2>1, <1>1 DEF Touch, Joined, On
  <2> QED BY <1>6, <2>1 DEF LinkTouch
<1>8. /\ ptr \in [Addrs -> Addrs \cup {NULL}] /\ size \in [Addrs -> Nat]
      /\ p \in Addrs /\ q \in Addrs /\ b \in Nat /\ p \in Nat /\ q \in Nat /\ size[b] \in Nat /\ size[p] \in Nat
      /\ size[b] > 0 /\ q \in On(ptr) /\ b \notin On(ptr)
  <2>1. ListTypes(ptr, size, live \cup {b}) /\ Sorted(ptr) /\ On(ptr) \cap (live \cup {b}) = {}
        /\ InHeap(ptr, size, live \cup {b}, brk) /\ b # Base
    BY <1>5 DEF HeapList
  <2>2. size[b] > 0
    BY <2>1 DEF InHeap
  <2>3. q \in On(ptr)
    BY <1>3, <2>1 DEF Sorted
  <2> QED BY <1>3, <2>1, <2>2, <2>3, HeapAddrs DEF ListTypes, On
<1>9. PICK joins \in BOOLEAN : joins <=> b + size[b] = q
  OBVIOUS
<1>10. PICK size1, ptr1 :
         /\ size1 = (IF joins THEN [size EXCEPT ![b] = size[b] + size[q], ![q] = 0] ELSE size)
         /\ ptr1 = (IF joins THEN [ptr EXCEPT ![b] = ptr[q], ![q] = NULL] ELSE [ptr EXCEPT ![b] = q])
  OBVIOUS
<1>11. /\ freep' = p
       /\ IF p + size1[p] = b
          THEN /\ size' = [size1 EXCEPT ![p] = size1[p] + size1[b], ![b] = 0]
               /\ ptr' = [ptr1 EXCEPT ![p] = ptr1[b], ![b] = NULL]
          ELSE size' = size1 /\ ptr' = [ptr1 EXCEPT ![p] = b]
  BY <1>9, <1>10 DEF insert
<1>12. PICK P2 : P2 = [ptr1 EXCEPT ![p] = b]
  OBVIOUS
<1>13. /\ HeapList(P2, size1, live, brk) /\ b \in On(P2) /\ p \in On(P2) /\ P2[p] = b /\ P2[b] = ptr1[b]
       /\ size1[p] = size[p] /\ size1[b] >= size[b] /\ size1[b] \in Nat
       /\ ptr1 \in [Addrs -> Addrs \cup {NULL}]
       /\ \A x, y : Touch(P2, size1, x, y) => x = p /\ y = b
  <2>1. CASE joins
    <3>1. b < q /\ q # p /\ q # b /\ p # b
      BY <2>1, <1>6, <1>8, <1>9
    <3>2. ptr1 = [ptr EXCEPT ![b] = ptr[q], ![q] = NULL] /\ size1 = [size EXCEPT ![b] = size[b] + size[q], ![q] = 0]
      BY <2>1, <1>10
    <3>3. P1[q] = ptr[q] /\ P1 \in [Addrs -> Addrs \cup {NULL}]
      BY <3>1, <1>0, <1>3, <1>8
    <3>4. ptr[q] \in Addrs \cup {NULL}
      BY <1>8
    <3>5. ptr1 \in [Addrs -> Addrs \cup {NULL}]
      BY <3>2, <3>4, <1>3, <1>8
    <3>6. P2 = [P1 EXCEPT ![b] = P1[q], ![q] = NULL]
      <4> DEFINE R == [P1 EXCEPT ![b] = P1[q], ![q] = NULL]
      <4>1. P2 \in [Addrs -> Addrs \cup {NULL}] /\ R \in [Addrs -> Addrs \cup {NULL}]
        BY <3>3, <3>4, <3>5, <1>3, <1>8, <1>12
      <4>2. ASSUME NEW x \in Addrs PROVE P2[x] = R[x]
        BY <1>0, <3>1, <3>2, <3>3, <3>5, <1>3, <1>8, <1>12
      <4> QED BY <4>1, <4>2
    <3>7. q = P1[b] /\ b + size[b] = q
      BY <2>1, <1>6, <1>9
    <3>8. /\ HeapList(P2, size1, live, brk) /\ On(P2) = On(P1) \ {q} /\ b \in On(P2)
          /\ P2[b] = P1[q] /\ size1[b] >= size[b]
          /\ \A x \in Addrs : x # b /\ x # q => P2[x] = P1[x] /\ size1[x] = size[x]
          /\ MergeTouch(P1, size, b, q, P2, size1)
      <4>1. Merged(P1, size, b, q, P2, size1)
        BY <3>1, <3>2, <3>6, <3>7 DEF Merged
      <4>2. b \in On(P1) /\ HeapList(P1, size, live, brk)
        BY <1>6
      <4> HIDE DEF q, b, p
      <4>3. MergeResult(P1, size, live, brk, b, q, P2, size1)
        BY ONLY <4>1, <4>2, MergeKeeps
      <4> QED BY <4>3 DEF MergeResult
    <3>9. \A x, y : Touch(P2, size1, x, y) => x = p /\ y = b
      BY <3>1, <3>8, <1>7 DEF MergeTouch
    <3>10. ptr1[b] = ptr[q] /\ P2[p] = b
      BY <3>1, <3>2, <3>5, <1>3, <1>8, <1>12
    <3>11. size1[b] \in Nat
      BY <3>8, <1>3 DEF HeapList, ListTypes
    <3>12. p \in On(P2)
      BY <3>1, <3>8, <1>6
    <3> QED BY <3>1, <3>3, <3>5, <3>8, <3>9, <3>10, <3>11, <3>12, <1>8
  <2>2. CASE ~joins
    <3>1. size1 = size /\ ptr1 = [ptr EXCEPT ![b] = q] /\ p # b
      BY <2>2, <1>6, <1>8, <1>10
    <3>2. P2 = P1 /\ ptr1 \in [Addrs -> Addrs \cup {NULL}] /\ ptr1[b] = q
      BY <1>0, <3>1, <1>3, <1>8, <1>12
    <3>3. b + size[b] # q
      BY <2>2, <1>9
    <3>4. \A x, y : Touch(P1, size, x, y) => x = p /\ y = b
      BY <3>3, <1>7 DEF Touch
    <3> QED BY <3>1, <3>2, <3>4, <1>6, <1>8
  <2> QED BY <2>1, <2>2
<1>14. CASE p + size1[p] = b
  <2>1. size' = [size1 EXCEPT ![p] = size1[p] + size1[b], ![b] = 0] /\ ptr' = [ptr1 EXCEPT ![p] = ptr1[b], ![b] = NULL]
    BY <1>11, <1>14
  <2>2. ptr' = [P2 EXCEPT ![p] = P2[b], ![b] = NULL]
    BY <2>1, <1>12, <1>13
  <2>3. /\ HeapList(ptr', size', live, brk) /\ p \in On(ptr') /\ size'[p] >= size1[b]
        /\ MergeTouch(P2, size1, p, b, ptr', size')
    <3>1. PICK P3, S3 : P3 = ptr' /\ S3 = size'
      OBVIOUS
    <3>2. p \in On(P2) /\ HeapList(P2, size1, live, brk) /\ Merged(P2, size1, p, b, P3, S3)
      BY <1>6, <1>13, <1>14, <2>1, <2>2, <3>1 DEF Merged
    <3> HIDE DEF p, b
    <3>3. /\ HeapList(P3, S3, live, brk) /\ p \in On(P3) /\ S3[p] >= size1[b]
          /\ MergeTouch(P2, size1, p, b, P3, S3)
      <4>1. MergeResult(P2, size1, live, brk, p, b, P3, S3)
        BY ONLY <3>2, MergeKeeps
      <4> QED BY <4>1 DEF MergeResult
    <3> QED BY <3>1, <3>3
  <2>4. \A x, y : ~Touch(ptr', size', x, y)
    <3>1. p # b
      BY <1>6, <1>8
    <3> QED BY <2>3, <3>1, <1>13 DEF MergeTouch
  <2>5. size'[p] >= size[b]
    <3>1. size'[p] \in Nat
      BY <2>3, <1>8 DEF HeapList, ListTypes
    <3> QED BY <2>3, <3>1, <1>8, <1>13
  <2> QED BY <2>3, <2>4, <2>5, <1>11
<1>15. CASE p + size1[p] # b
  <2>1. size' = size1 /\ ptr' = P2
    BY <1>11, <1>12, <1>15
  <2>2. \A x, y : ~Touch(P2, size1, x, y)
    BY <1>13, <1>15 DEF Touch
  <2> QED BY <2>1, <2>2, <1>11, <1>13
<1> QED BY <1>14, <1>15

\* free() puts the block where it belongs and returns, to the program or to
\* malloc(), which goes on behind the block that has been put in or has grown.
LEMMA PutKeeps ==
  ASSUME HeapInv, place, Belongs(fp, bp), insert(fp, bp)
  PROVE  HeapInv'
<1>1. HeapTypes /\ MallocWalk /\ FreeWalk /\ incall \in {"free", "morecore"}
  BY DEF HeapInv, place
<1>2. /\ HeapList(ptr', size', live, brk) /\ \A x, y : ~Touch(ptr', size', x, y)
      /\ freep' = fp /\ fp \in On(ptr')
      /\ size'[fp] >= size[bp] \/ size'[ptr'[fp]] >= size[bp]
  BY <1>1, InsertKeeps
<1>3. brk' = brk /\ live' = live
  BY DEF place
<1>4. Joined'
  BY <1>2 DEF Joined
<1>5. fp # NULL
  BY <1>1, HeapAddrs DEF FreeWalk, On
<1>6. CASE incall = "free" /\ Returns
  <2>1. Held' = live
    BY <1>3, <1>6 DEF Held, Returns
  <2>2. HeapList(ptr, size, Held, brk)'
    BY <1>2, <1>3, <2>1
  <2>3. HeapTypes'
    BY <1>1, <1>2, <1>3, <1>5, <1>6 DEF HeapTypes, Returns
  <2>4. FreeWalk' /\ MallocWalk'
    BY <1>6 DEF FreeWalk, MallocWalk, Returns
  <2> QED BY <1>4, <2>2, <2>3, <2>4 DEF HeapInv
<1>7. CASE incall = "morecore" /\ incall' = "malloc"
  <2>1. /\ prevp' = freep' /\ mp' = ptr'[freep'] /\ grown' = TRUE /\ bp' = NULL /\ fp' = NULL
        /\ nunits' = nunits
    BY <1>7 DEF place, Returns
  <2>2. Held' = live
    BY <1>3, <1>7 DEF Held
  <2>3. HeapList(ptr, size, Held, brk)'
    BY <1>2, <1>3, <2>2
  <2>4. HeapTypes'
    BY <1>1, <1>2, <1>3, <1>5, <1>7, <2>1 DEF HeapTypes
  <2>5. FreeWalk'
    BY <1>7 DEF FreeWalk
  <2>6. MallocWalk'
    <3>1. nunits > 0 /\ size[bp] >= nunits /\ nunits \in Nat /\ bp \in Addrs
      BY <1>1, <1>7 DEF MallocWalk, HeapTypes, FreeWalk
    <3>2. size[bp] \in Nat
      BY <3>1 DEF HeapInv, HeapList, ListTypes
    <3>3. fp \in Addrs /\ ptr'[fp] \in Addrs /\ size' \in [Addrs -> Nat]
      BY <1>2 DEF HeapList, Sorted, ListTypes, On
    <3>4. size'[fp] >= nunits \/ size'[ptr'[fp]] >= nunits
      <4>1. size'[fp] \in Nat /\ size'[ptr'[fp]] \in Nat
        BY <3>3
      <4> QED BY <4>1, <3>1, <3>2, <1>2
    <3> QED BY <1>2, <1>5, <1>7, <2>1, <3>1, <3>4 DEF MallocWalk
  <2> QED BY <1>4, <2>3, <2>4, <2>5, <2>6 DEF HeapInv
<1> QED BY <1>1, <1>6, <1>7 DEF place

LEMMA PlaceKeeps ==
  ASSUME HeapInv, place
  PROVE  HeapInv'
<1>1. CASE Belongs(fp, bp)
  BY <1>1, PutKeeps DEF place
<1>2. CASE ~Belongs(fp, bp)
  BY <1>2, PassKeeps DEF place
<1> QED BY <1>1, <1>2

\* The first call makes the ring of base alone.
LEMMA MallocKeeps ==
  ASSUME HeapInv, NEW u \in 1..MaxRequest, malloc(u)
  PROVE  HeapInv'
<1>1. HeapList(ptr, size, Held, brk) /\ Joined /\ HeapTypes
  BY DEF HeapInv
<1>2. /\ incall = "" /\ incall' = "malloc" /\ nunits' = u /\ prevp' = freep' /\ mp' = ptr'[freep']
      /\ brk' = brk /\ live' = live /\ bp' = bp /\ fp' = fp /\ grown' = grown
  BY DEF malloc
<1>3. u \in Nat /\ u > 0
  BY HeapAddrs
<1>4. Held' = Held /\ Held = live
  BY <1>2 DEF Held
<1>5. ListTypes(ptr, size, live) /\ size[Base] = 0
  BY <1>1, <1>4 DEF HeapList
<1>6. HeapList(ptr', size', live, brk) /\ (\A x, y : ~Touch(ptr', size', x, y)) /\ freep' \in On(ptr')
  <2>1. CASE freep = NULL
    <3>1. On(ptr) = {} /\ live = {}
      BY <1>1, <2>1 DEF HeapTypes
    <3>2. ptr' = [ptr EXCEPT ![Base] = Base] /\ size' = [size EXCEPT ![Base] = 0] /\ freep' = Base
      BY <2>1 DEF malloc
    <3>3. /\ ptr' \in [Addrs -> Addrs \cup {NULL}] /\ size' \in [Addrs -> Nat]
          /\ ptr'[Base] = Base /\ size'[Base] = 0 /\ \A x \in Addrs : x # Base => ptr'[x] = ptr[x]
      BY <1>5, <3>2, HeapAddrs DEF ListTypes
    <3>4. On(ptr') = {Base}
      <4>1. ASSUME NEW x \in Addrs PROVE ptr'[x] # NULL <=> x = Base
        BY <3>1, <3>3, HeapAddrs DEF On
      <4> QED BY <4>1, HeapAddrs DEF On
    <3>5. Sorted(ptr') /\ Disjoint(ptr', size', live) /\ InHeap(ptr', size', live, brk)
      BY <3>1, <3>3, <3>4, HeapAddrs DEF Sorted, Disjoint, InHeap
    <3>6. HeapList(ptr', size', live, brk)
      BY <3>1, <3>3, <3>5 DEF HeapList, ListTypes
    <3>7. \A x, y : ~Touch(ptr', size', x, y)
      BY <3>4 DEF Touch
    <3> QED BY <3>2, <3>4, <3>6, <3>7
  <2>2. CASE freep # NULL
    <3>1. ptr' = ptr /\ size' = size /\ freep' = freep
      BY <2>2 DEF malloc
    <3>2. \A x, y : ~Touch(ptr, size, x, y)
      <4>1. NoNewTouch(ptr, size, ptr, size)
        BY DEF NoNewTouch
      <4> QED BY <1>1, <4>1, JoinedKept
    <3> QED BY <1>1, <1>4, <2>2, <3>1, <3>2 DEF HeapTypes
  <2> QED BY <2>1, <2>2
<1>7. HeapList(ptr, size, Held, brk)'
  BY <1>2, <1>4, <1>6
<1>8. Joined'
  BY <1>6 DEF Joined
<1>9. freep' # NULL
  BY <1>6, HeapAddrs DEF On
<1>10. HeapTypes'
  BY <1>1, <1>2, <1>3, <1>6, <1>9 DEF HeapTypes
<1>11. FreeWalk'
  BY <1>2 DEF FreeWalk
<1>12. MallocWalk'
  BY <1>1, <1>2, <1>3, <1>6, <1>9 DEF MallocWalk, HeapTypes
<1> QED BY <1>7, <1>8, <1>10, <1>11, <1>12 DEF HeapInv

\* In its loop malloc() is at a block of the list.
LEMMA AtBlock ==
  ASSUME HeapInv, incall = "malloc"
  PROVE  /\ prevp \in On(ptr) /\ mp \in On(ptr) /\ mp = ptr[prevp] /\ Held = live
         /\ mp \in Addrs /\ mp \in Nat /\ prevp \in Addrs /\ size[mp] \in Nat /\ nunits \in Nat /\ nunits > 0
         /\ size[mp] >= nunits => mp # Base
         /\ brk \in Nat /\ brk <= Heap + MaxUnits /\ brk >= Heap
         /\ freep # NULL /\ freep \in On(ptr)
<1>1. HeapList(ptr, size, Held, brk) /\ HeapTypes /\ MallocWalk
  BY DEF HeapInv
<1>2. prevp \in On(ptr) /\ mp = ptr[prevp] /\ nunits > 0 /\ nunits \in Nat /\ freep # NULL /\ freep \in On(ptr)
  BY <1>1 DEF MallocWalk, HeapTypes
<1>3. mp \in On(ptr)
  BY <1>1, <1>2 DEF HeapList, Sorted
<1>4. mp \in Addrs /\ mp \in Nat /\ prevp \in Addrs /\ size[mp] \in Nat
  BY <1>1, <1>2, <1>3, HeapAddrs DEF On, HeapList, ListTypes
<1>5. size[mp] >= nunits => mp # Base
  BY <1>1, <1>2, <1>4 DEF HeapList
<1>6. brk \in Nat /\ brk <= Heap + MaxUnits /\ brk >= Heap
  BY <1>1, HeapAddrs DEF HeapTypes
<1>7. Held = live
  BY DEF Held
<1> QED BY <1>2, <1>3, <1>4, <1>5, <1>6, <1>7

LEMMA TakeKeeps ==
  ASSUME HeapInv, take
  PROVE  HeapInv'
<1>1. HeapList(ptr, size, Held, brk) /\ Joined /\ HeapTypes
  BY DEF HeapInv
<1> DEFINE rest == size[mp] - nunits
           t == mp + rest
<1>2. /\ incall = "malloc" /\ size[mp] >= nunits /\ freep' = prevp /\ live' = live \cup {t}
      /\ Returns /\ brk' = brk
  BY DEF take
<1>3. /\ prevp \in On(ptr) /\ mp \in On(ptr) /\ mp = ptr[prevp] /\ Held = live
      /\ mp \in Nat /\ size[mp] \in Nat /\ nunits \in Nat /\ nunits > 0 /\ mp # Base
      /\ brk \in Nat /\ brk <= Heap + MaxUnits
  BY <1>2, AtBlock
<1>4. HeapList(ptr, size, live, brk)
  BY <1>1, <1>3
<1>5. /\ HeapList(ptr', size', live \cup {t}, brk) /\ prevp \in On(ptr')
      /\ NoNewTouch(ptr, size, ptr', size')
  <2>1. CASE rest = 0
    <3>1. PICK P2 : P2 = ptr'
      OBVIOUS
    <3>2. P2 = [ptr EXCEPT ![prevp] = ptr[mp], ![mp] = NULL] /\ size' = size
      BY <2>1, <3>1 DEF take
    <3>3. t = mp
      BY <1>3, <2>1
    <3>4. HeapList(P2, size, live \cup {mp}, brk) /\ prevp \in On(P2) /\ NoNewTouch(ptr, size, P2, size)
      <4>1. Unlinked(ptr, prevp, mp, P2)
        BY <1>3, <3>2 DEF Unlinked
      <4> QED BY <1>3, <1>4, <4>1, UnlinkKeeps
    <3> QED BY <3>1, <3>2, <3>3, <3>4
  <2>2. CASE rest # 0
    <3>1. PICK S2, t2 : S2 = size' /\ t2 = mp + (size[mp] - nunits)
      OBVIOUS
    <3>2. S2 = [size EXCEPT ![mp] = size[mp] - nunits, ![t2] = nunits] /\ ptr' = ptr
      BY <2>2, <3>1 DEF take
    <3>3. nunits < size[mp]
      BY <1>2, <1>3, <2>2
    <3>4. HeapList(ptr, S2, live \cup {t2}, brk) /\ NoNewTouch(ptr, size, ptr, S2)
      <4>1. Cut(size, mp, nunits, t2, S2)
        BY <3>1, <3>2 DEF Cut
      <4> QED BY <1>3, <1>4, <3>3, <4>1, SplitKeeps
    <3> QED BY <1>3, <3>1, <3>2, <3>4
  <2> QED BY <2>1, <2>2
<1> HIDE DEF rest, t
<1>6. Held' = live'
  BY <1>2 DEF Held, Returns
<1>7. HeapList(ptr, size, Held, brk)'
  BY <1>2, <1>5, <1>6
<1>8. Joined'
  <2>1. \A x, y : ~Touch(ptr', size', x, y)
    BY <1>1, <1>5, JoinedKept
  <2> QED BY <2>1 DEF Joined
<1>9. prevp # NULL
  BY <1>3, HeapAddrs DEF On
<1>10. HeapTypes'
  BY <1>1, <1>2, <1>5, <1>9 DEF HeapTypes, Returns
<1>11. FreeWalk' /\ MallocWalk'
  BY <1>2 DEF FreeWalk, MallocWalk, Returns
<1> QED BY <1>7, <1>8, <1>10, <1>11 DEF HeapInv

LEMMA OnwardKeeps ==
  ASSUME HeapInv, onward
  PROVE  HeapInv'
<1>1. HeapList(ptr, size, Held, brk) /\ Joined /\ HeapTypes /\ MallocWalk
  BY DEF HeapInv
<1>2. /\ incall = "malloc" /\ size[mp] < nunits /\ mp # freep /\ prevp' = mp /\ mp' = ptr[mp]
      /\ ptr' = ptr /\ size' = size /\ freep' = freep /\ brk' = brk /\ live' = live
      /\ incall' = incall /\ nunits' = nunits /\ bp' = bp /\ fp' = fp /\ grown' = grown
  BY DEF onward, headers
<1>3. mp \in On(ptr) /\ size[mp] \in Nat /\ nunits \in Nat
  BY <1>2, AtBlock
<1>4. HeapList(ptr, size, Held, brk)'
  BY <1>1, <1>2 DEF Held
<1>5. Joined' /\ HeapTypes' /\ FreeWalk'
  BY <1>1, <1>2 DEF Joined, HeapTypes, FreeWalk
<1>6. MallocWalk'
  <2>1. ~(size[mp] >= nunits)
    BY <1>2, <1>3
  <2> QED BY <1>1, <1>2, <1>3, <2>1 DEF MallocWalk
<1> QED BY <1>4, <1>5, <1>6 DEF HeapInv

LEMMA MorecoreKeeps ==
  ASSUME HeapInv, morecore
  PROVE  HeapInv'
<1>1. HeapList(ptr, size, Held, brk) /\ Joined /\ HeapTypes /\ MallocWalk
  BY DEF HeapInv
<1> DEFINE nu == IF nunits < NALLOC THEN NALLOC ELSE nunits
<1>2. /\ incall = "malloc" /\ ptr' = ptr /\ freep' = freep /\ live' = live
  BY DEF morecore
<1>3. /\ mp \in On(ptr) /\ nunits \in Nat /\ nunits > 0 /\ freep # NULL /\ freep \in On(ptr) /\ Held = live
      /\ brk \in Nat /\ brk >= Heap /\ brk <= Heap + MaxUnits
  BY <1>2, AtBlock
<1>4. CASE Returns /\ UNCHANGED <<brk, size>>
  <2>1. Held' = live
    BY <1>2, <1>4 DEF Held, Returns
  <2>2. HeapList(ptr, size, Held, brk)'
    BY <1>1, <1>2, <1>3, <1>4, <2>1
  <2>3. Joined' /\ HeapTypes'
    BY <1>1, <1>2, <1>4 DEF Joined, HeapTypes, Returns
  <2>4. FreeWalk' /\ MallocWalk'
    BY <1>4 DEF FreeWalk, MallocWalk, Returns
  <2> QED BY <2>2, <2>3, <2>4 DEF HeapInv
<1>5. CASE /\ brk + nu <= Heap + MaxUnits /\ brk' = brk + nu /\ size' = [size EXCEPT ![brk] = nu]
           /\ incall' = "morecore" /\ bp' = brk /\ fp' = freep
           /\ UNCHANGED <<nunits, prevp, mp, grown>>
  <2>1. nu \in Nat /\ nu > 0 /\ nu >= nunits
    BY <1>3, HeapAddrs
  <2> HIDE DEF nu
  <2>2. PICK S2 : S2 = size'
    OBVIOUS
  <2>3. /\ HeapList(ptr, S2, live \cup {brk}, brk + nu) /\ brk \notin live /\ brk \in Addrs /\ S2[brk] = nu
        /\ NoNewTouch(ptr, size, ptr, S2)
    <3>1. S2 = [size EXCEPT ![brk] = nu] /\ HeapList(ptr, size, live, brk) /\ brk + nu <= Heap + MaxUnits
      BY <1>1, <1>3, <1>5, <2>2
    <3>2. /\ brk \in Nat /\ brk >= Heap /\ nu \in Nat /\ nu > 0 /\ brk + nu <= Heap + MaxUnits
          /\ HeapList(ptr, size, live, brk) /\ Written(size, brk, nu, S2)
      BY <1>3, <2>1, <3>1 DEF Written
    <3> QED BY ONLY <3>2, ExtendKeeps
  <2>4. Held' = live \cup {brk}
    BY <1>2, <1>5 DEF Held
  <2>5. HeapList(ptr, size, Held, brk)'
    BY <1>2, <1>5, <2>2, <2>3, <2>4
  <2>6. Joined'
    <3>1. \A x, y : ~Touch(ptr, S2, x, y)
      BY <1>1, <2>3, JoinedKept
    <3> QED BY <3>1, <1>2, <2>2 DEF Joined
  <2>7. HeapTypes'
    <3>1. brk' \in Heap..(Heap + MaxUnits)
      BY <1>3, <1>5, <2>1, HeapAddrs
    <3> QED BY <1>1, <1>2, <1>3, <1>5, <3>1 DEF HeapTypes
  <2>8. FreeWalk'
    <3>1. ASSUME NEW a \in On(ptr)' PROVE ~Passed(a)'
      <4>1. a \in Nat /\ freep \in Nat
        BY <3>1, <1>3, HeapAddrs DEF On
      <4>2. freep <= freep /\ ~(freep <= a /\ a < freep)
        BY <4>1
      <4>3. freep' = freep /\ fp' = freep
        BY <1>2, <1>5
      <4> QED BY <4>2, <4>3 DEF Passed
    <3> QED BY <1>2, <1>3, <1>5, <2>3, <3>1 DEF FreeWalk
  <2>9. MallocWalk'
    BY <1>2, <1>3, <1>5, <2>1, <2>2, <2>3 DEF MallocWalk
  <2> QED BY <2>5, <2>6, <2>7, <2>8, <2>9 DEF HeapInv
<1> QED BY <1>4, <1>5 DEF morecore

LEMMA SbrkKeeps ==
  ASSUME HeapInv, usersbrk(1)
  PROVE  HeapInv'
<1>1. HeapList(ptr, size, Held, brk) /\ Joined /\ HeapTypes /\ MallocWalk
  BY DEF HeapInv
<1>2. /\ incall = "" /\ brk + 1 <= Heap + MaxUnits /\ brk' = brk + 1 /\ incall' = incall
      /\ ptr' = ptr /\ size' = size /\ freep' = freep /\ live' = live
      /\ nunits' = nunits /\ bp' = bp /\ fp' = fp /\ grown' = grown
  BY DEF usersbrk, headers
<1>3. Held' = Held
  BY <1>2 DEF Held
<1>4. brk \in Nat /\ brk >= Heap
  <2>1. brk \in Heap..(Heap + MaxUnits)
    BY <1>1 DEF HeapTypes
  <2> QED BY <2>1, HeapAddrs
<1>5. InHeap(ptr, size, Held, brk + 1)
  <2> SUFFICES ASSUME NEW a \in On(ptr) \cup Held, a # Base
               PROVE  size[a] > 0 /\ a >= Heap /\ a + size[a] <= brk + 1
    BY DEF InHeap
  <2>1. size[a] > 0 /\ a >= Heap /\ a + size[a] <= brk
    BY <1>1 DEF HeapList, InHeap
  <2>2. a \in Nat /\ size[a] \in Nat
    BY <1>1, HeapAddrs DEF HeapList, ListTypes, On
  <2> QED BY <1>4, <2>1, <2>2
<1>6. HeapList(ptr, size, Held, brk)'
  BY <1>1, <1>2, <1>3, <1>5 DEF HeapList
<1>7. HeapTypes'
  <2>1. brk' \in Heap..(Heap + MaxUnits)
    <3>1. Heap \in Nat /\ MaxUnits \in Nat
      BY HeapAddrs
    <3>2. brk + 1 \in Heap..(Heap + MaxUnits)
      <4>1. brk + 1 <= Heap + MaxUnits
        BY <1>2
      <4> QED BY ONLY <1>4, <3>1, <4>1
    <3> QED BY <1>2, <3>2
  <2> QED BY <1>1, <1>2, <2>1 DEF HeapTypes
<1>8. Joined' /\ FreeWalk' /\ MallocWalk'
  BY <1>1, <1>2 DEF Joined, FreeWalk, MallocWalk
<1> QED BY <1>6, <1>7, <1>8 DEF HeapInv

LEMMA HeapNextKeeps ==
  ASSUME HeapInv, [HeapNext]_heapvars
  PROVE  HeapInv'
<1>1. CASE UNCHANGED heapvars
  BY <1>1 DEF heapvars, HeapInv, Held, Joined, HeapTypes, FreeWalk, MallocWalk, Passed, Belongs
<1>2. ASSUME NEW u \in 1..MaxRequest, malloc(u) PROVE HeapInv'
  BY <1>2, MallocKeeps
<1>3. ASSUME NEW b \in live, free(b) PROVE HeapInv'
  BY <1>3, FreeKeeps
<1>4. CASE take
  BY <1>4, TakeKeeps
<1>5. CASE onward
  BY <1>5, OnwardKeeps
<1>6. CASE morecore
  BY <1>6, MorecoreKeeps
<1>7. CASE place
  BY <1>7, PlaceKeeps
<1>8. CASE usersbrk(1)
  BY <1>8, SbrkKeeps
<1> QED BY <1>1, <1>2, <1>3, <1>4, <1>5, <1>6, <1>7, <1>8 DEF HeapNext

\* A block that is not on the ring belongs behind one that is: the last below it.
LEMMA SomewhereFits ==
  ASSUME NEW P, NEW S, NEW H, NEW B, HeapList(P, S, H, B), NEW b \in H, Base \in On(P)
  PROVE  \E p \in On(P) : Fits(P, p, b)
<1>1. /\ ListTypes(P, S, H) /\ InHeap(P, S, H, B) /\ Sorted(P) /\ On(P) \cap H = {} /\ Base \notin H
  BY DEF HeapList
<1>2. b \in Nat /\ b # Base /\ b > Base /\ b \notin On(P)
  BY <1>1, HeapAddrs DEF ListTypes
<1> DEFINE Below == {x \in On(P) : x < b}
           D == {b - x : x \in Below}
<1>3. \A x \in On(P) : x \in Nat
  BY HeapAddrs DEF On
<1>4. D \in SUBSET Nat /\ b - Base \in D
  BY <1>2, <1>3
<1>5. PICK y \in D : \A z \in D : y <= z
  BY <1>4, LeastExists
<1>6. PICK p \in Below : y = b - p
  BY <1>5
<1>7. p \in On(P) /\ p \in Nat /\ p < b
  BY <1>3, <1>6
<1>8. \A x \in On(P) : x < b => x <= p
  BY <1>2, <1>3, <1>5, <1>6, <1>7
<1>9. P[p] \in On(P) /\ P[p] \in Nat /\ P[p] # b
  BY <1>1, <1>2, <1>3, <1>7 DEF Sorted
<1>10. P[p] < b => P[p] <= p
  BY <1>8, <1>9
<1>11. Fits(P, p, b)
  BY <1>2, <1>7, <1>9, <1>10 DEF Fits
<1> QED BY <1>7, <1>11

LEMMA TopBlock ==
  ASSUME NEW P, On(P) # {}
  PROVE  \E m \in On(P) : \A x \in On(P) : x <= m
<1> DEFINE N == Heap + MaxUnits
           D == {N - x : x \in On(P)}
<1>1. N \in Nat /\ \A x \in On(P) : x \in Nat /\ x <= N
  BY HeapAddrs DEF On
<1>2. D \in SUBSET Nat /\ D # {}
  BY <1>1
<1>3. PICK y \in D : \A z \in D : y <= z
  BY <1>2, LeastExists
<1>4. PICK m \in On(P) : y = N - m
  BY <1>3
<1> HIDE DEF N
<1>5. ASSUME NEW x \in On(P) PROVE x <= m
  <2>1. N - x \in D
    OBVIOUS
  <2> QED BY <1>1, <1>3, <1>4, <2>1
<1> QED BY <1>5

LEMMA HeapInvSound ==
  ASSUME HeapInv
  PROVE  HeapSound
<1>1. HeapList(ptr, size, Held, brk) /\ Joined /\ HeapTypes /\ FreeWalk /\ MallocWalk
  BY DEF HeapInv
<1>2. FreeBlocks = On(ptr)
  BY DEF FreeBlocks, On
<1>3. /\ Disjoint(ptr, size, Held) /\ InHeap(ptr, size, Held, brk) /\ Sorted(ptr)
      /\ On(ptr) \cap Held = {} /\ size[Base] = 0
  BY <1>1 DEF HeapList
<1>4. bp \notin live
  <2>1. live \in SUBSET Addrs
    BY <1>1 DEF HeapList, ListTypes, Held
  <2> QED BY <1>1, <2>1, HeapAddrs DEF HeapTypes, FreeWalk
<1>5. \A a, b \in FreeBlocks : a # b => a + size[a] # b
  BY <1>1, <1>2 DEF Joined, Touch, On
<1>6. freep \in FreeBlocks \cup {NULL}
  BY <1>1, <1>2 DEF HeapTypes
<1>7. ASSUME incall \in {"free", "morecore"}, ptr[fp] = freep PROVE Belongs(fp, bp)
  <2>1. fp \in On(ptr) /\ freep \in On(ptr) /\ bp \in Held /\ \A a \in On(ptr) : Passed(a) => ~Belongs(a, bp)
    BY <1>1, <1>7 DEF FreeWalk, HeapTypes, Held
  <2>2. Base \in On(ptr)
    <3>1. PICK m \in On(ptr) : \A x \in On(ptr) : x <= m
      BY <2>1, TopBlock
    <3>2. m \in Nat /\ ptr[m] \in On(ptr) /\ ptr[m] \in Nat /\ ptr[m] <= m
      BY <3>1, <1>3, HeapAddrs DEF Sorted, On
    <3>3. IF m < ptr[m] THEN TRUE ELSE Base = ptr[m]
      BY <3>1, <1>3 DEF Sorted
    <3> QED BY <3>2, <3>3
  <2>3. PICK p \in On(ptr) : Fits(ptr, p, bp)
    BY <1>1, <2>1, <2>2, SomewhereFits
  <2>4. Belongs(p, bp)
    BY <2>3 DEF Fits, Belongs
  <2>5. ~Passed(p)
    BY <2>1, <2>4
  <2>6. p \in Nat /\ fp \in Nat /\ freep \in Nat
    BY <2>1, HeapAddrs DEF On
  <2>7. IF fp < freep THEN p <= fp \/ freep <= p ELSE Base = freep /\ p <= fp
    BY <1>3, <1>7, <2>1 DEF Sorted
  <2>8. p = fp
    BY <2>5, <2>6, <2>7, HeapAddrs DEF Passed
  <2> QED BY <2>4, <2>8
<1>8. ASSUME incall = "malloc", mp = freep, grown PROVE size[mp] >= nunits
  BY <1>1, <1>8 DEF MallocWalk
<1>9. \A a, b \in FreeBlocks \cup Held : a < b => a + size[a] <= b
  BY <1>2, <1>3 DEF Disjoint
<1>10. \A a \in FreeBlocks \cup Held : a # Base => size[a] > 0 /\ a >= Heap /\ a + size[a] <= brk
  BY <1>2, <1>3 DEF InHeap
<1>11. \A a \in FreeBlocks :
         /\ ptr[a] \in FreeBlocks
         /\ \A b \in FreeBlocks :
              IF a < ptr[a] THEN b <= a \/ ptr[a] <= b ELSE Base = ptr[a] /\ b <= a
  BY <1>2, <1>3 DEF Sorted
<1>12. FreeBlocks \cap Held = {}
  BY <1>2, <1>3
<1> QED BY <1>3, <1>4, <1>5, <1>6, <1>7, <1>8, <1>9, <1>10, <1>11, <1>12 DEF HeapSound

\* The free list through any sequence of malloc(), free() and sbrk(): its order,
\* where the two loops are on it, and what they have passed.
THEOREM HeapInvariant == HeapSpec => []HeapInv
<1>1. heapinit => HeapInv
  BY HeapStarts
<1>2. HeapInv /\ [HeapNext]_heapvars => HeapInv'
  BY HeapNextKeeps
<1> QED BY <1>1, <1>2, PTL DEF HeapSpec

\* malloc() and free() never let two blocks overlap, keep the ring in order with
\* neighbours joined, and their loops end within a round; for a heap of any
\* size, any NALLOC and any requests.
THEOREM HeapIsSound == HeapSpec => []HeapSound
<1>1. HeapInv => HeapSound
  BY HeapInvSound
<1> QED BY <1>1, HeapInvariant, PTL
=============================================================================
