------------------------------- MODULE Console -------------------------------
(***************************************************************************)
(* The console (console.c), fed by the keyboard or the serial line: a ring *)
(* of characters with its three indices, readers that sleep on it, and the *)
(* cursor of the screen.                                                   *)
(*                                                                         *)
(* cons.lock is held by an interrupt for one character, and by a reader    *)
(* from the moment it runs until it sleeps or returns.  kill() does not    *)
(* take it, and may come between a reader's test of p->killed and its      *)
(* sleep().                                                                *)
(***************************************************************************)
EXTENDS Integers, Sequences, FiniteSets

CONSTANTS
  INPUT_BUF,  \* characters in the ring
  Wrap,       \* the indices count modulo Wrap, a multiple of INPUT_BUF
  Readers,    \* processes that call consoleread()
  MaxRead,    \* bound: characters asked for
  COLS, ROWS  \* of the screen

ASSUME ConsoleAssumption ==
  /\ INPUT_BUF \in Nat \ {0}
  /\ Wrap \in Nat /\ Wrap > INPUT_BUF /\ Wrap % INPUT_BUF = 0
  /\ 0 \notin Readers /\ MaxRead \in Nat
  /\ COLS \in Nat \ {0}
  /\ ROWS \in Nat /\ ROWS >= 2

VARIABLES
  buf, r, w, e,         \* input
  lock,                 \* who holds cons.lock
  pc, n, target,        \* the readers
  killed,
  late,                 \* history: who was killed between test and sleep
  pos                   \* the cursor

input == <<buf, r, w, e>>
readers == <<pc, n, target>>
consvars == <<input, lock, readers, killed, late, pos>>

NL == "\n"
EOF == "^D"
Typed == {"a", NL, EOF}
NoReader == 0

consoleinit ==
  /\ buf = [i \in 0..(INPUT_BUF - 1) |-> NL]
  /\ r = 0 /\ w = 0 /\ e = 0
  /\ lock = NoReader
  /\ pc = [p \in Readers |-> "idle"]
  /\ n = [p \in Readers |-> 0] /\ target = n
  /\ killed = {} /\ late = {}
  /\ pos = 0

Plus(i, k) == (i + k) % Wrap
CharAt(i) == buf[i % INPUT_BUF]
Count(from, to) == (to - from) % Wrap
-----------------------------------------------------------------------------
(* Output.                                                                 *)

\* cgaputc(): the cursor after a character; the last line scrolls.
cgaputc(at, c) ==
  LET moved == CASE c = NL -> at + COLS - (at % COLS)
                 [] c = "BACKSPACE" -> IF at > 0 THEN at - 1 ELSE at
                 [] OTHER -> at + 1
  IN  IF moved \div COLS >= ROWS - 1 THEN moved - COLS ELSE moved

\* So many backspaces.
Back(at, k) == IF at >= k THEN at - k ELSE 0

consolewrite(c) ==
  /\ lock = NoReader
  /\ pos' = cgaputc(pos, c)
  /\ UNCHANGED <<input, lock, readers, killed, late>>
-----------------------------------------------------------------------------
(* Input: consoleintr().                                                   *)

Wakeup == pc' = [p \in Readers |-> IF pc[p] = "sleep" THEN "loop" ELSE pc[p]]

\* Mutant: the last place of the ring does not finish the line.
typed_NoLast(c) ==
  /\ lock = NoReader
  /\ Count(r, e) < INPUT_BUF
  /\ buf' = [buf EXCEPT ![e % INPUT_BUF] = c]
  /\ e' = Plus(e, 1)
  /\ pos' = cgaputc(pos, c)
  /\ \/ c \in {NL, EOF} /\ w' = e' /\ Wakeup
     \/ c \notin {NL, EOF} /\ UNCHANGED <<w, pc>>
  /\ UNCHANGED <<r, lock, n, target, killed, late>>

\* Mutant: the line is given to the readers before its last character is in it.
typed_Late(c) ==
  /\ lock = NoReader
  /\ Count(r, e) < INPUT_BUF
  /\ buf' = [buf EXCEPT ![e % INPUT_BUF] = c]
  /\ e' = Plus(e, 1)
  /\ pos' = cgaputc(pos, c)
  /\ LET ends == c \in {NL, EOF} \/ e' = Plus(r, INPUT_BUF)
     IN  \/ ends /\ w' = e /\ Wakeup
         \/ ~ends /\ UNCHANGED <<w, pc>>
  /\ UNCHANGED <<r, lock, n, target, killed, late>>

\* A character is dropped if the ring is full.
typed(c) ==
  /\ lock = NoReader
  /\ Count(r, e) < INPUT_BUF
  /\ buf' = [buf EXCEPT ![e % INPUT_BUF] = c]
  /\ e' = Plus(e, 1)
  /\ pos' = cgaputc(pos, c)
  /\ LET ends == c \in {NL, EOF} \/ e' = Plus(r, INPUT_BUF)
     IN  \/ ends /\ w' = e' /\ Wakeup
         \/ ~ends /\ UNCHANGED <<w, pc>>
  /\ UNCHANGED <<r, lock, n, target, killed, late>>

backspace ==
  /\ lock = NoReader
  /\ e # w
  /\ e' = Plus(e, -1)
  /\ pos' = Back(pos, 1)
  /\ UNCHANGED <<buf, r, w, lock, readers, killed, late>>

\* ^U: back to the last newline, or to what has been given to the readers.
killline ==
  LET k == CHOOSE j \in 0..Count(w, e) :
             /\ \A i \in 1..j : CharAt(Plus(e, -i)) # NL
             /\ j = Count(w, e) \/ CharAt(Plus(e, -(j + 1))) = NL
  IN  /\ lock = NoReader
      /\ e # w
      /\ e' = Plus(e, -k)
      /\ pos' = Back(pos, k)
      /\ UNCHANGED <<buf, r, w, lock, readers, killed, late>>
-----------------------------------------------------------------------------
(* consoleread().                                                          *)

consoleread(p, k) ==
  /\ pc[p] = "idle"
  /\ n' = [n EXCEPT ![p] = k]
  /\ target' = [target EXCEPT ![p] = k]
  /\ pc' = [pc EXCEPT ![p] = "loop"]
  /\ UNCHANGED <<input, lock, killed, late, pos>>

\* Return, with the result forgotten.  Who is killed exits, and the next process
\* of that number is not.
Leave(p) ==
  /\ pc' = [pc EXCEPT ![p] = "idle"]
  /\ n' = [n EXCEPT ![p] = 0]
  /\ target' = [target EXCEPT ![p] = 0]
  /\ lock' = NoReader
  /\ killed' = killed \ {p} /\ late' = late \ {p}

\* A turn of the loop that finds nothing: return if killed, else go to sleep
\* with the lock held.
finds_none(p) ==
  /\ pc[p] = "loop" /\ lock \in {NoReader, p}
  /\ n[p] > 0 /\ r = w
  /\ \/ p \in killed /\ Leave(p)
     \/ /\ p \notin killed
        /\ pc' = [pc EXCEPT ![p] = "doze"]
        /\ lock' = p
        /\ UNCHANGED <<n, target, killed, late>>
  /\ UNCHANGED <<input, pos>>

\* sleep(): ptable.lock is taken before cons.lock is given up.
sleep_reader(p) ==
  /\ pc[p] = "doze"
  /\ pc' = [pc EXCEPT ![p] = "sleep"]
  /\ lock' = NoReader
  /\ UNCHANGED <<input, n, target, killed, late, pos>>

\* A character.  A ^D behind others stays for the next call.
takes(p) ==
  /\ pc[p] = "loop" /\ lock \in {NoReader, p}
  /\ n[p] > 0 /\ r # w
  /\ \/ /\ CharAt(r) = EOF
        /\ r' = IF n[p] < target[p] THEN r ELSE Plus(r, 1)
        /\ Leave(p)
     \/ /\ CharAt(r) # EOF
        /\ r' = Plus(r, 1)
        /\ IF n[p] = 1 \/ CharAt(r) = NL THEN Leave(p)
           ELSE /\ n' = [n EXCEPT ![p] = @ - 1]
                /\ lock' = p
                /\ UNCHANGED <<pc, target, killed, late>>
  /\ UNCHANGED <<buf, w, e, pos>>

\* kill() makes a sleeper run.  Who is about to sleep does so all the same.
kill_reader(p) ==
  /\ pc[p] # "idle" /\ p \notin killed
  /\ killed' = killed \cup {p}
  /\ late' = late \cup {q \in {p} : pc[q] = "doze"}
  /\ pc' = [pc EXCEPT ![p] = IF @ = "sleep" THEN "loop" ELSE @]
  /\ UNCHANGED <<input, lock, n, target, pos>>

Intr == (\E c \in Typed : typed(c)) \/ backspace \/ killline
Run(p) == finds_none(p) \/ sleep_reader(p) \/ takes(p)

ConsoleNext ==
  \/ Intr
  \/ \E c \in {"a", NL} : consolewrite(c)
  \/ \E p \in Readers : Run(p) \/ kill_reader(p) \/ \E k \in 1..MaxRead : consoleread(p, k)

ConsoleSpec == consoleinit /\ [][ConsoleNext]_consvars
-----------------------------------------------------------------------------
(* Properties.                                                             *)

Between(from, to) == [i \in 1..Count(from, to) |-> CharAt(Plus(from, i - 1))]

T == INSTANCE Terminal WITH
       Chars <- Typed, Enders <- {NL, EOF}, Room <- INPUT_BUF,
       lines <- Between(r, w), edit <- Between(w, e)

\* The ring is the terminal's two queues, between r and w and between w and e,
\* although the indices wrap around: no character is read twice, lost after its
\* line is finished, or read before.
IsTerminal == T!Spec

\* No reader sleeps, or will, while there is something to read, nor once it is
\* killed unless kill() came between its test and its sleep(); the ring never
\* holds more than it has room for, and never stays full of a line that nobody
\* can read; the cursor is on the screen.
ConsoleSound ==
  /\ \A p \in Readers : pc[p] = "sleep" => r = w /\ (p \in killed => p \in late)
  /\ Count(r, w) <= Count(r, e) /\ Count(r, e) <= INPUT_BUF
  /\ Count(r, e) = INPUT_BUF => w # r
  /\ pos \in 0..((ROWS - 1) * COLS - 1)
=============================================================================
