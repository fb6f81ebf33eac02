------------------------------ MODULE Terminal ------------------------------
(***************************************************************************)
(* What the console promises a program: the characters of finished lines,  *)
(* in the order they were typed, each once.  A line is finished by Return  *)
(* or ^D, or because there is room for no more; until then it can be taken *)
(* back.                                                                   *)
(***************************************************************************)
EXTENDS Naturals, Sequences

CONSTANTS Chars, Enders, Room

VARIABLES
  lines,      \* typed, finished and not read
  edit        \* typed and not finished

vars == <<lines, edit>>

Init == lines = <<>> /\ edit = <<>>

Type(c) ==
  /\ Len(lines) + Len(edit) < Room
  /\ \/ /\ c \notin Enders /\ Len(lines) + Len(edit) + 1 < Room
        /\ edit' = Append(edit, c)
        /\ UNCHANGED lines
     \/ /\ c \in Enders \/ Len(lines) + Len(edit) + 1 = Room
        /\ lines' = lines \o Append(edit, c)
        /\ edit' = <<>>

\* The last character, or the whole line.
Erase ==
  /\ edit # <<>>
  /\ edit' \in {SubSeq(edit, 1, n) : n \in {0, Len(edit) - 1}}
  /\ UNCHANGED lines

Read ==
  /\ lines # <<>>
  /\ lines' = Tail(lines)
  /\ UNCHANGED edit

Next == (\E c \in Chars : Type(c)) \/ Erase \/ Read

Spec == Init /\ [][Next]_vars
=============================================================================
