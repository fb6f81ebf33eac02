----------------------------- MODULE MCPrograms -----------------------------
(***************************************************************************)
(* The tests of UserTests and lines for the Shell, each from a fresh       *)
(* kernel, and lines that are only parsed.                                 *)
(***************************************************************************)
EXTENDS UserTests, Shell

CONSTANTS
  MaxLine,    \* bound: tokens of a line that is only parsed
  Tokens      \* bound: the tokens it is made of

VARIABLE line   \* what has been typed of it

Disk == <<"echo", "cat", "rm", "mkdir", "ln", "ls">>

Lines ==
  [list     |-> << <<"echo", "x", ";", "echo", "y", "z">> >>,
   pipe     |-> << <<"echo", "x", "y", "z", "|", "cat">> >>,
   closed   |-> << <<"echo", "x", "y", "z", "|", "echo", "w">> >>,
   redir    |-> << <<"echo", "x", "y", ">", "f">>, <<"echo", "z", ">>", "f">>,
                   <<"cat", "<", "f", ">", "g">>, <<"cat", "g", "f">> >>,
   block    |-> << <<"(", "echo", "x", ";", "echo", "y", ")", "|", "cat">> >>,
   blockout |-> << <<"(", "echo", "x", ";", "cat", "ln", ")", ">", "f">> >>,
   back     |-> << <<"echo", "x", "&", ";", "echo", "y">> >>,
   missing  |-> << <<"none", "x", ";", "cat", "<", "f", ";", "cat", "f">> >>,
   syntax   |-> << <<"echo", "x", "&", "echo">>, <<"echo", ">">>,
                   <<"(", "echo">>, <<"echo", "y">> >>,
   dirs     |-> << <<"mkdir", "d">>, <<"ln", "cat", "c">>, <<"rm", "cat">>,
                   <<"ls">>, <<"cd", "d">>, <<"ls">>, <<"echo", "x">> >>]

Init ==
  /\ line = <<>>
  /\ \/ \E t \in DOMAIN Tests :
          Start(t, Tests[t], <<"echo", "README", "cat">>)
     \/ \E t \in DOMAIN Lines : Start(t, init(Lines[t]), Disk)
     \/ Start("typing", <<>>, Disk)

types ==
  /\ test = "typing"
  /\ Len(line) < MaxLine
  /\ \E t \in Tokens : line' = Append(line, t)
  /\ UNCHANGED vars

MCNext == (Next /\ UNCHANGED line) \/ types

Spec == Init /\ [][MCNext]_<<vars, line>>
-----------------------------------------------------------------------------
(* Properties.                                                             *)

\* No test complains (prints its error and exits), however the processes it
\* forks are interleaved.
TestsPass == ~failed

\* No test gets stuck: until process 1 is through (or the kernel has
\* panicked) some process can go on.  Every call consumes a part of a finite
\* program or of the data in a pipe, so that the test ends.
NoneStuck ==
  code[1] = <<>> \/ k.panic # "" \/ \E p \in Procs : Ends(p) \/ Runs(p)

-----------------------------------------------------------------------------
(* What a command means: st.con is the console, st.out the stream the      *)
(* command writes to if that is not the console, st.dir the directory.     *)

Position(st, name) == First(DOMAIN st.dir, LAMBDA j : st.dir[j][1] = name)
Contents(st, name) == st.dir[Position(st, name)][2]
Put(st, to, s) == [st EXCEPT ![to] = @ \o s]
\* A file that is not truncated keeps what is not written over.
Over(old, new) == new \o SubSeq(old, Len(new) + 1, Len(old))

Add(st, name, s) ==
  LET hole == Position(st, "")
  IN  IF Position(st, name) # 0 THEN [st EXCEPT !.dir[Position(st, name)][2] = s]
      ELSE IF hole # 0 THEN [st EXCEPT !.dir[hole] = <<name, s>>]
      ELSE [st EXCEPT !.dir = Append(@, <<name, s>>)]

MeansExec(st, argv, in, to) ==
  LET a == Tail(argv)
      prog == argv[1]
      there(i) == Position(st, a[i]) # 0
  IN  CASE Position(st, prog) = 0 -> Put(st, "con", <<"exec">>)
        [] prog = "echo"  -> Put(st, to, a)
        [] prog = "cat"   ->
             Put(st, to,
                 IF a = <<>> THEN in
                 ELSE IF ~there(1) THEN <<"cannot open">>
                 ELSE FlattenSeq([i \in DOMAIN a |-> Contents(st, a[i])]))
        [] prog = "mkdir" -> Add(st, a[1], <<>>)
        [] prog = "ln"    -> Add(st, a[2], Contents(st, a[1]))
        [] prog = "rm"    -> [st EXCEPT !.dir[Position(st, a[1])] = <<"", <<>>>>]
        [] prog = "ls"    ->
             Put(st, to, <<".", "..">> \o
                   SelectSeq([j \in DOMAIN st.dir |-> st.dir[j][1]],
                             LAMBDA n : n # ""))

RECURSIVE Means(_, _, _, _)
Means(st, cmd, in, to) ==
  LET apart(c, i) == Means([st EXCEPT !.out = <<>>], c, i, "out")
      back(s) == [s EXCEPT !.out = st.out]
  IN  CASE cmd.type = "BAD" -> Put(st, "con", <<cmd.why>>)
        [] cmd.type = "EXEC" -> MeansExec(st, cmd.argv, in, to)
        [] cmd.type = "LIST" -> Means(Means(st, cmd.left, in, to), cmd.right, in, to)
        [] cmd.type = "PIPE" ->
             LET right(l) == Means(back(l), cmd.right, l.out, to)
             IN  right(apart(cmd.left, in))
        [] cmd.type = "BACK" -> Means(st, cmd.cmd, in, to)
        [] cmd.type = "REDIR" ->
             IF cmd.fd = 1
             THEN LET s == IF Position(st, cmd.file) # 0 THEN st
                           ELSE Add(st, cmd.file, <<>>)
                      r == Means([s EXCEPT !.out = <<>>], cmd.cmd, in, "out")
                  IN  Add(back(r), cmd.file, Over(Contents(s, cmd.file), r.out))
             ELSE IF Position(st, cmd.file) = 0 THEN Put(st, "con", <<"open">>)
             ELSE Means(st, cmd.cmd, Contents(st, cmd.file), to)

MeansLine(st, l) ==
  IF l[1] = "cd" THEN [st EXCEPT !.dir = <<>>] ELSE Means(st, parsecmd(l), <<>>, "con")

MeansAll(lines) ==
  FoldLeft(MeansLine, [con |-> <<>>, out |-> <<>>,
                       dir |-> [j \in DOMAIN Disk |-> <<Disk[j], <<"!">>>>]
                               \o << <<"console", <<>>>> >>], lines)

Times(u, s) == Cardinality({j \in DOMAIN s : s[j] = u})

\* When a line is through, the console and the files are what the command
\* means, read as a whole: a list in its order, each side of a pipe in its own
\* process, a redirection for everything inside it, an error on the console.
\* What runs in the background is only known to happen.
ShellMeaning ==
  test \in DOMAIN Lines /\ code[1] = <<>> /\ Live = {1} =>
    \E m \in {MeansAll(Lines[test])} :
      LET con == Len(Disk) + 2
          out == k.inode[con].data
      IN  /\ IF test = "back"
             THEN \A u \in Range(out) \cup Range(m.con) : Times(u, out) = Times(u, m.con)
             ELSE out = m.con
          /\ test # "dirs" => \A j \in DOMAIN m.dir :
               /\ k.inode[ROOTINO].data[j + 2][1] = m.dir[j][1]
               /\ j + 1 # con => k.inode[j + 1].data = m.dir[j][2]

-----------------------------------------------------------------------------
(* A command written out again, with every bracket.                        *)

RECURSIVE Show(_)
Show(c) ==
  LET in(x) == IF x.type \in {"EXEC", "REDIR"} THEN Show(x)
               ELSE <<"(">> \o Show(x) \o <<")">>
  IN  CASE c.type = "EXEC"  -> c.argv
        [] c.type = "REDIR" ->
             in(c.cmd) \o <<IF c.fd = 0 THEN "<" ELSE ">", c.file>>
        [] c.type = "PIPE"  -> in(c.left) \o <<"|">> \o in(c.right)
        [] c.type = "LIST"  -> in(c.left) \o <<";">> \o Show(c.right)
        [] c.type = "BACK"  -> in(c.cmd) \o <<"&">>

\* The files of redirections, the other words, the operators.
FilesOf(l) == {j \in 2..Len(l) : IsWord(l, j) /\ l[j - 1] \in {"<", ">"}}
Words(l) == {j \in DOMAIN l : IsWord(l, j)} \ FilesOf(l)
Ops(l) == {j \in DOMAIN l : l[j] \in {"|", "&", ";"}}
Sub(l, S) == [i \in 1..Cardinality(S) |-> l[SetToSortSeq(S, <)[i]]]

\* A line that the parser accepts has the words, files and operators of its
\* command in the same order, and the command written out again is the same
\* command: no token is lost, taken twice or given to another command.
ParseFaithful ==
  test = "typing" =>
    \A c \in {parsecmd(line)} :
      ~IsBad(c) =>
        \A s \in {Show(c)} :
          /\ parsecmd(s) = c
          /\ Sub(s, Words(s)) = Sub(line, Words(line))
          /\ Sub(s, FilesOf(s)) = Sub(line, FilesOf(line))
          /\ Sub(s, Ops(s)) = Sub(line, Ops(line))
=============================================================================
