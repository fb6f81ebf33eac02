------------------------------- MODULE Shell --------------------------------
(***************************************************************************)
(* The shell, sh.c: its parser over sequences of tokens (words and the     *)
(* symbols), and its interpreter as a compiler to the calls of Programs,   *)
(* with the programs the lines below use.                                  *)
(***************************************************************************)
EXTENDS Programs

CONSTANT MAXARGS   \* words of a command, the closing 0 included

Symbols == {"<", "|", ">", ">>", "&", ";", "(", ")"}
-----------------------------------------------------------------------------
(* Commands.                                                               *)

execcmd(argv) == [type |-> "EXEC", argv |-> argv]
redircmd(cmd, file, mode, fd) ==
  [type |-> "REDIR", cmd |-> cmd, file |-> file, mode |-> mode, fd |-> fd]
pipecmd(left, right) == [type |-> "PIPE", left |-> left, right |-> right]
listcmd(left, right) == [type |-> "LIST", left |-> left, right |-> right]
backcmd(cmd) == [type |-> "BACK", cmd |-> cmd]

\* What panic() prints instead of a command.
Bad(why) == [type |-> "BAD", why |-> why]
IsBad(c) == c.type = "BAD"
-----------------------------------------------------------------------------
(* The parser.  A function that parses from token i on returns the command *)
(* and the token it stopped at, To(c, j).                                  *)

To(c, j) == [c |-> c, j |-> j]

peek(line, i, toks) == i <= Len(line) /\ line[i] \in toks
IsWord(line, i) == i <= Len(line) /\ line[i] \notin Symbols

\* A redirection goes around what has been parsed before it.
RECURSIVE parseredirs(_, _, _)
parseredirs(cmd, line, i) ==
  IF ~peek(line, i, {"<", ">", ">>"}) THEN To(cmd, i)
  ELSE IF ~IsWord(line, i + 1)
  THEN To(Bad("missing file for redirection"), i + 1)
  ELSE parseredirs(
         IF line[i] = "<" THEN redircmd(cmd, line[i + 1], {}, 0)
         ELSE redircmd(cmd, line[i + 1], {"O_WRONLY", "O_CREATE"}, 1),
         line, i + 2)

\* The same command with one more word.
RECURSIVE addarg(_, _)
addarg(cmd, word) ==
  IF cmd.type = "EXEC" THEN execcmd(Append(cmd.argv, word))
  ELSE [cmd EXCEPT !.cmd = addarg(@, word)]

RECURSIVE parseargs(_, _, _, _)
parseargs(cmd, argc, line, i) ==
  IF IsBad(cmd) \/ peek(line, i, {"|", ")", "&", ";"}) \/ i > Len(line)
  THEN To(cmd, i)
  ELSE IF ~IsWord(line, i) THEN To(Bad("syntax"), i)
  ELSE IF argc + 1 >= MAXARGS THEN To(Bad("too many args"), i)
  ELSE LET more(r) == parseargs(r.c, argc + 1, line, r.j)
       IN  more(parseredirs(addarg(cmd, line[i]), line, i + 1))

RECURSIVE parseline(_, _)

parseblock(line, i) ==
  LET end(l) ==
        IF IsBad(l.c) THEN l
        ELSE IF ~peek(line, l.j, {")"}) THEN To(Bad("syntax - missing )"), l.j)
        ELSE parseredirs(l.c, line, l.j + 1)
  IN  end(parseline(line, i + 1))

parseexec(line, i) ==
  LET args(r) == parseargs(r.c, 0, line, r.j)
  IN  IF peek(line, i, {"("}) THEN parseblock(line, i)
      ELSE args(parseredirs(execcmd(<<>>), line, i))

RECURSIVE parsepipe(_, _)

\* Mutant: the sides of a pipe change places.
parsepipe_Swap(line, i) ==
  LET l == parseexec(line, i)
      r == parsepipe(line, l.j + 1)
  IN  IF IsBad(l.c) \/ ~peek(line, l.j, {"|"}) THEN l
      ELSE IF IsBad(r.c) THEN r ELSE To(pipecmd(r.c, l.c), r.j)

parsepipe(line, i) ==
  LET into(l, r) == IF IsBad(r.c) THEN r ELSE To(pipecmd(l.c, r.c), r.j)
      end(l) == IF IsBad(l.c) \/ ~peek(line, l.j, {"|"}) THEN l
                ELSE into(l, parsepipe(line, l.j + 1))
  IN  end(parseexec(line, i))

\* The loop that takes every "&".
RECURSIVE backs(_, _, _)
backs(cmd, line, i) ==
  IF peek(line, i, {"&"}) THEN backs(backcmd(cmd), line, i + 1) ELSE To(cmd, i)

parseline(line, i) ==
  LET then(l, r) == IF IsBad(r.c) THEN r ELSE To(listcmd(l.c, r.c), r.j)
      end(l) == IF IsBad(l.c) \/ ~peek(line, l.j, {";"}) THEN l
                ELSE then(l, parseline(line, l.j + 1))
      back(p) == IF IsBad(p.c) THEN p ELSE backs(p.c, line, p.j)
  IN  end(back(parsepipe(line, i)))

parsecmd(line) ==
  LET end(l) == IF ~IsBad(l.c) /\ l.j <= Len(line) THEN Bad("syntax") ELSE l.c
  IN  end(parseline(line, 1))
-----------------------------------------------------------------------------
(* The programs.                                                           *)

Complain(why) == <<write("2", <<why>>, ANY)>>

\* Up to the first that fails.
RECURSIVE Each(_, _, _)
Each(args, op, why) ==
  IF args = <<>> THEN <<>>
  ELSE << Call(op, <<Head(args)>>, 0, "n", ANY), Unless("n", Complain(why)) >>
       \o Each(Tail(args), op, why)

echo(args) == [i \in DOMAIN args |-> write("1", <<args[i]>>, ANY)]

cat(args) ==
  IF args = <<>> THEN <<copy("0")>>
  ELSE FlattenSeq([i \in DOMAIN args |->
         << open(<<args[i]>>, {}, "fd", ANY),
            Unless("fd", <<write("1", <<"cannot open">>, ANY)>>),
            copy("fd"), close("fd") >>])

rm(args) ==
  IF args = <<>> THEN Complain("usage") ELSE Each(args, "unlink", "rm")
mkdirs(args) ==
  IF args = <<>> THEN Complain("usage") ELSE Each(args, "mkdir", "mkdir")

ln(args) ==
  IF Len(args) # 2 THEN Complain("usage")
  ELSE << Call("link", <<args[1]>>, <<args[2]>>, "n", ANY),
          Unless("n", Complain("ln")) >>

\* Of the working directory.
ls(args) ==
  << open(<<".">>, {}, "fd", ANY), Unless("fd", Complain("ls")),
     list("fd"), close("fd") >>

Program(argv) ==
  LET args == Tail(argv)
  IN  CASE argv[1] = "echo"  -> echo(args)
        [] argv[1] = "cat"   -> cat(args)
        [] argv[1] = "rm"    -> rm(args)
        [] argv[1] = "mkdir" -> mkdirs(args)
        [] argv[1] = "ln"    -> ln(args)
        [] argv[1] = "ls"    -> ls(args)
        [] OTHER             -> <<>>
-----------------------------------------------------------------------------
(* The interpreter.  A program that ends, ends in exit().                  *)

\* Anything but fork() goes on in the child only.
fork1(child) ==
  <<Fork(child, "n", ANY), Unless("n", Complain("fork"))>>

RECURSIVE runcmd(_)

\* Mutant: the second command of a list does not wait for the first.
runcmd_NoWait(cmd) ==
  CASE cmd.type = "EXEC" ->
         <<exec(<<cmd.argv[1]>>, Program(cmd.argv))>> \o Complain("exec")
    [] cmd.type = "LIST" -> fork1(runcmd(cmd.left)) \o runcmd(cmd.right)
    [] OTHER -> <<>>

runcmd(cmd) ==
  CASE cmd.type = "BAD" -> Complain(cmd.why)
    [] cmd.type = "EXEC" ->
         IF cmd.argv = <<>> THEN <<>>
         ELSE <<exec(<<cmd.argv[1]>>, Program(cmd.argv))>> \o Complain("exec")
    [] cmd.type = "REDIR" ->
         << close(ToString(cmd.fd)), open(<<cmd.file>>, cmd.mode, "fd", ANY),
            Unless("fd", Complain("open")) >> \o runcmd(cmd.cmd)
    [] cmd.type = "LIST" ->
         fork1(runcmd(cmd.left)) \o <<Wait(ANY)>> \o runcmd(cmd.right)
    [] cmd.type = "PIPE" ->
         LET side(fd, end, c) ==
               <<close(fd), dup(end), close("r"), close("w")>> \o runcmd(c)
         IN  <<Call("pipe", 0, 0, "", ANY), Unless("r", Complain("pipe"))>>
             \o fork1(side("1", "w", cmd.left))
             \o fork1(side("0", "r", cmd.right))
             \o <<close("r"), close("w"), Wait(ANY), Wait(ANY)>>
    [] cmd.type = "BACK" -> fork1(runcmd(cmd.cmd))

\* cd is done by the shell itself.
getcmd(line) ==
  IF line[1] = "cd" THEN <<chdir(Tail(line), ANY)>>
  ELSE fork1(runcmd(parsecmd(line))) \o <<Wait(ANY)>>

\* main(): the three descriptors are there already, and a fourth is closed.
main(lines) ==
  <<open(<<"console">>, {"O_RDWR"}, "fd", ANY), close("fd")>>
  \o FlattenSeq([i \in DOMAIN lines |-> getcmd(lines[i])])

\* init's main(): the console is made if it is not there.
init(lines) ==
  LET con == open(<<"console">>, {"O_RDWR"}, "fd", ANY)
      start(go) == <<con, Unless("fd", <<mknod(<<"console">>), con>> \o go)>> \o go
  IN  start(<<dup("0"), dup("0")>> \o main(lines))
=============================================================================
