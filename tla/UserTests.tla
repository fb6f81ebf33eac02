----------------------------- MODULE UserTests ------------------------------
(***************************************************************************)
(* The repository's own test program, usertests.c.  Loops are shortened to *)
(* the bounds named here and buffers to a unit per record written.         *)
(***************************************************************************)
EXTENDS Programs

CONSTANTS
  N,          \* bound: rounds of the loops that only repeat
  Children    \* bound: processes of fourfiles() and createdelete(), 4 there
-----------------------------------------------------------------------------
(* The tests, in the order of the file.                                    *)

iputtest ==
  << mkdir(<<"iputdir">>, OK), chdir(<<"iputdir">>, OK),
     unlink(<<"..", "iputdir">>, OK), chdir(<<"/">>, OK) >>

exitiputtest ==
  << Fork(<<mkdir(<<"iputdir">>, OK), chdir(<<"iputdir">>, OK),
            unlink(<<"..", "iputdir">>, OK)>>, "c1", OK),
     Wait(ANY) >>

\* The child's open() fails for a directory, and for a removed one.
openiputtest ==
  << mkdir(<<"oidir">>, OK),
     Fork(<<open(<<"oidir">>, {"O_RDWR"}, "fd", NO)>>, "c1", OK),
     unlink(<<"oidir">>, EQ(0)), Wait(ANY) >>

opentest ==
  << open(<<"echo">>, {}, "fd", OK), close("fd"),
     open(<<"doesnotexist">>, {}, "fd", NO) >>

writetest ==
  <<open(<<"small">>, CRW, "fd", OK)>>
  \o Repeat(N, <<write("fd", <<"a">>, EQ(1)), write("fd", <<"b">>, EQ(1))>>)
  \o << close("fd"), open(<<"small">>, {}, "fd", OK),
        read("fd", 2 * N, Repeat(N, <<"a", "b">>)),
        close("fd"), unlink(<<"small">>, OK) >>

\* A file of the largest size.
writetest1 ==
  <<open(<<"big">>, CRW, "fd", OK)>>
  \o For(MAXFILE, LAMBDA i : <<write("fd", <<ToString(i)>>, EQ(1))>>)
  \o << close("fd"), open(<<"big">>, {}, "fd", OK),
        loop("fd", 1, [i \in 1..MAXFILE |-> ToString(i - 1)]),
        close("fd"), unlink(<<"big">>, OK) >>

createtest ==
  For(N, LAMBDA i : <<open(File("a", i), CRW, "fd", ANY), close("fd")>>)
  \o For(N, LAMBDA i : <<unlink(File("a", i), ANY)>>)

dirtest ==
  << mkdir(<<"dir0">>, OK), chdir(<<"dir0">>, OK), chdir(<<"..">>, OK),
     unlink(<<"dir0">>, OK) >>

\* The writer fills the pipe more than once; the reader sees every unit in
\* order, and then the end.
pipe1 ==
  LET s(i) == [j \in 1..(PIPESIZE + 1) |-> ToString(i * (PIPESIZE + 1) + j)]
  IN  << pipe,
         Fork(<<close("r"), write("w", s(0), OK), write("w", s(1), OK)>>,
              "c1", OK),
         close("w"), loop("r", 1, s(0) \o s(1)), close("r"), Wait(ANY) >>

preempt ==
  << Fork(<<Spin>>, "c1", ANY), Fork(<<Spin>>, "c2", ANY), pipe,
     Fork(<<close("r"), write("w", <<"x">>, EQ(1)), close("w"), Spin>>,
          "c3", ANY),
     close("w"), read("r", 4, <<"x">>), close("r"),
     Kill("c1"), Kill("c2"), Kill("c3"), Wait(ANY), Wait(ANY), Wait(ANY) >>

exitwait == Repeat(N, <<Fork(<<>>, "c1", OK), WaitFor("c1")>>)

\* Parent and child write through one open file.
sharedfd ==
  << unlink(<<"sharedfd">>, ANY), open(<<"sharedfd">>, CRW, "fd", OK),
     Fork(Repeat(N, <<write("fd", <<"c">>, EQ(1))>>), "c1", ANY) >>
  \o Repeat(N, <<write("fd", <<"p">>, EQ(1))>>)
  \o << Wait(ANY), close("fd"), open(<<"sharedfd">>, {}, "fd", OK),
        count("fd", 1, Units(N, "c") \o Units(N, "p")),
        close("fd"), unlink(<<"sharedfd">>, ANY) >>

fourfiles ==
  For(Children, LAMBDA i :
    << unlink(File("f", i), ANY),
       Fork(<<open(File("f", i), CRW, "fd", OK)>>
            \o Repeat(N, <<write("fd", <<ToString(i)>>, EQ(1))>>), "c1", OK) >>)
  \o Repeat(Children, <<Wait(ANY)>>)
  \o For(2, LAMBDA i :
    << open(File("f", i), {}, "fd", ANY),
       loop("fd", 2, Units(N, ToString(i))),
       close("fd"), unlink(File("f", i), ANY) >>)

\* 20 files a child there, 4 here; the names that go are 1 to half of them.
createdelete ==
  LET name(pi, i) == File(<<"p", "q", "r", "s">>[pi + 1], i)
      gone(i) == i \in 1..1
  IN  For(Children, LAMBDA pi :
        <<Fork(For(4, LAMBDA i :
            <<open(name(pi, i), CRW, "fd", OK), close("fd")>>
            \o IF i > 0 /\ i % 2 = 0
               THEN <<unlink(name(pi, i \div 2), OK)>> ELSE <<>>), "c1", OK)>>)
      \o Repeat(Children, <<Wait(ANY)>>)
      \o For(4, LAMBDA i : For(Children, LAMBDA pi :
           IF gone(i) THEN <<open(name(pi, i), {}, "fd", NO)>>
           ELSE <<open(name(pi, i), {}, "fd", OK), close("fd")>>))
      \o For(4, LAMBDA i : Repeat(Children, <<unlink(name(i, i), ANY)>>))

unlinkread ==
  << open(<<"unlinkread">>, CRW, "fd", OK), write("fd", <<"h", "e">>, ANY),
     close("fd"), open(<<"unlinkread">>, {"O_RDWR"}, "fd", OK),
     unlink(<<"unlinkread">>, EQ(0)),
     open(<<"unlinkread">>, CRW, "fd1", ANY), write("fd1", <<"y">>, ANY),
     close("fd1"), read("fd", Large, <<"h", "e">>),
     write("fd", <<"h", "e", "?">>, EQ(3)), close("fd"),
     unlink(<<"unlinkread">>, ANY) >>

linktest ==
  << unlink(<<"lf1">>, ANY), unlink(<<"lf2">>, ANY),
     open(<<"lf1">>, CRW, "fd", OK), write("fd", <<"h", "e">>, EQ(2)),
     close("fd"), link(<<"lf1">>, <<"lf2">>, OK), unlink(<<"lf1">>, ANY),
     open(<<"lf1">>, {}, "", NO), open(<<"lf2">>, {}, "fd", OK),
     read("fd", Large, <<"h", "e">>), close("fd"),
     link(<<"lf2">>, <<"lf2">>, NO), unlink(<<"lf2">>, ANY),
     link(<<"lf2">>, <<"lf1">>, NO), link(<<".">>, <<"lf1">>, NO) >>

\* 40 names there; here 7, which is every combination of i % 3 and i % 5 that
\* the code tells apart.
concreate ==
  LET file(i) == File("C", i)
      make(i) == <<open(file(i), CRW, "fd", OK), close("fd")>>
      join(i) == <<link(File("C", 0), file(i), ANY)>>
      look(i) == Repeat(2, <<open(file(i), {}, "fd", ANY), close("fd")>>)
      drop(i) == Repeat(2, <<unlink(file(i), ANY)>>)
  IN  For(7, LAMBDA i :
        << unlink(file(i), ANY),
           Fork(IF i % 5 = 1 THEN join(i) ELSE make(i), "c1", ANY) >>
        \o (IF i % 3 = 1 THEN join(i) ELSE make(i)) \o <<Wait(ANY)>>)
      \o << open(<<".">>, {}, "fd", ANY),
            names("fd", [i \in 1..7 |-> file(i - 1)[1]]), close("fd") >>
      \o For(7, LAMBDA i :
        <<Fork(IF i % 3 = 0 THEN look(i) ELSE drop(i), "c1", OK)>>
        \o (IF i % 3 = 1 THEN look(i) ELSE drop(i)) \o <<Wait(ANY)>>)

\* The code draws the three at random.
linkunlink ==
  LET draw == AnyOf(<< <<open(<<"x">>, CRW, "fd", ANY), close("fd")>>,
                       <<link(<<"cat">>, <<"x">>, ANY)>>,
                       <<unlink(<<"x">>, ANY)>> >>)
  IN  <<unlink(<<"x">>, ANY), Fork(Repeat(N, <<draw>>), "c1", OK)>>
      \o Repeat(N, <<draw>>) \o <<Wait(ANY)>>

bigdir ==
  << unlink(<<"bd">>, ANY), open(<<"bd">>, CR, "fd", OK), close("fd") >>
  \o For(N + 1, LAMBDA i : <<link(<<"bd">>, File("x", i), EQ(0))>>)
  \o <<unlink(<<"bd">>, ANY)>>
  \o For(N + 1, LAMBDA i : <<unlink(File("x", i), EQ(0))>>)

subdir ==
  << unlink(<<"ff">>, ANY), mkdir(<<"dd">>, EQ(0)),
     open(<<"dd", "ff">>, CRW, "fd", OK), write("fd", <<"f", "f">>, ANY),
     close("fd"), unlink(<<"dd">>, NO), mkdir(<<"/", "dd", "dd">>, EQ(0)),
     open(<<"dd", "dd", "ff">>, CRW, "fd", OK), write("fd", <<"F", "F">>, ANY),
     close("fd"), open(<<"dd", "dd", "..", "ff">>, {}, "fd", OK),
     read("fd", Large, <<"f", "f">>), close("fd"),
     link(<<"dd", "dd", "ff">>, <<"dd", "dd", "ffff">>, EQ(0)),
     unlink(<<"dd", "dd", "ff">>, EQ(0)),
     open(<<"dd", "dd", "ff">>, {}, "", NO),
     chdir(<<"dd">>, EQ(0)), chdir(<<"dd", "..", "..", "dd">>, EQ(0)),
     chdir(<<"dd", "..", "..", "..", "dd">>, EQ(0)),
     chdir(<<".", "..">>, EQ(0)),
     open(<<"dd", "dd", "ffff">>, {}, "fd", OK),
     read("fd", Large, <<"F", "F">>), close("fd"),
     open(<<"dd", "dd", "ff">>, {}, "", NO),
     open(<<"dd", "ff", "ff">>, CRW, "", NO),
     open(<<"dd", "xx", "ff">>, CRW, "", NO), open(<<"dd">>, CR, "", NO),
     open(<<"dd">>, {"O_RDWR"}, "", NO), open(<<"dd">>, {"O_WRONLY"}, "", NO),
     link(<<"dd", "ff", "ff">>, <<"dd", "dd", "xx">>, NO),
     link(<<"dd", "xx", "ff">>, <<"dd", "dd", "xx">>, NO),
     link(<<"dd", "ff">>, <<"dd", "dd", "ffff">>, NO),
     mkdir(<<"dd", "ff", "ff">>, NO), mkdir(<<"dd", "xx", "ff">>, NO),
     mkdir(<<"dd", "dd", "ffff">>, NO), unlink(<<"dd", "xx", "ff">>, NO),
     unlink(<<"dd", "ff", "ff">>, NO), chdir(<<"dd", "ff">>, NO),
     chdir(<<"dd", "xx">>, NO), unlink(<<"dd", "dd", "ffff">>, EQ(0)),
     unlink(<<"dd", "ff">>, EQ(0)), unlink(<<"dd">>, NO),
     unlink(<<"dd", "dd">>, OK), unlink(<<"dd">>, OK) >>

bigwrite ==
  <<unlink(<<"bigwrite">>, ANY)>>
  \o For(MAXFILE \div 2, LAMBDA i :
       <<open(<<"bigwrite">>, CRW, "fd", OK)>>
       \o Repeat(2, <<write("fd", Units(i + 1, "?"), EQ(i + 1))>>)
       \o <<close("fd"), unlink(<<"bigwrite">>, ANY)>>)

\* Written two units at a time, read one by one.
bigfile ==
  <<unlink(<<"bigfile">>, ANY), open(<<"bigfile">>, CRW, "fd", OK)>>
  \o For(N, LAMBDA i : <<write("fd", Units(2, ToString(i)), EQ(2))>>)
  \o << close("fd"), open(<<"bigfile">>, {}, "fd", OK),
        loop("fd", 1, For(N, LAMBDA i : Units(2, ToString(i)))),
        close("fd"), unlink(<<"bigfile">>, ANY) >>

\* DIRSIZ is 14.
fourteen ==
  LET n14 == "12345678901234"
      n15 == "123456789012345"
  IN  << mkdir(<<n14>>, EQ(0)), mkdir(<<n14, n15>>, EQ(0)),
         open(<<n15, n15, n15>>, CR, "fd", OK), close("fd"),
         open(<<n14, n14, n14>>, {}, "fd", OK), close("fd"),
         mkdir(<<n14, n14>>, NO), mkdir(<<n15, n14>>, NO) >>

rmdot ==
  << mkdir(<<"dots">>, EQ(0)), chdir(<<"dots">>, EQ(0)), unlink(<<".">>, NO),
     unlink(<<"..">>, NO), chdir(<<"/">>, EQ(0)), unlink(<<"dots", ".">>, NO),
     unlink(<<"dots", "..">>, NO), unlink(<<"dots">>, EQ(0)) >>

dirfile ==
  LET xx == <<"dirfile", "xx">>
  IN  << open(<<"dirfile">>, CR, "fd", OK), close("fd"),
         chdir(<<"dirfile">>, NO), open(xx, {}, "fd", NO),
         open(xx, CR, "fd", NO), mkdir(xx, NO), unlink(xx, NO),
         link(<<"README">>, xx, NO), unlink(<<"dirfile">>, EQ(0)),
         open(<<".">>, {"O_RDWR"}, "fd", NO), open(<<".">>, {}, "fd", ANY),
         write("fd", <<"x">>, <<-1, 0>>), close("fd") >>

\* As often as there are entries of the inode cache, and once more.
iref ==
  Repeat(NINODE + 1,
    << mkdir(<<"irefd">>, EQ(0)), chdir(<<"irefd">>, EQ(0)), mkdir(<<>>, ANY),
       link(<<"README">>, <<>>, ANY), open(<<>>, CR, "fd", ANY),
       open(<<"xx">>, CR, "fd", ANY), close("fd"), unlink(<<"xx">>, ANY) >>)
  \o <<chdir(<<"/">>, ANY)>>

forktest == <<forkall, waitall, Wait(NO)>>

\* Sizes in pages.  Two of the three children get the memory they ask for.
sbrktest ==
  LET last == << sbrk(1, "", "a", 0), sbrk(1, "", "a", 1) >>
      Big == 5
      hog == << Call("sbrk", Big - 1, <<"", 0>>, "", ANY),
                write("w", <<"x">>, ANY), Spin >>
  IN  <<sbrk(0, "a", "", 0)>>
      \o Repeat(N, <<sbrk(1, "a", "a", 0), sbrk(0, "a", "a", 1)>>)
      \o <<Fork(last, "c1", OK)>> \o last
      \o << Wait(ANY), sbrk(0, "a", "", 0), sbrk(2, "", "a", 0),
            sbrk(-1, "", "a", 2), sbrk(0, "", "a", 1), sbrk(1, "", "a", 1),
            sbrk(0, "", "a", 2), sbrk(-(4 + N), "", "a", 2), pipe >>
      \o FlattenSeq([i \in 1..3 |->
           <<Fork(hog, <<"c1", "c2", "c3">>[i], OK), read("r", 1, <<"x">>)>>])
      \o << sbrk(1, "", "", 0), Kill("c1"), Wait(ANY), Kill("c2"), Wait(ANY),
            Kill("c3"), Wait(ANY), sbrk(-1, "", "", 0) >>

\* stressfs.c: each process forks the next one, then writes and reads a file of
\* its own.
RECURSIVE stress(_)
stress(i) ==
  (IF i = Children THEN <<>> ELSE <<Fork(stress(i + 1), "c1", ANY)>>)
  \o <<open(File("stressfs", i), CRW, "fd", OK)>>
  \o Repeat(N, <<write("fd", <<"a">>, EQ(1))>>)
  \o <<close("fd"), open(File("stressfs", i), {}, "fd", OK)>>
  \o Repeat(N, <<read("fd", 1, <<"a">>)>>)
  \o <<close("fd"), Wait(ANY)>>

\* Not in the file: two processes make any of these calls in any order.
anycalls ==
  LET draw == AnyOf(<< <<mkdir(<<"d">>, ANY)>>, <<mkdir(<<"d", "e">>, ANY)>>,
                       <<open(<<"d", "f">>, CRW, "fd", ANY)>>,
                       <<link(<<"README">>, <<"d", "f">>, ANY)>>,
                       <<unlink(<<"/", "d", "e">>, ANY)>>,
                       <<unlink(<<"/", "d">>, ANY)>>,
                       <<unlink(<<"d", "f">>, ANY)>>,
                       <<chdir(<<"d">>, ANY)>>, <<chdir(<<"..">>, ANY)>>,
                       <<chdir(<<"d", "e">>, ANY)>> >>)
  IN  <<mkdir(<<"d">>, OK), Fork(<<draw, draw>>, "c1", OK),
        draw, draw, draw, Wait(ANY)>>

\* Not in the file: inodes, entries of the inode cache, blocks or entries of a
\* directory are used up, while another process opens files.
limits ==
  LET make(i) == <<open(File("m", i), CR, "fd", ANY)>>
      large(i) == <<open(File("l", i), CRW, "fd", ANY),
                    write("fd", Units(MAXFILE, "?"), ANY), close("fd")>>
      draw == AnyOf(<< For(NINODES, LAMBDA i : make(i) \o <<close("fd")>>),
                       For(NINODE - 1, make) \o <<open(<<"README">>, {}, "fd", ANY)>>,
                       For(NBLOCKS \div MAXFILE, large) \o <<mkdir(<<"d">>, ANY)>>,
                       For(MAXFILE * DPB,
                           LAMBDA i : <<link(<<"README">>, File("n", i), ANY)>>) >>)
  IN  <<Fork(<<open(<<"echo">>, {}, "fd", ANY), open(<<"cat">>, {}, "fd1", ANY)>>,
             "c1", OK), draw, Wait(ANY)>>

\* Nor this: what fits of a write that is too long stays in the file.
halfwrite ==
  << open(<<"half">>, CRW, "fd", OK), write("fd", Units(MAXFILE + 1, "?"), NO),
     close("fd"), open(<<"half">>, {}, "fd", OK),
     loop("fd", 1, Units(MAXFILE - (MAXFILE % CHUNK), "?")), close("fd") >>

\* main().
Tests ==
  [createdelete |-> createdelete, linkunlink |-> linkunlink,
   concreate |-> concreate, fourfiles |-> fourfiles, sharedfd |-> sharedfd,
   bigwrite |-> bigwrite, sbrktest |-> sbrktest, opentest |-> opentest,
   writetest |-> writetest, writetest1 |-> writetest1,
   createtest |-> createtest, dirtest |-> dirtest,
   openiputtest |-> openiputtest, exitiputtest |-> exitiputtest,
   iputtest |-> iputtest, pipe1 |-> pipe1, preempt |-> preempt,
   exitwait |-> exitwait, rmdot |-> rmdot, fourteen |-> fourteen,
   bigfile |-> bigfile, subdir |-> subdir, linktest |-> linktest,
   unlinkread |-> unlinkread, dirfile |-> dirfile, iref |-> iref,
   stressfs |-> stress(1), forktest |-> forktest, bigdir |-> bigdir, anycalls |-> anycalls,
   limits |-> limits, halfwrite |-> halfwrite]
=============================================================================
