----------------------------- MODULE CheckedFile -----------------------------
(***************************************************************************)
(* Files of type T_CHECKED: writei() keeps the checksum of a block in the  *)
(* top byte of its address, readi() compares, stati() folds them all, and  *)
(* itrunc() frees blocks by those addresses.  One file, one process, a     *)
(* disk that may damage a block, and reboots.                              *)
(*                                                                         *)
(* A block is known by the exclusive or of its bytes, a number below 256;  *)
(* bytes are signed chars, so that the sum as an int is that number only   *)
(* if it is below 128.                                                     *)
(***************************************************************************)
EXTENDS FileLayout

CONSTANT
  Sums        \* bound: the sums of the blocks that are written

ASSUME SumsAssumption == Sums \subseteq 0..255

VARIABLES
  size,       \* blocks in the file
  fdata,      \* the sum of what each block holds
  tag,        \* the top byte of each direct address in the cached inode
  dtag,       \* the same on the disk
  itag,       \* the top bytes in the indirect block
  locked,     \* buffers that the process has not given back
  result,     \* of the last readi() or stati(): <<call, block, value>>
  fstate,     \* "runs"; "stuck" on a buffer it holds itself; "panic"
  wrote,      \* history: the sum of each block as written
  kept        \* history: direct blocks written since the inode was read

fvars == <<size, fdata, tag, dtag, itag, locked, result, fstate, wrote, kept>>

Direct == 1..NDIRECT
Indirect == (NDIRECT + 1)..(NDIRECT + NINDIRECT)
All == 1..MAXFILE
NoResult == <<"", 0, 0>>

FInit ==
  /\ size = 0
  /\ fdata = [b \in All |-> 0]
  /\ tag = [b \in Direct |-> 0] /\ dtag = tag
  /\ itag = [b \in Indirect |-> 0]
  /\ locked = {}
  /\ result = NoResult
  /\ fstate = "runs"
  /\ wrote = fdata
  /\ kept = {}

\* bread() of a buffer that the process holds never returns.
bread(b) == IF b \in locked THEN fstate' = "stuck" ELSE fstate' = fstate
-----------------------------------------------------------------------------
\* Mutant: the tag of a block that is written over stays.
writei_First(b, s) ==
  /\ fstate = "runs" /\ b \in 1..(size + 1) \cap All
  /\ bread(b)
  /\ fdata' = [fdata EXCEPT ![b] = s]
  /\ wrote' = [wrote EXCEPT ![b] = s]
  /\ tag' = IF b \in Direct /\ b > size THEN [tag EXCEPT ![b] = s] ELSE tag
  /\ itag' = IF b \in Indirect THEN [itag EXCEPT ![b] = s] ELSE itag
  /\ size' = IF b > size THEN b ELSE size
  /\ dtag' = IF b > size THEN tag' ELSE dtag
  /\ kept' = kept \cup (Direct \cap {b})
  /\ result' = NoResult
  /\ UNCHANGED locked

\* A whole block.  The tag of a direct block goes into the cached inode, and to
\* the disk only if the file grew; that of an indirect one into its block.
writei(b, s) ==
  /\ fstate = "runs" /\ b \in 1..(size + 1) \cap All
  /\ bread(b)
  /\ IF b \in locked
     THEN UNCHANGED <<size, fdata, tag, dtag, itag, result, wrote, kept>>
     ELSE /\ fdata' = [fdata EXCEPT ![b] = s]
          /\ wrote' = [wrote EXCEPT ![b] = s]
          /\ tag' = IF b \in Direct THEN [tag EXCEPT ![b] = s] ELSE tag
          /\ itag' = IF b \in Indirect THEN [itag EXCEPT ![b] = s] ELSE itag
          /\ size' = IF b > size THEN b ELSE size
          /\ dtag' = IF b > size THEN tag' ELSE dtag
          /\ kept' = kept \cup (Direct \cap {b})
          /\ result' = NoResult
  /\ UNCHANGED locked

\* The tag that readi() finds: its search of the indirect block looks at the
\* first address only.
Found(b) ==
  IF b \in Direct THEN tag[b]
  ELSE IF b = NDIRECT + 1 THEN itag[b] ELSE 0

\* The block is compared with its tag and not copied, and the buffer is never
\* given back.
readi(b) ==
  /\ fstate = "runs" /\ b \in 1..size
  /\ bread(b)
  /\ IF b \in locked THEN UNCHANGED <<locked, result>>
     ELSE /\ locked' = locked \cup {b}
          /\ result' = <<"read", b,
                         IF fdata[b] < 128 /\ fdata[b] = Found(b) THEN 1 ELSE -1>>
  /\ UNCHANGED <<size, fdata, tag, dtag, itag, wrote, kept>>

\* The tags of the direct blocks (the call returns their exclusive or); if there
\* is an indirect block, also whatever block the memory behind the addresses
\* happens to name.
stati ==
  /\ fstate = "runs"
  /\ \/ /\ size <= NDIRECT
        /\ result' = <<"stat", 0, tag>>
        /\ UNCHANGED fstate
     \/ /\ size > NDIRECT
        /\ \/ fstate' = "panic" /\ UNCHANGED result
           \/ fstate' = "stuck" /\ locked # {} /\ UNCHANGED result
           \/ result' = NoResult /\ UNCHANGED fstate
  /\ UNCHANGED <<size, fdata, tag, dtag, itag, locked, wrote, kept>>

\* iput(): the last reference to the inode goes; it will be read from the disk again.
reread ==
  /\ fstate = "runs"
  /\ tag' = dtag
  /\ kept' = {}
  /\ UNCHANGED <<size, fdata, dtag, itag, locked, result, fstate, wrote>>

\* itrunc(): the file is removed.  A tagged address is no block of the disk.
remove ==
  /\ fstate = "runs"
  /\ IF \/ \E b \in Direct \cap 1..size : tag[b] # 0
        \/ \E b \in Indirect \cap 1..size : itag[b] # 0
     THEN fstate' = "panic" /\ UNCHANGED <<size, fdata, tag, dtag, itag, wrote, kept>>
     ELSE /\ size' = 0
          /\ fdata' = [b \in All |-> 0] /\ wrote' = fdata'
          /\ tag' = [b \in Direct |-> 0] /\ dtag' = tag'
          /\ itag' = [b \in Indirect |-> 0]
          /\ kept' = {}
          /\ UNCHANGED fstate
  /\ result' = NoResult
  /\ UNCHANGED locked

reboot ==
  /\ fstate' = "runs" /\ locked' = {}
  /\ tag' = dtag /\ kept' = {}
  /\ result' = NoResult
  /\ UNCHANGED <<size, fdata, dtag, itag, wrote>>

\* The disk changes a block.
damage(b, s) ==
  /\ b \in 1..size /\ b \notin locked
  /\ fdata' = [fdata EXCEPT ![b] = s]
  /\ result' = NoResult
  /\ UNCHANGED <<size, tag, dtag, itag, locked, fstate, wrote, kept>>

FNext ==
  \/ \E b \in All, s \in Sums : writei(b, s) \/ damage(b, s)
  \/ \E b \in All : readi(b)
  \/ stati \/ reread \/ remove \/ reboot

FSpec == FInit /\ [][FNext]_fvars
-----------------------------------------------------------------------------
(* Properties.                                                             *)

\* What a read says of a block: as long as the inode stays in the cache, a
\* direct block is accepted exactly if its sum is the one written and below
\* 128; of the indirect ones the first is judged like that at any time, and the
\* others are accepted exactly if their sum is 0, damaged or not.  What fstat()
\* folds for a block is then the sum that was written.
VerdictRight ==
  LET b == result[2]
      right == fdata[b] = wrote[b] /\ fdata[b] < 128
  IN  /\ result[1] = "read" =>
           /\ b \in kept \cup {NDIRECT + 1} => ((result[3] = 1) <=> right)
           /\ b > NDIRECT + 1 => ((result[3] = 1) <=> (fdata[b] = 0))
      /\ result[1] = "stat" => \A d \in kept : result[3][d] = wrote[d]

\* "When done with the buffer, call brelse": outside of a call the process
\* holds no buffer.
BuffersReleased == fstate = "runs" => locked = {}
=============================================================================
