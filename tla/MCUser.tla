------------------------------- MODULE MCUser -------------------------------
(***************************************************************************)
(* For TLC, what users see: the programs of MCPrograms, and beside them    *)
(* the heap of a program (Umalloc), the library's loops over bytes         *)
(* (Strings), the console and the keyboard, and the image that mkfs writes *)
(* and fsChecker checks.  A behaviour is one of a single part: the others  *)
(* keep their initial state.                                               *)
(***************************************************************************)
EXTENDS MCPrograms, Console, Keyboard, Umalloc

VARIABLES
  part,
  img, damage,
  mem, was, args, ret

gvars == <<img, damage>>
svars == <<mem, was, args, ret>>

G == INSTANCE FsCheck WITH
       NDIRECT <- 1, NINDIRECT <- 2, DPB <- 4, BMAP <- 1, SIZE <- 7,
       NINODES <- 4, MaxDamage <- 2
S == INSTANCE Strings WITH Size <- 5, Bytes <- 0..2, Half <- 128, MaxFmt <- 4

\* Only the part that runs has a choice of initial states.
SumInit ==
  /\ part \in {"programs", "heap", "console", "keys", "image", "strings"}
  /\ heapinit /\ consoleinit /\ KeyInit /\ G!Init /\ S!Init
  /\ part # "strings" => mem = [a \in 1..5 |-> 0]
  /\ \/ part = "programs" /\ Init /\ img = G!mkfs(<<>>)
     \/ /\ part # "programs"
        /\ Start("typing", <<>>, <<>>) /\ line = <<>>
        /\ part # "image" => img = G!mkfs(<<>>)

pgvars == <<vars, line>>

SumNext ==
  /\ UNCHANGED part
  /\ \/ part = "programs" /\ MCNext /\ UNCHANGED <<heapvars, gvars, consvars, keyvars, svars>>
     \/ part = "heap" /\ HeapNext /\ UNCHANGED <<pgvars, gvars, consvars, keyvars, svars>>
     \/ part = "image" /\ G!Next /\ UNCHANGED <<pgvars, heapvars, consvars, keyvars, svars>>
     \/ part = "console" /\ ConsoleNext /\ UNCHANGED <<pgvars, heapvars, gvars, keyvars, svars>>
     \/ part = "keys" /\ KeyNext /\ UNCHANGED <<pgvars, heapvars, gvars, consvars, svars>>
     \/ part = "strings" /\ S!Next /\ UNCHANGED <<pgvars, heapvars, gvars, consvars, keyvars>>

SumSpec ==
  SumInit /\ [][SumNext]_<<part, pgvars, heapvars, gvars, consvars, keyvars, svars>>
-----------------------------------------------------------------------------
(* Properties, beside those of the modules extended.                       *)

\* FsCheck's FlatImagesPass: mkfs's images pass.
FlatImagesPass == part = "image" => G!FlatImagesPass

\* FsCheck's PassedImagesSound: what an image that passes cannot have.
PassedImagesSound == part = "image" => G!PassedImagesSound

\* Strings's StringsSound: each function of the two libraries does its task.
StringsSound == part = "strings" => S!StringsSound
=============================================================================
