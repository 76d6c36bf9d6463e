--------------------------- MODULE DictionaryFiles ---------------------------
(***************************************************************************)
(* The files of a dictionary between the compiler that writes them and the *)
(* analysers that map them: runda_dict_index (dictionary_compiler.cpp)     *)
(* with the writing ends of Dictionary, CharProperty and                   *)
(* Connector::compile, and their open functions as Viterbi::open calls     *)
(* them.                                                                   *)
(*                                                                         *)
(* A file is what it was made from and how many of its blocks are on the   *)
(* disk.  The compiler may be killed between two blocks, and from some     *)
(* block on its writes may fail, which no one looks at.  A mapped file is  *)
(* shared with the disk: an analyser whose file is opened for writing again *)
(* has lost it.                                                            *)
(***************************************************************************)
EXTENDS Integers, Sequences, FiniteSets

CONSTANTS
  Sources,      \* [categories, unkCategories, ids, matrix, charset]: a dictionary's
                \* definitions; ids are sets of pairs, one for each of unk, sys, usr;
                \* matrix is a pair of sizes or Absent, if there is no matrix.def
  Commands,     \* subsets of {"U", "C", "s", "m", "u"}: options of runda_dict_index
  Absent,
  Blocks,       \* of a file
  MaxBuilds     \* bound: runs of the compiler

ASSUME FilesAssumption == Blocks \in Nat \ {0} /\ MaxBuilds \in Nat

ASSUME SourcesAssumption == \A s \in Sources : s.matrix \in (Nat \X Nat) \union {Absent}

Dictionaries == {"unk", "sys", "usr"}
Files == Dictionaries \union {"char", "matrix"}

VARIABLES
  sources,      \* the definitions as they are now
  disk,         \* the files
  todo,         \* files that the compiler still has to write, the first under way
  writing,      \* it has opened the first of them
  failing,      \* the stream has failed
  builds,
  reader        \* [user: with a user dictionary, opened: files, status]

vars == <<sources, disk, todo, writing, failing, builds, reader>>

NoFile == [from |-> Absent, sizes |-> Absent, written |-> 0, magic |-> FALSE]

Whole(f) == disk[f].written = Blocks

-----------------------------------------------------------------------------
(* What a reader accepts *)

\* the length word is that of a complete file: it is computed and written last
DictionaryOpens(f) == disk[f].written > 0 /\ disk[f].magic /\ Whole(f)

\* fault: the size of the file is not compared with the sizes in it
OpensShort(f) == IF f \in Dictionaries THEN DictionaryOpens(f) ELSE disk[f].written > 0

\* the other two have their sizes in front
Opens(f) == IF f \in Dictionaries THEN DictionaryOpens(f) ELSE disk[f].written > 0 /\ Whole(f)

\* isCompatible
Compatible(f, g) ==
  disk[f].sizes = disk[g].sizes /\ disk[f].from.charset = disk[g].from.charset

\* unkdic_.exactMatchSearch of every category of char.bin
CategoriesFound == disk["char"].from.categories \subseteq disk["unk"].from.unkCategories

\* fault: only the left sizes are compared
LeftSizesAgree == disk["sys"].sizes[1] = disk["matrix"].sizes[1]

SizesAgree == disk["sys"].sizes = disk["matrix"].sizes

-----------------------------------------------------------------------------
(* The compiler *)

EditSources ==
  /\ todo = <<>>
  /\ sources' \in Sources \ {sources}
  /\ UNCHANGED <<disk, todo, writing, failing, builds, reader>>

\* in the order of the program, all of them if none is asked for
FilesOf(command) ==
  IF "u" \in command THEN <<"usr">>
  ELSE LET asked(o) == command = {} \/ o \in command
       IN (IF asked("C") \/ asked("U") THEN <<"char">> ELSE <<>>)
          \o (IF asked("U") THEN <<"unk">> ELSE <<>>)
          \o (IF asked("s") THEN <<"sys">> ELSE <<>>)
          \o (IF asked("m") THEN <<"matrix">> ELSE <<>>)

StartBuild ==
  /\ todo = <<>> /\ builds < MaxBuilds
  /\ \E command \in Commands : todo' = FilesOf(command)
  /\ builds' = builds + 1
  /\ UNCHANGED <<sources, disk, writing, failing, reader>>

Out == Head(todo)

\* fault: the binary matrix goes before its definition
SizesOfBinary ==
  IF Opens("matrix") THEN disk["matrix"].sizes
  ELSE IF sources.matrix # Absent THEN sources.matrix ELSE <<1, 1>>

\* sizes of the matrix that a dictionary is compiled for
Sizes ==
  IF sources.matrix # Absent THEN sources.matrix
  ELSE IF Opens("matrix") THEN disk["matrix"].sizes ELSE <<1, 1>>

IsValid(id, sizes) == id[1] \in 0 .. sizes[2] - 1 /\ id[2] \in 0 .. sizes[1] - 1

Compiles(f) ==
  CASE f = "char" -> sources.categories = sources.unkCategories
    [] f = "matrix" -> TRUE
    [] OTHER -> \A id \in sources.ids[f] : IsValid(id, Sizes)

SizesIn(f) ==
  IF f = "char" THEN Absent
  ELSE IF f = "matrix" THEN (IF sources.matrix = Absent THEN <<1, 1>> ELSE sources.matrix)
  ELSE Sizes

StopBuild == todo' = <<>> /\ writing' = FALSE /\ failing' = FALSE

Die ==
  /\ todo # <<>> /\ ~ writing /\ ~ Compiles(Out)
  /\ StopBuild
  /\ UNCHANGED <<sources, disk, builds, reader>>

\* opening for output empties the file, also for those who have mapped it
OpenOutput ==
  /\ todo # <<>> /\ ~ writing /\ Compiles(Out)
  /\ disk' = [disk EXCEPT ![Out] =
                [from |-> sources, sizes |-> SizesIn(Out), written |-> 0, magic |-> FALSE]]
  /\ writing' = TRUE /\ failing' = FALSE
  /\ reader' = IF Out \in reader.opened THEN [reader EXCEPT !.status = "lost"] ELSE reader
  /\ UNCHANGED <<sources, todo, builds>>

\* fault: the last block is written twice
WriteBlockAgain ==
  /\ writing /\ ~ failing
  /\ disk' = [disk EXCEPT ![Out].written = @ + 1]
  /\ UNCHANGED <<sources, todo, writing, failing, builds, reader>>

WriteBlock ==
  /\ writing /\ ~ failing /\ ~ Whole(Out)
  /\ disk' = [disk EXCEPT ![Out].written = @ + 1]
  /\ UNCHANGED <<sources, todo, writing, failing, builds, reader>>

WriteFails ==
  /\ writing /\ ~ failing /\ ~ Whole(Out)
  /\ failing' = TRUE
  /\ UNCHANGED <<sources, disk, todo, writing, builds, reader>>

\* the length word, for a dictionary; nothing happens once the stream has failed
CloseOutput ==
  /\ writing /\ (failing \/ Whole(Out))
  /\ disk' = IF Out \in Dictionaries /\ ~ failing
             THEN [disk EXCEPT ![Out].magic = TRUE] ELSE disk
  /\ todo' = Tail(todo)
  /\ writing' = FALSE /\ failing' = FALSE
  /\ UNCHANGED <<sources, builds, reader>>

Killed ==
  /\ todo # <<>>
  /\ StopBuild
  /\ UNCHANGED <<sources, disk, builds, reader>>

-----------------------------------------------------------------------------
(* An analyser *)

OpenOrder(user) ==
  IF user THEN <<"unk", "char", "sys", "usr", "matrix">>
  ELSE <<"unk", "char", "sys", "matrix">>

ToOpen == OpenOrder(reader.user)[Cardinality(reader.opened) + 1]

StartOpen ==
  /\ reader.status = "closed"
  /\ \E user \in BOOLEAN :
       reader' = [user |-> user, opened |-> {}, status |-> "opening"]
  /\ UNCHANGED <<sources, disk, todo, writing, failing, builds>>

\* the checks that follow the opening of one file
Accepted(f) ==
  /\ Opens(f)
  /\ f = "usr" => Compatible("sys", "usr")
  /\ f = "matrix" => CategoriesFound /\ SizesAgree

OpenNext ==
  /\ reader.status = "opening"
  /\ reader' =
       IF ~ Accepted(ToOpen) THEN [reader EXCEPT !.status = "failed"]
       ELSE [reader EXCEPT !.opened = @ \union {ToOpen},
                           !.status = IF ToOpen = "matrix" THEN "open" ELSE "opening"]
  /\ UNCHANGED <<sources, disk, todo, writing, failing, builds>>

CloseReader ==
  /\ reader.status \in {"open", "failed", "lost"}
  /\ reader' = [reader EXCEPT !.opened = {}, !.status = "closed"]
  /\ UNCHANGED <<sources, disk, todo, writing, failing, builds>>

-----------------------------------------------------------------------------

Init ==
  /\ sources \in Sources
  /\ disk = [f \in Files |-> NoFile]
  /\ todo = <<>> /\ writing = FALSE /\ failing = FALSE /\ builds = 0
  /\ reader = [user |-> FALSE, opened |-> {}, status |-> "closed"]

Compiler ==
  \/ EditSources \/ StartBuild \/ Die \/ OpenOutput \/ WriteBlock \/ WriteFails
  \/ CloseOutput \/ Killed

Analyser == StartOpen \/ OpenNext \/ CloseReader

Next == Compiler \/ Analyser

Spec == Init /\ [][Next]_vars

-----------------------------------------------------------------------------

TypeOK ==
  /\ sources \in Sources
  /\ disk \in [Files -> [from : Sources \union {Absent}, sizes : (Nat \X Nat) \union {Absent},
                         written : 0 .. Blocks, magic : BOOLEAN]]
  /\ todo \in Seq(Files) /\ Len(todo) <= 4
  /\ writing \in BOOLEAN /\ failing \in BOOLEAN /\ builds \in 0 .. MaxBuilds
  /\ reader \in [user : BOOLEAN, opened : SUBSET Files,
                 status : {"closed", "opening", "open", "failed", "lost"}]

\* An analyser that has come to be open works on complete files only, whatever
\* moment the compiler was killed or its disk was full: a file that is being
\* written is told from a whole one (dictionary.cpp:527, char_property.cpp:88,
\* connector.cpp:47).
OpenedIsComplete == reader.status = "open" => \A f \in reader.opened : Whole(f)

\* The ids of all words of the system and the user dictionary are rows and columns
\* of the matrix that the analyser indexes with them without a check, although the
\* files may come from different builds with different definitions
\* (viterbi.cpp:55, tokenizer.cpp:125, dictionary.cpp:370).
IdsInMatrix ==
  reader.status = "open" =>
    \A f \in reader.opened \cap {"sys", "usr"} :
      \A id \in disk[f].from.ids[f] : IsValid(id, disk["matrix"].sizes)

\* Complete files that one set of definitions was compiled to are never refused,
\* by whatever runs and in whatever order they were built, as long as the
\* definitions have a matrix.def: without it a dictionary is compiled for the
\* binary matrix that happens to be there (dictionary.cpp:276).
FromOneDefinition ==
  \E s \in Sources :
    /\ s.matrix # Absent
    /\ \A n \in DOMAIN OpenOrder(reader.user) :
         LET f == OpenOrder(reader.user)[n] IN disk[f].from = s /\ Whole(f)
           /\ (f \in Dictionaries => disk[f].magic)

ConsistentFilesOpen ==
  [][reader.status = "opening" /\ reader'.status = "failed" => ~ FromOneDefinition]_vars
=============================================================================
