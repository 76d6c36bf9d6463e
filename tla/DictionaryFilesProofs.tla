----------------------- MODULE DictionaryFilesProofs -----------------------
(***************************************************************************)
(* Whatever definitions there are, of however many blocks a file consists  *)
(* and however often the compiler is run or killed, an analyser that has   *)
(* opened a dictionary has complete files whose ids fit the matrix, and    *)
(* files of one set of definitions are never refused.                      *)
(***************************************************************************)
EXTENDS DictionaryFiles, FiniteSetTheorems, TLAPS

-----------------------------------------------------------------------------
(* The inductive invariant *)

\* what the compiler has checked and written of a file
Made(f) ==
  LET s == disk[f].from
  IN /\ s \in Sources
     /\ f # "char" /\ s.matrix # Absent => disk[f].sizes = s.matrix
     /\ f = "char" => s.categories = s.unkCategories
     /\ f \in Dictionaries => \A id \in s.ids[f] : IsValid(id, disk[f].sizes)

Begun(f) == disk[f].written > 0 \/ (writing /\ f = Out)

\* the sets of files that an analyser has opened, one after another
Prefixes(user) ==
  {{}, {"unk"}, {"unk", "char"}, {"unk", "char", "sys"}}
  \union (IF user THEN {{"unk", "char", "sys", "usr"}, {"unk", "char", "sys", "usr", "matrix"}}
          ELSE {{"unk", "char", "sys", "matrix"}})

FilesInv ==
  /\ \A f \in Files : Begun(f) => Made(f)
  /\ \A f \in Files : disk[f].magic => f \in Dictionaries /\ Whole(f)
  /\ writing => todo # <<>>

ReaderInv ==
  /\ reader.opened \in Prefixes(reader.user)
  /\ reader.status = "opening" => "matrix" \notin reader.opened
  /\ reader.status = "open" => "matrix" \in reader.opened /\ SizesAgree
  /\ reader.status \in {"opening", "open"} =>
       /\ \A f \in reader.opened : Whole(f)
       /\ "usr" \in reader.opened => Compatible("sys", "usr")

IInv == TypeOK /\ FilesInv /\ ReaderInv

-----------------------------------------------------------------------------
(* What the operators yield *)

\* the sizes a dictionary is compiled for are sizes
LEMMA SizesType ==
  ASSUME TypeOK
  PROVE  Sizes \in (Nat \X Nat) \union {Absent}
BY SourcesAssumption, SMTT(30) DEF Sizes, TypeOK, Files, Dictionaries, Opens, Whole

LEMMA Concatenation ==
  ASSUME NEW S, NEW s \in Seq(S), NEW t \in Seq(S), NEW m \in Nat,
         Len(s) <= m, Len(t) <= 1
  PROVE  s \o t \in Seq(S) /\ Len(s \o t) <= m + 1
BY SMT

\* a command asks for four files at most
LEMMA FilesOfType ==
  ASSUME NEW command
  PROVE  FilesOf(command) \in Seq(Files) /\ Len(FilesOf(command)) <= 4
<1> DEFINE asked(o) == command = {} \/ o \in command
           chars == IF asked("C") \/ asked("U") THEN <<"char">> ELSE <<>>
           unks == IF asked("U") THEN <<"unk">> ELSE <<>>
           syss == IF asked("s") THEN <<"sys">> ELSE <<>>
           matrices == IF asked("m") THEN <<"matrix">> ELSE <<>>
<1>1. \A f \in Files : <<f>> \in Seq(Files) /\ Len(<<f>>) <= 1
  BY SMT
<1>2. <<>> \in Seq(Files) /\ Len(<<>>) <= 1
  BY SMT
<1>3. "char" \in Files /\ "unk" \in Files /\ "sys" \in Files /\ "matrix" \in Files /\ "usr" \in Files
  BY DEF Files, Dictionaries
<1>4. FilesOf(command) = <<"usr">>
      \/ FilesOf(command) = ((chars \o unks) \o syss) \o matrices
  BY DEF FilesOf
<1>5. /\ chars \in Seq(Files) /\ Len(chars) <= 1
      /\ unks \in Seq(Files) /\ Len(unks) <= 1
      /\ syss \in Seq(Files) /\ Len(syss) <= 1
      /\ matrices \in Seq(Files) /\ Len(matrices) <= 1
  BY <1>1, <1>2, <1>3, Zenon
<1>6. 1 \in Nat /\ 1 + 1 \in Nat /\ 1 + 1 + 1 \in Nat /\ 1 + 1 + 1 + 1 = 4
  BY SMT
<1> HIDE DEF chars, unks, syss, matrices
<1>7. chars \o unks \in Seq(Files) /\ Len(chars \o unks) <= 1 + 1
  BY <1>5, <1>6, Concatenation, Zenon
<1>8. (chars \o unks) \o syss \in Seq(Files) /\ Len((chars \o unks) \o syss) <= 1 + 1 + 1
  BY <1>5, <1>6, <1>7, Concatenation, Zenon
<1>9. ((chars \o unks) \o syss) \o matrices \in Seq(Files)
      /\ Len(((chars \o unks) \o syss) \o matrices) <= 1 + 1 + 1 + 1
  BY <1>5, <1>6, <1>8, Concatenation, Zenon
<1>10. <<"usr">> \in Seq(Files) /\ Len(<<"usr">>) <= 4
  BY <1>1, <1>3, SMT
<1> QED BY <1>4, <1>6, <1>9, <1>10, Zenon

LEMMA Cardinalities ==
  /\ Cardinality({}) = 0
  /\ Cardinality({"unk"}) = 1
  /\ Cardinality({"unk", "char"}) = 2
  /\ Cardinality({"unk", "char", "sys"}) = 3
  /\ Cardinality({"unk", "char", "sys", "usr"}) = 4
<1>1. Cardinality({"unk"}) = 1 /\ IsFiniteSet({"unk"})
  BY FS_Singleton
<1>2. Cardinality({"unk"} \cup {"char"}) = 2 /\ IsFiniteSet({"unk"} \cup {"char"})
  BY <1>1, FS_AddElement, SMT
<1>3. Cardinality({"unk", "char"}) = 2 /\ IsFiniteSet({"unk", "char"})
  <2>1. {"unk"} \cup {"char"} = {"unk", "char"}
    OBVIOUS
  <2> QED BY <1>2, <2>1
<1>4. Cardinality({"unk", "char", "sys"}) = 3 /\ IsFiniteSet({"unk", "char", "sys"})
  <2>1. {"unk", "char"} \cup {"sys"} = {"unk", "char", "sys"}
    OBVIOUS
  <2>2. "sys" \notin {"unk", "char"}
    OBVIOUS
  <2>3. Cardinality({"unk", "char"} \cup {"sys"}) = 2 + 1 /\ IsFiniteSet({"unk", "char"} \cup {"sys"})
    BY <1>3, <2>2, FS_AddElement, Zenon
  <2> QED BY <2>1, <2>3
<1>5. Cardinality({"unk", "char", "sys", "usr"}) = 4
  <2>1. {"unk", "char", "sys"} \cup {"usr"} = {"unk", "char", "sys", "usr"}
    OBVIOUS
  <2>2. "usr" \notin {"unk", "char", "sys"}
    OBVIOUS
  <2>3. Cardinality({"unk", "char", "sys"} \cup {"usr"}) = 3 + 1
    BY <1>4, <2>2, FS_AddElement, Zenon
  <2> QED BY <2>1, <2>3
<1> QED BY <1>1, <1>3, <1>4, <1>5, FS_EmptySet

\* the files are opened in their order, one after another
LEMMA OpensInOrder ==
  ASSUME TypeOK, ReaderInv, reader.status = "opening"
  PROVE  \/ reader.opened = {} /\ ToOpen = "unk"
         \/ reader.opened = {"unk"} /\ ToOpen = "char"
         \/ reader.opened = {"unk", "char"} /\ ToOpen = "sys"
         \/ reader.opened = {"unk", "char", "sys"} /\ reader.user /\ ToOpen = "usr"
         \/ reader.opened = {"unk", "char", "sys"} /\ ~ reader.user /\ ToOpen = "matrix"
         \/ reader.opened = {"unk", "char", "sys", "usr"} /\ reader.user /\ ToOpen = "matrix"
<1>1. reader.user \in BOOLEAN
  BY DEF TypeOK
<1>2. "matrix" \notin reader.opened
  BY DEF ReaderInv
<1>3. \/ reader.opened \in {{}, {"unk"}, {"unk", "char"}, {"unk", "char", "sys"}}
      \/ reader.user /\ reader.opened = {"unk", "char", "sys", "usr"}
  <2>1. reader.opened \in Prefixes(reader.user)
    BY DEF ReaderInv
  <2> QED BY <2>1, <1>1, <1>2, Zenon DEF Prefixes
<1>4. ToOpen = IF reader.user
               THEN <<"unk", "char", "sys", "usr", "matrix">>[Cardinality(reader.opened) + 1]
               ELSE <<"unk", "char", "sys", "matrix">>[Cardinality(reader.opened) + 1]
  BY <1>1 DEF ToOpen, OpenOrder
<1>5. CASE reader.opened = {}
  BY <1>1, <1>4, <1>5, Cardinalities, SMT
<1>6. CASE reader.opened = {"unk"}
  <2>1. Cardinality(reader.opened) = 1
    BY <1>6, Cardinalities
  <2>2. ToOpen = "char"
    BY <1>1, <1>4, <2>1, SMT
  <2> QED BY <1>6, <2>2
<1>7. CASE reader.opened = {"unk", "char"}
  <2>1. Cardinality(reader.opened) = 2
    BY <1>7, Cardinalities
  <2>2. ToOpen = "sys"
    BY <1>1, <1>4, <2>1, SMT
  <2> QED BY <1>7, <2>2
<1>8. CASE reader.opened = {"unk", "char", "sys"}
  <2>1. Cardinality(reader.opened) = 3
    BY <1>8, Cardinalities
  <2>2. ToOpen = IF reader.user THEN "usr" ELSE "matrix"
    BY <1>1, <1>4, <2>1, SMT
  <2> QED BY <1>1, <1>8, <2>2, Zenon
<1>9. CASE reader.user /\ reader.opened = {"unk", "char", "sys", "usr"}
  <2>1. Cardinality(reader.opened) = 4
    BY <1>9, Cardinalities
  <2>2. ToOpen = "matrix"
    BY <1>9, <1>4, <2>1, SMT
  <2> QED BY <1>9, <2>2
<1> QED BY <1>3, <1>5, <1>6, <1>7, <1>8, <1>9, Zenon

-----------------------------------------------------------------------------
(* Every step keeps the invariant *)

LEMMA InitInv == Init => IInv
<1> SUFFICES ASSUME Init PROVE IInv
  OBVIOUS
<1>1. TypeOK
  <2>1. NoFile \in [from : Sources \union {Absent}, sizes : (Nat \X Nat) \union {Absent},
                    written : 0 .. Blocks, magic : BOOLEAN]
    BY FilesAssumption, SMT DEF NoFile
  <2>2. todo \in Seq(Files) /\ Len(todo) <= 4
    BY SMT DEF Init
  <2>3. builds \in 0 .. MaxBuilds
    BY FilesAssumption, SMT DEF Init
  <2> QED BY <2>1, <2>2, <2>3 DEF Init, TypeOK
<1>2. FilesInv
  BY SMT DEF Init, FilesInv, Begun, NoFile
<1>3. ReaderInv
  BY DEF Init, ReaderInv, Prefixes
<1> QED BY <1>1, <1>2, <1>3 DEF IInv

\* steps of the compiler that only change its plans
LEMMA PlansKeep ==
  ASSUME IInv, UNCHANGED <<disk, reader>>, TypeOK',
         writing' => writing /\ todo' = todo
  PROVE  IInv'
<1>1. \A f \in Files : Begun(f)' => Begun(f)
  BY DEF Begun, Out
<1>2. \A f \in Files : Made(f)' <=> Made(f)
  BY DEF Made
<1>3. FilesInv'
  BY <1>1, <1>2 DEF IInv, FilesInv, Whole
<1>4. ReaderInv'
  BY DEF IInv, ReaderInv, Whole, SizesAgree, Compatible
<1> QED BY <1>3, <1>4 DEF IInv

\* files are opened after those they are compared with
LEMMA OpenedTogether ==
  ASSUME ReaderInv
  PROVE  /\ reader.opened \subseteq Files
         /\ "usr" \in reader.opened => "sys" \in reader.opened
         /\ "matrix" \in reader.opened => "sys" \in reader.opened
<1>1. reader.opened \in Prefixes(TRUE) \/ reader.opened \in Prefixes(FALSE)
  <2>1. reader.opened \in Prefixes(reader.user)
    BY DEF ReaderInv
  <2> QED BY <2>1, Zenon DEF Prefixes
<1> QED BY <1>1, Zenon DEF Prefixes, Files, Dictionaries

\* an analyser loses nothing as long as the whole files it has opened stay
LEMMA ReaderUnharmed ==
  ASSUME ReaderInv, reader' = reader,
         \A f \in reader.opened :
           Whole(f) => Whole(f)' /\ disk'[f].from = disk[f].from /\ disk'[f].sizes = disk[f].sizes
  PROVE  ReaderInv'
<1>1. reader.status \in {"opening", "open"} =>
        \A f \in reader.opened :
          Whole(f)' /\ disk'[f].from = disk[f].from /\ disk'[f].sizes = disk[f].sizes
  BY DEF ReaderInv
<1>2. reader.status = "open" => SizesAgree'
  BY <1>1, OpenedTogether DEF ReaderInv, SizesAgree
<1>3. reader.status \in {"opening", "open"} /\ "usr" \in reader.opened => Compatible("sys", "usr")'
  BY <1>1, OpenedTogether DEF ReaderInv, Compatible
<1> QED BY <1>1, <1>2, <1>3 DEF ReaderInv

\* steps of the analyser leave the files alone
LEMMA AnalyserKeeps ==
  ASSUME IInv, UNCHANGED <<sources, disk, todo, writing, failing, builds>>, ReaderInv',
         reader' \in [user : BOOLEAN, opened : SUBSET Files,
                      status : {"closed", "opening", "open", "failed", "lost"}]
  PROVE  IInv'
<1>1. TypeOK'
  BY DEF IInv, TypeOK
<1>2. FilesInv'
  BY DEF IInv, FilesInv, Begun, Out, Made, Whole
<1> QED BY <1>1, <1>2 DEF IInv

LEMMA OutIsFile ==
  ASSUME TypeOK, todo # <<>>
  PROVE  Out \in Files
BY SMT DEF TypeOK, Out

\* what compile checks before it opens its output is what readers rely on
LEMMA CompiledIsMade ==
  ASSUME IInv, OpenOutput
  PROVE  Made(Out)'
<1>1. Out' = Out /\ Out \in Files
  BY OutIsFile DEF IInv, OpenOutput, Out
<1>2. disk'[Out] = [from |-> sources, sizes |-> SizesIn(Out), written |-> 0, magic |-> FALSE]
  BY <1>1 DEF IInv, TypeOK, OpenOutput
<1>3. disk'[Out].from = sources /\ disk'[Out].sizes = SizesIn(Out)
  BY <1>2
<1>4. sources \in Sources
  BY DEF IInv, TypeOK
<1>5. Out # "char" /\ sources.matrix # Absent => SizesIn(Out) = sources.matrix
  BY DEF SizesIn, Sizes
<1>6. Out = "char" => sources.categories = sources.unkCategories
  BY DEF OpenOutput, Compiles
<1>7. Out \in Dictionaries => \A id \in sources.ids[Out] : IsValid(id, SizesIn(Out))
  <2>1. Out \in Dictionaries => Out # "char" /\ Out # "matrix"
    BY DEF Dictionaries
  <2> QED BY <2>1 DEF OpenOutput, Compiles, SizesIn
<1> QED BY <1>1, <1>3, <1>4, <1>5, <1>6, <1>7 DEF Made, IsValid

LEMMA OpenOutputKeeps == ASSUME IInv, OpenOutput PROVE IInv'
<1>1. Out' = Out /\ Out \in Files /\ todo # <<>>
  BY OutIsFile DEF IInv, OpenOutput, Out
<1>2. SizesIn(Out) \in (Nat \X Nat) \union {Absent}
  BY SizesType, SourcesAssumption, SMT DEF IInv, TypeOK, SizesIn
<1>3. [from |-> sources, sizes |-> SizesIn(Out), written |-> 0, magic |-> FALSE]
        \in [from : Sources \union {Absent}, sizes : (Nat \X Nat) \union {Absent},
             written : 0 .. Blocks, magic : BOOLEAN]
  BY <1>2, FilesAssumption, SMT DEF IInv, TypeOK
<1>4. /\ disk'[Out].written = 0 /\ disk'[Out].magic = FALSE
      /\ \A f \in Files \ {Out} : disk'[f] = disk[f]
  BY <1>1 DEF IInv, TypeOK, OpenOutput
<1>5. TypeOK'
  <2>1. disk' \in [Files -> [from : Sources \union {Absent}, sizes : (Nat \X Nat) \union {Absent},
                             written : 0 .. Blocks, magic : BOOLEAN]]
    BY <1>1, <1>3 DEF IInv, TypeOK, OpenOutput
  <2>2. reader' \in [user : BOOLEAN, opened : SUBSET Files,
                     status : {"closed", "opening", "open", "failed", "lost"}]
    BY DEF IInv, TypeOK, OpenOutput
  <2> QED BY <2>1, <2>2 DEF IInv, TypeOK, OpenOutput
<1>6. FilesInv'
  <2>1. ASSUME NEW f \in Files, Begun(f)' PROVE Made(f)'
    <3>1. CASE f = Out
      BY <3>1, <1>1, CompiledIsMade
    <3>2. CASE f # Out
      BY <3>2, <2>1, <1>1, <1>4 DEF Begun, Made, IInv, FilesInv
    <3> QED BY <3>1, <3>2
  <2>2. ASSUME NEW f \in Files, disk'[f].magic PROVE f \in Dictionaries /\ Whole(f)'
    BY <2>2, <1>4 DEF IInv, FilesInv, Whole
  <2> QED BY <2>1, <2>2, <1>1 DEF FilesInv, OpenOutput
<1>7. ReaderInv'
  <2>1. CASE Out \in reader.opened
    <3>1. reader' = [reader EXCEPT !.status = "lost"]
      BY <2>1 DEF OpenOutput
    <3>2. reader'.status = "lost" /\ reader'.user = reader.user /\ reader'.opened = reader.opened
      BY <3>1 DEF IInv, TypeOK
    <3> QED BY <3>2 DEF IInv, ReaderInv
  <2>2. CASE Out \notin reader.opened
    <3>1. reader' = reader
      BY <2>2 DEF OpenOutput
    <3>2. \A f \in reader.opened : disk'[f] = disk[f]
      BY <2>2, <1>4, OpenedTogether DEF IInv
    <3> QED BY <3>1, <3>2, ReaderUnharmed DEF IInv, Whole
  <2> QED BY <2>1, <2>2
<1> QED BY <1>5, <1>6, <1>7 DEF IInv

LEMMA WriteBlockKeeps == ASSUME IInv, WriteBlock PROVE IInv'
<1>1. Out' = Out /\ Out \in Files /\ todo # <<>>
  BY OutIsFile DEF IInv, FilesInv, WriteBlock, Out
<1>2. /\ disk' = [disk EXCEPT ![Out] = [disk[Out] EXCEPT !.written = disk[Out].written + 1]]
      /\ disk[Out].written # Blocks
  BY DEF WriteBlock, Whole
<1>3. [disk[Out] EXCEPT !.written = disk[Out].written + 1]
        \in [from : Sources \union {Absent}, sizes : (Nat \X Nat) \union {Absent},
             written : 0 .. Blocks, magic : BOOLEAN]
  <2>1. disk[Out] \in [from : Sources \union {Absent}, sizes : (Nat \X Nat) \union {Absent},
                       written : 0 .. Blocks, magic : BOOLEAN]
    BY <1>1 DEF IInv, TypeOK
  <2>2. disk[Out].written + 1 \in 0 .. Blocks
    BY <1>2, <2>1, FilesAssumption, SMT
  <2> QED BY <2>1, <2>2
<1>4. /\ disk'[Out].from = disk[Out].from /\ disk'[Out].sizes = disk[Out].sizes
      /\ disk'[Out].magic = disk[Out].magic
      /\ \A f \in Files \ {Out} : disk'[f] = disk[f]
  BY <1>1, <1>2 DEF IInv, TypeOK
<1>5. TypeOK'
  BY <1>1, <1>2, <1>3 DEF IInv, TypeOK, WriteBlock
<1>6. FilesInv'
  <2>1. ASSUME NEW f \in Files, Begun(f)' PROVE Made(f)'
    <3>1. Begun(f)
      BY <2>1, <1>1, <1>4 DEF Begun, WriteBlock
    <3> QED BY <3>1, <1>4 DEF Made, IInv, FilesInv
  <2>2. ASSUME NEW f \in Files, disk'[f].magic PROVE f \in Dictionaries /\ Whole(f)'
    BY <2>2, <1>2, <1>4 DEF IInv, FilesInv, Whole
  <2> QED BY <2>1, <2>2, <1>1 DEF FilesInv, WriteBlock
<1>7. ReaderInv'
  <2>1. \A f \in reader.opened : Whole(f) => disk'[f] = disk[f]
    BY <1>2, <1>4, OpenedTogether DEF IInv, Whole
  <2> QED BY <2>1, ReaderUnharmed DEF IInv, Whole, WriteBlock
<1> QED BY <1>5, <1>6, <1>7 DEF IInv

LEMMA CloseOutputKeeps == ASSUME IInv, CloseOutput PROVE IInv'
<1>1. Out \in Files /\ todo # <<>>
  BY OutIsFile DEF IInv, FilesInv, CloseOutput
<1>2. /\ disk' \in [Files -> [from : Sources \union {Absent}, sizes : (Nat \X Nat) \union {Absent},
                              written : 0 .. Blocks, magic : BOOLEAN]]
      /\ \A f \in Files :
           /\ disk'[f].from = disk[f].from /\ disk'[f].sizes = disk[f].sizes
           /\ disk'[f].written = disk[f].written
           /\ disk'[f].magic => disk[f].magic \/ (f \in Dictionaries /\ Whole(f))
  <2>1. CASE Out \in Dictionaries /\ ~ failing
    <3>1. disk' = [disk EXCEPT ![Out] = [disk[Out] EXCEPT !.magic = TRUE]] /\ Whole(Out)
      BY <2>1 DEF CloseOutput
    <3>2. [disk[Out] EXCEPT !.magic = TRUE]
            \in [from : Sources \union {Absent}, sizes : (Nat \X Nat) \union {Absent},
                 written : 0 .. Blocks, magic : BOOLEAN]
      BY <1>1, ZenonT(30) DEF IInv, TypeOK
    <3> QED BY <1>1, <2>1, <3>1, <3>2 DEF IInv, TypeOK
  <2>2. CASE ~ (Out \in Dictionaries /\ ~ failing)
    BY <2>2 DEF CloseOutput, IInv, TypeOK
  <2> QED BY <2>1, <2>2
<1>3. TypeOK'
  <2>1. Tail(todo) \in Seq(Files) /\ Len(Tail(todo)) <= 4
    BY <1>1, SMT DEF IInv, TypeOK
  <2> QED BY <1>2, <2>1 DEF IInv, TypeOK, CloseOutput
<1>4. FilesInv'
  <2>1. ASSUME NEW f \in Files, Begun(f)' PROVE Made(f)'
    <3>1. Begun(f)
      BY <2>1, <1>2 DEF Begun, CloseOutput
    <3> QED BY <3>1, <1>2 DEF Made, IInv, FilesInv
  <2>2. ASSUME NEW f \in Files, disk'[f].magic PROVE f \in Dictionaries /\ Whole(f)'
    BY <2>2, <1>2 DEF IInv, FilesInv, Whole
  <2> QED BY <2>1, <2>2 DEF FilesInv, CloseOutput
<1>5. ReaderInv'
  BY <1>2, OpenedTogether, ReaderUnharmed DEF IInv, Whole, CloseOutput
<1> QED BY <1>3, <1>4, <1>5 DEF IInv

LEMMA OpenNextKeeps == ASSUME IInv, OpenNext PROVE IInv'
<1>1. reader.status = "opening" /\ ReaderInv /\ TypeOK
  BY DEF OpenNext, IInv
<1>2. CASE ~ Accepted(ToOpen)
  <2>1. reader' = [reader EXCEPT !.status = "failed"]
    BY <1>2 DEF OpenNext
  <2>2. reader'.status = "failed" /\ reader'.user = reader.user /\ reader'.opened = reader.opened
    BY <2>1 DEF IInv, TypeOK
  <2>3. ReaderInv'
    BY <2>2 DEF IInv, ReaderInv
  <2> QED BY <2>1, <2>3, AnalyserKeeps DEF IInv, TypeOK, OpenNext
<1>3. CASE Accepted(ToOpen)
  <2>1. reader' = [reader EXCEPT !.opened = reader.opened \union {ToOpen},
                                 !.status = IF ToOpen = "matrix" THEN "open" ELSE "opening"]
    BY <1>3 DEF OpenNext
  <2>2. /\ reader'.status = (IF ToOpen = "matrix" THEN "open" ELSE "opening")
        /\ reader'.user = reader.user /\ reader'.opened = reader.opened \union {ToOpen}
        /\ reader.user \in BOOLEAN
    BY <2>1 DEF IInv, TypeOK
  <2>3. ToOpen \in Files /\ Whole(ToOpen)
    BY <1>1, <1>3, OpensInOrder DEF Accepted, Opens, DictionaryOpens, Files, Dictionaries
  <2>4. reader'.opened \in Prefixes(reader'.user)
    BY <1>1, <2>2, OpensInOrder DEF Prefixes
  <2>5. "matrix" \in reader'.opened <=> ToOpen = "matrix"
    BY <1>1, <2>2 DEF ReaderInv
  <2>6. \A f \in reader'.opened : Whole(f)
    BY <1>1, <2>2, <2>3 DEF ReaderInv
  <2>7. "usr" \in reader'.opened => Compatible("sys", "usr")
    BY <1>1, <1>3, <2>2 DEF ReaderInv, Accepted
  <2>8. ToOpen = "matrix" => SizesAgree
    BY <1>3 DEF Accepted
  <2>9. UNCHANGED <<sources, disk, todo, writing, failing, builds>>
    BY DEF OpenNext
  <2>10. ReaderInv'
    BY <2>2, <2>4, <2>5, <2>6, <2>7, <2>8, <2>9 DEF ReaderInv, Whole, SizesAgree, Compatible
  <2>11. reader' \in [user : BOOLEAN, opened : SUBSET Files,
                      status : {"closed", "opening", "open", "failed", "lost"}]
    BY <2>1, <2>3 DEF IInv, TypeOK
  <2> QED BY <2>9, <2>10, <2>11, AnalyserKeeps
<1> QED BY <1>2, <1>3

LEMMA StepInv == IInv /\ [Next]_vars => IInv'
<1> SUFFICES ASSUME IInv, [Next]_vars PROVE IInv'
  OBVIOUS
<1>1. CASE EditSources
  <2>1. TypeOK'
    BY <1>1 DEF IInv, TypeOK, EditSources
  <2> QED BY <1>1, <2>1, PlansKeep DEF EditSources
<1>2. CASE StartBuild
  <2>1. todo' \in Seq(Files) /\ Len(todo') <= 4
    BY <1>2, FilesOfType DEF StartBuild
  <2>2. builds' \in 0 .. MaxBuilds
    BY <1>2, FilesAssumption, SMT DEF IInv, TypeOK, StartBuild
  <2>3. TypeOK'
    BY <1>2, <2>1, <2>2 DEF IInv, TypeOK, StartBuild
  <2>4. writing = FALSE
    BY <1>2 DEF IInv, TypeOK, FilesInv, StartBuild
  <2> QED BY <1>2, <2>3, <2>4, PlansKeep DEF StartBuild
<1>3. CASE Die \/ Killed
  <2>1. <<>> \in Seq(Files) /\ Len(<<>>) <= 4
    BY SMT
  <2>2. TypeOK'
    BY <1>3, <2>1 DEF IInv, TypeOK, Die, Killed, StopBuild
  <2>3. writing' = FALSE /\ UNCHANGED <<disk, reader>>
    BY <1>3 DEF Die, Killed, StopBuild
  <2> QED BY <2>2, <2>3, PlansKeep
<1>4. CASE WriteFails
  <2>1. TypeOK'
    BY <1>4 DEF IInv, TypeOK, WriteFails
  <2> QED BY <1>4, <2>1, PlansKeep DEF WriteFails
<1>5. CASE OpenOutput
  BY <1>5, OpenOutputKeeps
<1>6. CASE WriteBlock
  BY <1>6, WriteBlockKeeps
<1>7. CASE CloseOutput
  BY <1>7, CloseOutputKeeps
<1>8. CASE OpenNext
  BY <1>8, OpenNextKeeps
<1>9. CASE StartOpen
  <2>1. PICK user \in BOOLEAN : reader' = [user |-> user, opened |-> {}, status |-> "opening"]
    BY <1>9 DEF StartOpen
  <2>2. ReaderInv'
    BY <2>1 DEF ReaderInv, Prefixes
  <2> QED BY <1>9, <2>1, <2>2, AnalyserKeeps DEF StartOpen
<1>10. CASE CloseReader
  <2>1. reader' = [reader EXCEPT !.opened = {}, !.status = "closed"]
    BY <1>10 DEF CloseReader
  <2>2. reader'.opened = {} /\ reader'.status = "closed"
    BY <2>1 DEF IInv, TypeOK
  <2>3. ReaderInv'
    BY <2>2 DEF ReaderInv, Prefixes
  <2> QED BY <1>10, <2>1, <2>3, AnalyserKeeps DEF IInv, TypeOK, CloseReader
<1>11. CASE UNCHANGED vars
  BY <1>11, PlansKeep DEF IInv, TypeOK, vars
<1> QED BY <1>1, <1>2, <1>3, <1>4, <1>5, <1>6, <1>7, <1>8, <1>9, <1>10, <1>11
        DEF Next, Compiler, Analyser

\* Every state that a killed compiler, a full disk and an analyser can reach.
THEOREM Invariance == Spec => []IInv
BY InitInv, StepInv, PTL DEF Spec

-----------------------------------------------------------------------------
(* What it says *)

\* Every file, plan and reader of the specification is of its type, whatever the
\* definitions, the commands and the number of blocks of a file
\* (dictionary_compiler.cpp:92-142).
THEOREM TypeCorrect == Spec => []TypeOK
<1>1. IInv => TypeOK
  BY DEF IInv
<1> QED BY <1>1, Invariance, PTL

\* An analyser that is open works on complete files only, wherever the compiler was
\* killed and whichever write failed (dictionary.cpp:527, connector.cpp:47).
THEOREM OpenedFilesComplete == Spec => []OpenedIsComplete
<1>1. IInv => OpenedIsComplete
  BY DEF IInv, ReaderInv, OpenedIsComplete
<1> QED BY <1>1, Invariance, PTL

\* The ids of all words that an open analyser knows are rows and columns of its
\* matrix, from whatever builds and definitions its files come
\* (viterbi.cpp:55, tokenizer.cpp:125).
THEOREM IdsInside == Spec => []IdsInMatrix
<1>1. ASSUME IInv PROVE IdsInMatrix
  <2> SUFFICES ASSUME reader.status = "open",
                      NEW f \in reader.opened \cap {"sys", "usr"},
                      NEW id \in disk[f].from.ids[f]
               PROVE  IsValid(id, disk["matrix"].sizes)
    BY DEF IdsInMatrix
  <2>1. f \in Dictionaries /\ f \in Files /\ Whole(f)
    BY <1>1 DEF IInv, ReaderInv, Dictionaries, Files
  <2>2. Made(f)
    BY <1>1, <2>1, FilesAssumption, SMT DEF IInv, FilesInv, Begun, Whole
  <2>3. disk["sys"].sizes = disk["matrix"].sizes
    BY <1>1 DEF IInv, ReaderInv, SizesAgree
  <2>4. disk[f].sizes = disk["sys"].sizes
    BY <1>1 DEF IInv, ReaderInv, Compatible
  <2> QED BY <2>1, <2>2, <2>3, <2>4 DEF Made
<1> QED BY <1>1, Invariance, PTL

\* what one set of definitions was compiled to, a reader accepts
LEMMA AcceptsOneDefinition ==
  ASSUME IInv, reader.status = "opening", FromOneDefinition
  PROVE  Accepted(ToOpen)
<1>1. PICK s \in Sources :
        /\ s.matrix # Absent
        /\ \A n \in DOMAIN OpenOrder(reader.user) :
             LET f == OpenOrder(reader.user)[n]
             IN disk[f].from = s /\ Whole(f) /\ (f \in Dictionaries => disk[f].magic)
  BY DEF FromOneDefinition
<1> DEFINE Good(f) == disk[f].from = s /\ Whole(f) /\ (f \in Dictionaries => disk[f].magic)
<1>2. reader.user \in BOOLEAN
  BY DEF IInv, TypeOK
<1>3. Good("unk") /\ Good("char") /\ Good("sys") /\ Good("matrix") /\ (reader.user => Good("usr"))
  <2>1. CASE reader.user
    <3>1. OpenOrder(reader.user) = <<"unk", "char", "sys", "usr", "matrix">>
      BY <2>1 DEF OpenOrder
    <3>2. DOMAIN OpenOrder(reader.user) = 1 .. 5
      BY <3>1, SMT
    <3>3. \A n \in 1 .. 5 : Good(OpenOrder(reader.user)[n])
      BY <1>1, <3>2
    <3> HIDE DEF Good
    <3> QED BY <3>1, <3>3, SMT
  <2>2. CASE ~ reader.user
    <3>1. OpenOrder(reader.user) = <<"unk", "char", "sys", "matrix">>
      BY <2>2 DEF OpenOrder
    <3>2. DOMAIN OpenOrder(reader.user) = 1 .. 4
      BY <3>1, SMT
    <3>3. \A n \in 1 .. 4 : Good(OpenOrder(reader.user)[n])
      BY <1>1, <3>2
    <3> HIDE DEF Good
    <3> QED BY <2>2, <3>1, <3>3, SMT
  <2> QED BY <1>2, <2>1, <2>2
<1>4. ASSUME NEW f \in Files, Good(f)
      PROVE  /\ Opens(f) /\ Made(f)
             /\ f # "char" => disk[f].sizes = s.matrix
  <2>1. disk[f].written > 0
    BY <1>4, FilesAssumption, SMT DEF Whole
  <2>2. Made(f)
    BY <2>1 DEF IInv, FilesInv, Begun
  <2> QED BY <1>1, <1>4, <2>1, <2>2 DEF Opens, DictionaryOpens, Made
<1>5. {"unk", "char", "sys", "usr", "matrix"} \subseteq Files
  BY DEF Files, Dictionaries
<1>6. CategoriesFound
  BY <1>3, <1>4, <1>5 DEF Made, CategoriesFound
<1>7. SizesAgree
  BY <1>3, <1>4, <1>5 DEF SizesAgree
<1>8. reader.user => Compatible("sys", "usr")
  BY <1>3, <1>4, <1>5 DEF Compatible
<1>9. /\ ToOpen \in {"unk", "char", "sys", "matrix"} \/ (reader.user /\ ToOpen = "usr")
  BY OpensInOrder DEF IInv
<1>10. Opens(ToOpen)
  BY <1>3, <1>4, <1>5, <1>9
<1> QED BY <1>6, <1>7, <1>8, <1>9, <1>10 DEF Accepted

\* Complete files of one set of definitions with a matrix.def are never refused
\* (dictionary.cpp:276, viterbi.cpp:55).
THEOREM NeverRefused == Spec => ConsistentFilesOpen
<1>1. ASSUME IInv, [Next]_vars, reader.status = "opening", reader'.status = "failed",
             FromOneDefinition
      PROVE  FALSE
  <2>1. Accepted(ToOpen)
    BY <1>1, AcceptsOneDefinition
  <2>2. ~ OpenNext
    <3>1. ASSUME OpenNext PROVE FALSE
      <4>1. reader' = [reader EXCEPT !.opened = reader.opened \union {ToOpen},
                                     !.status = IF ToOpen = "matrix" THEN "open" ELSE "opening"]
        BY <2>1, <3>1 DEF OpenNext
      <4>2. reader'.status # "failed"
        BY <1>1, <4>1 DEF IInv, TypeOK
      <4> QED BY <1>1, <4>2
    <3> QED BY <3>1
  <2>3. ~ OpenOutput
    <3>1. ASSUME OpenOutput PROVE FALSE
      <4>1. reader' = reader \/ reader' = [reader EXCEPT !.status = "lost"]
        BY <3>1 DEF OpenOutput
      <4>2. reader'.status # "failed"
        BY <1>1, <4>1 DEF IInv, TypeOK
      <4> QED BY <1>1, <4>2
    <3> QED BY <3>1
  <2> QED BY <1>1, <2>2, <2>3
          DEF Next, Compiler, Analyser, EditSources, StartBuild, Die, WriteBlock, WriteFails,
              CloseOutput, Killed, StartOpen, CloseReader, vars
<1>2. IInv /\ [Next]_vars
      => (reader.status = "opening" /\ reader'.status = "failed" => ~ FromOneDefinition)
  BY <1>1
<1> QED BY <1>2, Invariance, PTL DEF Spec, ConsistentFilesOpen
=============================================================================
