---------------------------- MODULE Driver_proofs ----------------------------
(***************************************************************************)
(* What the driver leaves of the user's files, for every command line,     *)
(* every set of files there, every limit, and however the programs it runs *)
(* fail.  The invariant IInv adds to the two properties what main.c relies *)
(* on from one step to the next: the assembly file of the source in hand   *)
(* is the driver's own (Opened), so is every file marked Temp (TempsOwn),  *)
(* and what is there that was not is accounted for (Left).  SuccessInv,    *)
(* further down, adds what a run needs to have made what it was asked for. *)
(***************************************************************************)
EXTENDS Driver, TLAPS

FilesType == Seq([name : Names, temp : BOOLEAN])

\* The two properties as they depend on the files.
Kept(g) == \A n \in Names \ Own : had[n] # Absent => g[n] = had[n]
Extra(g) == {n \in Names : had[n] = Absent /\ g[n] # Absent}

Opened == pc \in {"program", "assemble"} /\ ~O.testonly => had[SFile] = Absent \/ SFile \in Own
TempsOwn == \A k \in DOMAIN files : files[k].temp => files[k].name \in Own
Tested == O.testonly => fs = had /\ pc # "assemble"
Left ==
    /\ pc = "next" => New \subseteq Before
    /\ pc = "program" => New \subseteq Before \cup {SFile}
    /\ pc = "program" /\ errors /\ ~O.testonly =>
          ~exists(SFile) /\ ~exists(OFile) /\ New \subseteq Before
    /\ pc = "assemble" => ~O.asmonly /\ New \subseteq Before \cup {SFile}
    /\ pc # "ended" => said = ""
Settled == pc = "ended" => StoppedRight /\ FailureRight

IInv == TypeOK /\ Opened /\ TempsOwn /\ Tested /\ KeepsUsersFiles /\ Left /\ Settled
-----------------------------------------------------------------------------
(* Names, and the files after one of them changed. *)

LEMMA NewName ==
    ASSUME NEW f \in Names, NEW x \in {"c", "s", "o", ""}
    PROVE  newfilename(f, x) \in Names /\ newfilename(f, x).sfx = x
BY DEF newfilename, Names

LEMMA CommandTyped ==
    ASSUME TypeOK
    PROVE  /\ args \in Seq(Names) /\ Len(args) \in Nat /\ i \in Nat /\ i >= 1
           /\ O.asmonly => O.componly
           /\ O.outfile \in Names \cup {NoName} /\ Output \in Names
           /\ O.testonly \in BOOLEAN /\ O.componly \in BOOLEAN /\ O.asmonly \in BOOLEAN
<1>1. args \in Seq(Names) BY DriverAssumption DEF TypeOK
<1>2. Len(args) \in Nat BY <1>1
<1>3. i \in Nat /\ i >= 1 BY <1>2 DEF TypeOK
<1>4. O \in Options BY DEF TypeOK
<1>5. /\ O.asmonly => O.componly
      /\ O.outfile \in Names \cup {NoName}
      /\ O.testonly \in BOOLEAN /\ O.componly \in BOOLEAN /\ O.asmonly \in BOOLEAN
  BY <1>4, DriverAssumption
<1>6. Output \in Names BY <1>5, DriverAssumption DEF Output
<1>7. QED BY <1>1, <1>2, <1>3, <1>5, <1>6

LEMMA ArgTyped ==
    ASSUME TypeOK, i <= Len(args)
    PROVE  /\ Arg \in Names /\ i \in DOMAIN args
           /\ SFile \in Names /\ SFile.sfx = "s"
           /\ OFile \in Names /\ OFile.sfx = "o"
<1>1. i \in DOMAIN args /\ Arg \in Names BY CommandTyped DEF Arg
<1>2. QED BY <1>1, NewName DEF SFile, OFile

LEMMA WithFile ==
    ASSUME TypeOK, NEW f, NEW c
    PROVE  /\ DOMAIN With(f, c) = Names
           /\ \A n \in Names \ {f} : With(f, c)[n] = fs[n]
           /\ f \in Names => With(f, c)[f] = c
BY DEF TypeOK, With

LEMMA WithoutFiles ==
    ASSUME TypeOK, NEW S
    PROVE  /\ DOMAIN Without(S) = Names
           /\ \A n \in Names : Without(S)[n] = IF n \in S THEN Absent ELSE fs[n]
BY DEF Without


\* A file that is the driver's to change keeps the user's others.
LEMMA KeptWith ==
    ASSUME TypeOK, KeepsUsersFiles, NEW f, NEW c, f \in Own \/ had[f] = Absent
    PROVE  Kept(With(f, c)) /\ Extra(With(f, c)) \subseteq New \cup {f}
BY WithFile DEF KeepsUsersFiles, Kept, Extra, New

LEMMA KeptWithout ==
    ASSUME TypeOK, KeepsUsersFiles, NEW S, \A f \in S : f \in Own \/ had[f] = Absent
    PROVE  Kept(Without(S)) /\ Extra(Without(S)) \subseteq New \ S
BY WithoutFiles DEF KeepsUsersFiles, Kept, Extra, New

LEMMA NextFiles ==
    ASSUME UNCHANGED start
    PROVE  /\ Own' = Own /\ Output' = Output /\ Sources' = Sources
           /\ Kept(fs') => KeepsUsersFiles'
           /\ New' = Extra(fs')
BY DEF start, Own, Output, Sources, IsObject, Kept, Extra, KeepsUsersFiles, New
-----------------------------------------------------------------------------
(* Where main() is. *)

LEMMA Stay ==
    ASSUME UNCHANGED start, UNCHANGED i
    PROVE  /\ Arg' = Arg /\ SFile' = SFile /\ OFile' = OFile
           /\ Before' = Before /\ Len(args)' = Len(args)
BY DEF start, Arg, SFile, OFile, Before, Sources, IsObject

LEMMA Advance ==
    ASSUME TypeOK, UNCHANGED start, i <= Len(args), i' = i + 1
    PROVE  /\ i' \in 1 .. Len(args') + 1
           /\ Before \subseteq Before'
           /\ ~IsObject(Arg) => OFile \in Before'
           /\ ~IsObject(Arg) /\ O.asmonly => SFile \in Before'
<1>1. /\ i \in Nat /\ Len(args) \in Nat /\ i >= 1 /\ i \in DOMAIN args
      /\ O' = O /\ args' = args
  BY CommandTyped, ArgTyped DEF start
<1>2. Sources' = Sources /\ Sources \subseteq Nat
  BY <1>1, CommandTyped, NextFiles DEF Sources
<1>3. i < i' /\ \A j \in Sources : j < i => j < i' BY <1>1, <1>2
<1>4. i' \in 1 .. Len(args') + 1 BY <1>1
<1>5. Before \subseteq Before' BY <1>1, <1>2, <1>3 DEF Before
<1>6. ASSUME ~IsObject(Arg)
      PROVE  OFile \in Before' /\ (O.asmonly => SFile \in Before')
  <2>1. i \in Sources BY <1>1, <1>6 DEF Sources, Arg
  <2>2. QED BY <1>1, <1>2, <1>3, <2>1 DEF Before, OFile, SFile, Arg
<1>7. QED BY <1>4, <1>5, <1>6

\* Of a source, the object may be written over.
LEMMA SourceOwns ==
    ASSUME TypeOK, i <= Len(args), ~IsObject(Arg), ~O.testonly
    PROVE  OFile \in Own /\ Target \in Own /\ Target \in Names
<1>1. i \in Sources BY ArgTyped DEF Sources, Arg
<1>2. OFile \in Own BY <1>1 DEF Own, OFile, Arg
<1>3. QED BY <1>2, ArgTyped, CommandTyped DEF Own, Target

LEMMA CompiledIsSource == ASSUME filetype(Arg) = "c" PROVE ~IsObject(Arg)
BY DEF IsObject

\* But for -S, what the sources before made are objects.
LEMMA BeforeObjects ==
    ASSUME TypeOK, ~O.asmonly, NEW n \in Before, n # O.outfile
    PROVE  filetype(n) # "s"
<1>1. PICK k \in Sources : n = newfilename(args[k], "o") BY DEF Before
<1>2. args[k] \in Names BY <1>1, CommandTyped DEF Sources
<1>3. QED BY <1>1, <1>2, NewName DEF filetype

LEMMA EndsClean ==
    ASSUME TypeOK, UNCHANGED start, UNCHANGED i, New' \subseteq Before \cup {Output}
    PROVE  FailureRight'
<1>1. O' = O /\ Output' = Output BY NextFiles DEF start
<1>2. ASSUME ~O.asmonly, NEW n \in New' \ {O.outfile, Output} PROVE filetype(n) # "s"
  BY <1>2, BeforeObjects
<1>3. QED BY <1>1, <1>2 DEF FailureRight, filetype
-----------------------------------------------------------------------------
(* One lemma for each step. *)

LEMMA InitIInv == ASSUME Init PROVE IInv
<1>1. TypeOK
  <2>1. args \in Seq(Names) /\ args # <<>> /\ had \in Disks
    BY DriverAssumption DEF Init
  <2>2. Len(args) \in Nat BY <2>1
  <2>3. i \in 1 .. Len(args) + 1
    <3>1. i = 1 BY DEF Init
    <3>2. QED BY <2>2, <3>1
  <2>4. files \in Seq([name : Names, temp : BOOLEAN])
    <3>1. files = <<>> BY DEF Init
    <3>2. QED BY <3>1
  <2>5. DOMAIN fs = Names
    <3>1. fs = had BY DEF Init
    <3>2. \A d \in Disks : DOMAIN d = Names BY DriverAssumption
    <3>3. QED BY <2>1, <3>1, <3>2
  <2>6. QED BY <2>3, <2>4, <2>5 DEF Init, TypeOK
<1>2. KeepsUsersFiles /\ New = {} BY DEF Init, KeepsUsersFiles, New
<1>3. Opened /\ Tested /\ Settled BY DEF Init, Opened, Tested, Settled
<1>4. Left BY <1>2 DEF Init, Left
<1>5. TempsOwn
  <2>1. files = <<>> BY DEF Init
  <2>2. DOMAIN files = {} BY <2>1
  <2>3. QED BY <2>2 DEF TempsOwn
<1>6. QED BY <1>1, <1>2, <1>3, <1>4, <1>5 DEF IInv

\* A step that gives up without a change of the files, where nothing is half done.
LEMMA GivesUp ==
    ASSUME IInv, pc = "next", UNCHANGED <<start, i, fs, errors>>, pc' = "ended",
           files' = files,
           said' \notin {"compilation stopped", "fatal error, stop"}
    PROVE  IInv'
<1>1. New' = New /\ Kept(fs') /\ New \subseteq Before
  BY DEF IInv, start, New, Kept, KeepsUsersFiles, Left
<1>2. TypeOK' BY DEF IInv, TypeOK, start
<1>3. Opened' /\ Left' BY DEF Opened, Left
<1>4. TempsOwn' BY NextFiles DEF IInv, TempsOwn
<1>5. Tested' BY DEF IInv, Tested, start
<1>6. KeepsUsersFiles' BY <1>1, NextFiles
<1>7. StoppedRight' BY DEF StoppedRight
<1>8. FailureRight' BY <1>1, EndsClean DEF IInv
<1>9. QED BY <1>2, <1>3, <1>4, <1>5, <1>6, <1>7, <1>8 DEF IInv, Settled

LEMMA OpenSourceStep == ASSUME IInv, OpenSource PROVE IInv'
<1>1. /\ pc = "next" /\ i <= Len(args) /\ filetype(Arg) = "c" /\ UNCHANGED <<start, i, files>>
  BY DEF OpenSource, AtFile, cmderror, Exit, GoTo
<1>2. CASE pc' = "ended"
  <2>1. UNCHANGED <<fs, errors>> /\ said' \notin {"compilation stopped", "fatal error, stop"}
    BY <1>2 DEF OpenSource, cmderror, Exit, GoTo
  <2>2. QED BY <1>1, <1>2, <2>1, GivesUp
<1>3. CASE pc' # "ended"
  <2>1. /\ pc' = "program" /\ errors' = FALSE /\ said' = said
        /\ fs' = IF O.testonly THEN fs ELSE With(SFile, Unfinished)
        /\ ~O.testonly => fs[SFile] = Absent
    BY <1>3 DEF OpenSource, cmderror, Exit, GoTo, exists
  <2>2. TypeOK /\ KeepsUsersFiles /\ SFile \in Names /\ New \subseteq Before
    BY <1>1, ArgTyped DEF IInv, Left
  <2>3. ~O.testonly => SFile \in Own \/ had[SFile] = Absent
    BY <2>1, <2>2 DEF KeepsUsersFiles
  <2>4. Kept(fs') /\ Extra(fs') \subseteq New \cup {SFile}
    BY <2>1, <2>2, <2>3, KeptWith DEF Kept, Extra, KeepsUsersFiles, New
  <2>5. TypeOK'
    <3>1. DOMAIN fs' = Names BY <2>1, <2>2, WithFile DEF TypeOK
    <3>2. Len(args') = Len(args) /\ Arg' = Arg BY <1>1, Stay
    <3>3. QED BY <1>1, <2>1, <2>2, <3>1, <3>2 DEF TypeOK, start, filetype
  <2>6. Opened' BY <1>1, <2>3, Stay, NextFiles DEF Opened, start
  <2>7. TempsOwn' BY <1>1, NextFiles DEF IInv, TempsOwn
  <2>8. Tested' BY <1>1, <2>1 DEF IInv, Tested, start
  <2>9. KeepsUsersFiles' BY <1>1, <2>4, NextFiles
  <2>10. New' \subseteq Before' \cup {SFile'} BY <1>1, <2>2, <2>4, NextFiles, Stay
  <2>11. Left' BY <1>1, <2>1, <2>10 DEF IInv, Left
  <2>12. Settled' BY <2>1 DEF Settled
  <2>13. QED BY <2>5, <2>6, <2>7, <2>8, <2>9, <2>11, <2>12 DEF IInv
<1>4. QED BY <1>2, <1>3

\* What cleanup() leaves.
LEMMA CleanedUp ==
    ASSUME IInv, pc = "program", UNCHANGED start, UNCHANGED i, fs' = Cleanup
    PROVE  /\ DOMAIN fs' = Names
           /\ KeepsUsersFiles'
           /\ O.testonly => fs' = had'
           /\ New' \subseteq Before'
           /\ ~O.testonly => fs'[SFile'] = Absent /\ fs'[OFile'] = Absent
<1>1. TypeOK /\ KeepsUsersFiles /\ i <= Len(args) /\ ~IsObject(Arg)
  BY CompiledIsSource DEF IInv, TypeOK
<1>2. New \subseteq Before \cup {SFile} /\ SFile \in Names /\ OFile \in Names
  BY <1>1, ArgTyped DEF IInv, Left
<1>3. CASE O.testonly
  <2>1. fs' = fs /\ fs = had /\ had' = had BY <1>3 DEF IInv, Tested, Cleanup, start
  <2>2. KeepsUsersFiles' /\ New' = {} BY <2>1 DEF KeepsUsersFiles, New
  <2>3. QED BY <1>1, <1>3, <2>1, <2>2 DEF TypeOK
<1>4. CASE ~O.testonly
  <2>1. fs' = Without({SFile, OFile}) BY <1>4 DEF Cleanup
  <2>2. \A f \in {SFile, OFile} : f \in Own \/ had[f] = Absent
    BY <1>1, <1>4, SourceOwns DEF IInv, Opened
  <2>3. Kept(fs') /\ Extra(fs') \subseteq New \ {SFile, OFile}
    BY <1>1, <2>1, <2>2, KeptWithout
  <2>4. DOMAIN fs' = Names /\ fs'[SFile] = Absent /\ fs'[OFile] = Absent
    BY <1>1, <1>2, <2>1, WithoutFiles
  <2>5. QED BY <1>2, <1>4, <2>3, <2>4, NextFiles, Stay
<1>5. QED BY <1>1, <1>3, <1>4, CommandTyped

LEMMA FirstErrorStep == ASSUME IInv, FirstError PROVE IInv'
<1>1. /\ pc = "program" /\ pc' = "program" /\ UNCHANGED <<start, i, files, said>>
      /\ errors' = TRUE /\ fs' = Cleanup
  BY DEF FirstError, GoTo
<1>2. TypeOK'
  BY <1>1, CleanedUp, Stay DEF IInv, TypeOK, start, filetype
<1>3. Opened' BY <1>1, Stay, NextFiles DEF IInv, Opened, start
<1>4. TempsOwn' BY <1>1, NextFiles DEF IInv, TempsOwn
<1>5. Tested' BY <1>1, CleanedUp DEF IInv, Tested, start
<1>6. KeepsUsersFiles' BY <1>1, CleanedUp
<1>7. Left' BY <1>1, CleanedUp DEF IInv, Left, exists, start
<1>8. Settled' BY <1>1 DEF Settled
<1>9. QED BY <1>2, <1>3, <1>4, <1>5, <1>6, <1>7, <1>8 DEF IInv

LEMMA FatalStep == ASSUME IInv, Fatal PROVE IInv'
<1>1. /\ pc = "program" /\ pc' = "ended" /\ UNCHANGED <<start, i, files>>
      /\ errors' = TRUE /\ fs' = Cleanup
  BY DEF Fatal, Exit
<1>2. TypeOK' BY <1>1, CleanedUp, Stay DEF IInv, TypeOK, start
<1>3. Opened' /\ Left' BY <1>1 DEF Opened, Left
<1>4. TempsOwn' BY <1>1, NextFiles DEF IInv, TempsOwn
<1>5. Tested' BY <1>1, CleanedUp DEF IInv, Tested, start
<1>6. KeepsUsersFiles' BY <1>1, CleanedUp
<1>7. StoppedRight' BY <1>1, CleanedUp DEF StoppedRight, exists, start
<1>8. New' \subseteq Before \cup {Output} BY <1>1, CleanedUp, Stay
<1>9. FailureRight' BY <1>1, <1>8, EndsClean DEF IInv
<1>10. QED BY <1>2, <1>3, <1>4, <1>5, <1>6, <1>7, <1>9 DEF IInv, Settled

LEMMA FatalDefinitionStep == ASSUME IInv, FatalDefinition PROVE IInv'
<1>1. /\ pc = "program" /\ pc' = "ended" /\ UNCHANGED <<start, fs, i, files>>
      /\ errors' = TRUE /\ said' = "macro too long"
  BY DEF FatalDefinition, Exit
<1>2. TypeOK' BY <1>1, Stay DEF IInv, TypeOK, start
<1>3. Opened' /\ Left' BY <1>1 DEF Opened, Left
<1>4. TempsOwn' BY <1>1, NextFiles DEF IInv, TempsOwn
<1>5. Tested' BY <1>1 DEF IInv, Tested, start
<1>6. KeepsUsersFiles' /\ New' = New
  BY <1>1, NextFiles DEF IInv, KeepsUsersFiles, New, start
<1>7. StoppedRight' BY <1>1 DEF StoppedRight
<1>8. FailureRight'
  <2>1. TypeOK /\ New \subseteq Before \cup {SFile} BY <1>1 DEF IInv, Left
  <2>2. ASSUME ~O.asmonly, NEW n \in New \ {O.outfile, Output}, filetype(n) = "s"
        PROVE  n = SFile
    BY <2>1, <2>2, BeforeObjects
  <2>3. SFile' = SFile /\ Output' = Output /\ O' = O BY <1>1, Stay, NextFiles DEF start
  <2>4. QED BY <1>1, <1>6, <2>2, <2>3 DEF FailureRight, filetype
<1>9. QED BY <1>2, <1>3, <1>4, <1>5, <1>6, <1>7, <1>8 DEF IInv, Settled

\* What the translation of a source leaves.
LEMMA Translated ==
    ASSUME IInv, pc = "program", UNCHANGED start,
           fs' = IF O.testonly \/ errors THEN fs ELSE With(SFile, Code(fs[Arg]))
    PROVE  /\ DOMAIN fs' = Names
           /\ KeepsUsersFiles'
           /\ O.testonly => fs' = had' /\ New' = {}
           /\ New' \subseteq Before \cup {SFile}
           /\ errors => fs' = fs
<1>1. TypeOK /\ KeepsUsersFiles /\ i <= Len(args) /\ DOMAIN fs = Names
  BY DEF IInv, TypeOK
<1>2. New \subseteq Before \cup {SFile} BY DEF IInv, Left
<1>3. CASE O.testonly \/ errors
  <2>1. fs' = fs BY <1>3
  <2>2. KeepsUsersFiles' /\ New' = New
    BY <1>1, <2>1, NextFiles DEF start, KeepsUsersFiles, New
  <2>3. O.testonly => fs' = had' /\ New' = {}
    BY <2>1, <2>2 DEF IInv, Tested, start, New
  <2>4. QED BY <1>1, <1>2, <2>1, <2>2, <2>3
<1>4. CASE ~O.testonly /\ ~errors
  <2>1. fs' = With(SFile, Code(fs[Arg])) BY <1>4
  <2>2. SFile \in Own \/ had[SFile] = Absent BY <1>4 DEF IInv, Opened
  <2>3. Kept(fs') /\ Extra(fs') \subseteq New \cup {SFile}
    BY <1>1, <2>1, <2>2, KeptWith
  <2>4. DOMAIN fs' = Names BY <1>1, <2>1, WithFile
  <2>5. QED BY <1>2, <1>4, <2>3, <2>4, NextFiles
<1>5. QED BY <1>1, <1>3, <1>4, CommandTyped DEF IInv, TypeOK

LEMMA EndOfSourceStep == ASSUME IInv, EndOfSource PROVE IInv'
<1>1. /\ pc = "program" /\ UNCHANGED <<start, files, errors>>
      /\ fs' = IF O.testonly \/ errors THEN fs ELSE With(SFile, Code(fs[Arg]))
  BY DEF EndOfSource, cmderror, Exit, GoTo
<1>2. TypeOK /\ i <= Len(args) /\ filetype(Arg) = "c" /\ O' = O
  BY <1>1 DEF IInv, TypeOK, start
<1>3. TempsOwn' BY <1>1, NextFiles DEF IInv, TempsOwn
<1>4. KeepsUsersFiles' BY <1>1, Translated
<1>5. CASE errors /\ ~O.testonly /\ cmderror("compilation stopped")
  <2>1. pc' = "ended" /\ i' = i /\ said' = "compilation stopped"
    BY <1>5 DEF cmderror, Exit
  <2>2. TypeOK' BY <1>1, <1>2, <2>1, Translated, Stay DEF TypeOK, start
  <2>3. Opened' /\ Left' BY <2>1 DEF Opened, Left
  <2>4. Tested' BY <1>2, <1>5 DEF Tested
  <2>5. fs[SFile] = Absent /\ fs[OFile] = Absent /\ New \subseteq Before /\ fs' = fs
    BY <1>1, <1>5 DEF IInv, Left, exists
  <2>6. New' = New BY <1>1, <2>5 DEF New, start
  <2>7. StoppedRight' BY <1>1, <2>1, <2>5, <2>6, Stay DEF StoppedRight, exists
  <2>8. FailureRight' BY <1>1, <1>2, <2>1, <2>5, <2>6, EndsClean
  <2>9. QED BY <1>3, <1>4, <2>2, <2>3, <2>4, <2>7, <2>8 DEF IInv, Settled
<1>6. CASE ~O.testonly /\ ~errors /\ ~O.asmonly /\ GoTo("assemble") /\ i' = i
  <2>1. pc' = "assemble" /\ said' = said BY <1>6 DEF GoTo
  <2>2. TypeOK' BY <1>1, <1>2, <1>6, <2>1, Translated, Stay DEF TypeOK, start, filetype
  <2>3. Opened' BY <1>1, <1>6, Stay, NextFiles DEF IInv, Opened, start
  <2>4. Tested' BY <1>2, <1>6 DEF Tested
  <2>5. New' \subseteq Before' \cup {SFile'} BY <1>1, <1>6, Translated, Stay
  <2>6. Left' BY <1>1, <1>2, <1>6, <2>1, <2>5 DEF IInv, Left
  <2>7. Settled' BY <2>1 DEF Settled
  <2>8. QED BY <1>3, <1>4, <2>2, <2>3, <2>4, <2>6, <2>7 DEF IInv
<1>7. CASE (O.testonly \/ (~errors /\ O.asmonly)) /\ i' = i + 1 /\ GoTo("next")
  <2>1. pc' = "next" /\ said' = said BY <1>7 DEF GoTo
  <2>2. i' \in 1 .. Len(args') + 1 /\ Before \subseteq Before'
        /\ (O.asmonly => SFile \in Before')
    BY <1>1, <1>2, <1>7, Advance, CompiledIsSource
  <2>3. TypeOK' BY <1>1, <1>2, <2>1, <2>2, Translated DEF TypeOK, start
  <2>4. Opened' /\ Settled' BY <2>1 DEF Opened, Settled
  <2>5. Tested' BY <1>1, <1>2, <2>1, Translated DEF Tested
  <2>6. New' \subseteq Before' BY <1>1, <1>7, <2>2, Translated
  <2>7. Left' BY <1>1, <2>1, <2>6 DEF IInv, Left
  <2>8. QED BY <1>3, <1>4, <2>3, <2>4, <2>5, <2>7 DEF IInv
<1>8. QED BY <1>5, <1>6, <1>7 DEF EndOfSource

\* collect() keeps track of what is the driver's.
LEMMA Collected ==
    ASSUME IInv, UNCHANGED start, NEW f \in Names, NEW temp \in BOOLEAN,
           temp => f \in Own, files' = collect(f, temp)
    PROVE  files' \in Seq([name : Names, temp : BOOLEAN]) /\ TempsOwn'
<1>1. files \in Seq([name : Names, temp : BOOLEAN]) /\ TempsOwn /\ Own' = Own
  BY NextFiles DEF IInv, TypeOK
<1>2. CASE O.componly BY <1>1, <1>2 DEF collect, TempsOwn
<1>3. CASE ~O.componly
  <2>1. files' = Append(files, [name |-> f, temp |-> temp]) BY <1>3 DEF collect
  <2>2. files' \in Seq([name : Names, temp : BOOLEAN]) BY <1>1, <2>1
  <2>3. ASSUME NEW k \in DOMAIN files', files'[k].temp PROVE files'[k].name \in Own
    <3>1. CASE k \in DOMAIN files
      <4>1. files'[k] = files[k] BY <1>1, <2>1, <3>1
      <4>2. QED BY <1>1, <2>3, <3>1, <4>1 DEF TempsOwn
    <3>2. CASE k \notin DOMAIN files
      <4>1. files'[k] = [name |-> f, temp |-> temp] BY <1>1, <2>1, <2>3, <3>2
      <4>2. QED BY <2>3, <4>1
    <3>3. QED BY <3>1, <3>2
  <2>4. QED BY <1>1, <2>2, <2>3 DEF TempsOwn
<1>4. QED BY <1>2, <1>3

\* assemble(), for a source just compiled and for one given.
LEMMA AssembleStep ==
    ASSUME IInv, NEW delete \in BOOLEAN, i <= Len(args), ~IsObject(Arg), ~O.testonly,
           pc = IF delete THEN "assemble" ELSE "next", assemble(delete)
    PROVE  IInv'
<1>1. /\ TypeOK /\ KeepsUsersFiles /\ UNCHANGED start /\ O' = O /\ UNCHANGED errors
      /\ New \subseteq Before \cup (IF delete THEN {SFile} ELSE {})
      /\ delete => (SFile \in Own \/ had[SFile] = Absent)
  BY DEF IInv, Left, Opened, assemble, cmderror, Exit, GoTo, start
<1>2. /\ Target \in Names /\ Target \in Own /\ Target \in Before \cup {OFile, O.outfile}
      /\ SFile \in Names
  BY <1>1, SourceOwns, ArgTyped DEF Target
<1>3. files' \in Seq([name : Names, temp : BOOLEAN]) /\ TempsOwn'
  <2>1. CASE files' = files BY <1>1, <2>1, NextFiles DEF IInv, TypeOK, TempsOwn
  <2>2. CASE files' = collect(Target, TRUE) BY <1>1, <1>2, <2>2, Collected
  <2>3. QED BY <2>1, <2>2 DEF assemble
<1>4. Tested' BY <1>1 DEF Tested
<1>5. CASE pc' = "ended"
  <2>1. /\ i' = i /\ fs' \in {fs, Without({Target})}
        /\ said' \in {"too many input files", "assembler command too long",
                      "assembler invocation failed"}
    BY <1>5 DEF assemble, cmderror, Exit, GoTo
  <2>2. DOMAIN fs' = Names /\ Kept(fs') /\ Extra(fs') \subseteq New
    <3>1. CASE fs' = fs BY <1>1, <3>1 DEF TypeOK, Kept, Extra, KeepsUsersFiles, New
    <3>2. CASE fs' = Without({Target}) BY <1>1, <1>2, <3>2, KeptWithout, WithoutFiles
    <3>3. QED BY <2>1, <3>1, <3>2
  <2>3. KeepsUsersFiles' /\ New' \subseteq New BY <1>1, <2>2, NextFiles
  <2>4. TypeOK' BY <1>1, <1>3, <1>5, <2>1, <2>2, Stay DEF TypeOK, start
  <2>5. Opened' /\ Left' BY <1>5 DEF Opened, Left
  <2>6. StoppedRight' BY <2>1 DEF StoppedRight
  <2>7. FailureRight'
    <3>1. ASSUME ~O.asmonly, NEW n \in New' \ {O.outfile, Output}, filetype(n) = "s"
          PROVE  n = SFile
      BY <1>1, <2>3, <3>1, BeforeObjects
    <3>2. QED BY <1>1, <2>1, <3>1, Stay, NextFiles DEF FailureRight, filetype
  <2>8. QED BY <1>3, <1>4, <2>3, <2>4, <2>5, <2>6, <2>7 DEF IInv, Settled
<1>6. CASE pc' # "ended"
  <2>1. /\ pc' = "next" /\ said' = said /\ i' = i + 1
        /\ \E done \in Assembled :
              fs' = IF delete THEN [done EXCEPT ![SFile] = Absent] ELSE done
    BY <1>6 DEF assemble, cmderror, Exit, GoTo
  <2>2. PICK c : fs' = IF delete THEN [With(Target, c) EXCEPT ![SFile] = Absent]
                       ELSE With(Target, c)
    BY <2>1 DEF Assembled
  <2>3. Kept(With(Target, c)) /\ Extra(With(Target, c)) \subseteq New \cup {Target}
        /\ DOMAIN With(Target, c) = Names
    BY <1>1, <1>2, KeptWith, WithFile
  <2>4. DOMAIN fs' = Names BY <2>2, <2>3
  <2>5. Kept(fs') BY <1>1, <2>2, <2>3 DEF Kept
  <2>6. Extra(fs') \subseteq Before \cup {Target}
    <3>1. CASE delete
      <4>1. fs'[SFile] = Absent /\ \A n \in Names \ {SFile} : fs'[n] = With(Target, c)[n]
        BY <1>2, <2>2, <2>3, <3>1
      <4>2. Extra(fs') \subseteq (New \cup {Target}) \ {SFile} BY <2>3, <4>1 DEF Extra
      <4>3. QED BY <1>1, <4>2
    <3>2. CASE ~delete BY <1>1, <2>2, <2>3, <3>2
    <3>3. QED BY <3>1, <3>2
  <2>7. /\ i' \in 1 .. Len(args') + 1 /\ Before \subseteq Before' /\ OFile \in Before'
    BY <1>1, <2>1, Advance
  <2>8. O.outfile \in Before' BY <1>1 DEF Before
  <2>9. KeepsUsersFiles' /\ New' \subseteq Before'
    BY <1>1, <1>2, <2>5, <2>6, <2>7, <2>8, NextFiles
  <2>10. TypeOK' BY <1>1, <1>3, <2>1, <2>4, <2>7 DEF TypeOK, start
  <2>11. Opened' /\ Settled' BY <2>1 DEF Opened, Settled
  <2>12. Left'
    <3>1. said = "" BY DEF IInv, Left
    <3>2. QED BY <2>1, <2>9, <3>1 DEF Left
  <2>13. QED BY <1>3, <1>4, <2>9, <2>10, <2>11, <2>12 DEF IInv
<1>7. QED BY <1>5, <1>6

LEMMA AssembleCompiledStep == ASSUME IInv, AssembleCompiled PROVE IInv'
<1>1. pc = "assemble" /\ assemble(TRUE) BY DEF AssembleCompiled
<1>2. i <= Len(args) /\ ~IsObject(Arg) /\ ~O.testonly
  BY <1>1, CompiledIsSource, CommandTyped DEF IInv, TypeOK, Tested
<1>3. QED BY <1>1, <1>2, AssembleStep

LEMMA AssembleSourceStep == ASSUME IInv, AssembleSource PROVE IInv'
<1>1. pc = "next" /\ i <= Len(args) /\ ~IsObject(Arg) /\ ~O.testonly /\ assemble(FALSE)
  BY DEF AssembleSource, AtFile, IsObject
<1>2. QED BY <1>1, AssembleStep

LEMMA TakeObjectStep == ASSUME IInv, TakeObject PROVE IInv'
<1>1. /\ pc = "next" /\ i <= Len(args) /\ UNCHANGED <<start, fs, errors>>
  BY DEF TakeObject, cmderror, Exit, GoTo
<1>2. CASE pc' = "ended"
  <2>1. i' = i /\ files' = files /\ said' \notin {"compilation stopped", "fatal error, stop"}
    BY <1>2 DEF TakeObject, cmderror, Exit, GoTo
  <2>2. QED BY <1>1, <1>2, <2>1, GivesUp
<1>3. CASE pc' # "ended"
  <2>1. pc' = "next" /\ said' = said /\ i' = i + 1 /\ files' = collect(Arg, FALSE)
    BY <1>3 DEF TakeObject, cmderror, Exit, GoTo
  <2>2. TypeOK /\ New \subseteq Before /\ said = "" BY <1>1 DEF IInv, Left
  <2>3. files' \in Seq([name : Names, temp : BOOLEAN]) /\ TempsOwn'
    BY <1>1, <2>1, <2>2, ArgTyped, Collected
  <2>4. i' \in 1 .. Len(args') + 1 /\ Before \subseteq Before' BY <1>1, <2>1, <2>2, Advance
  <2>5. TypeOK' BY <1>1, <2>1, <2>2, <2>3, <2>4 DEF TypeOK, start
  <2>6. KeepsUsersFiles' /\ New' = New
    BY <1>1, NextFiles DEF IInv, KeepsUsersFiles, New, start
  <2>7. Opened' /\ Settled' BY <2>1 DEF Opened, Settled
  <2>8. Tested' BY <1>1, <2>1 DEF IInv, Tested, start
  <2>9. Left' BY <2>1, <2>2, <2>4, <2>6 DEF Left
  <2>10. QED BY <2>3, <2>5, <2>6, <2>7, <2>8, <2>9 DEF IInv
<1>4. QED BY <1>2, <1>3

LEMMA LinkStep == ASSUME IInv, Link PROVE IInv'
<1>1. /\ pc = "next" /\ pc' = "ended" /\ UNCHANGED <<start, i, files, errors>>
      /\ ~O.componly /\ ~O.testonly
      /\ said' \in {"linker command too long", "linker invocation failed", "ok"}
  BY DEF Link, AtEnd, cmderror, Exit
<1>2. TypeOK /\ KeepsUsersFiles /\ New \subseteq Before /\ TempsOwn BY <1>1 DEF IInv, Left
<1>3. Output \in Own /\ Output \in Names BY <1>1, <1>2, CommandTyped DEF Own
<1>4. Temporary \subseteq Own BY <1>2 DEF Temporary, TempsOwn
<1>5. DOMAIN fs' = Names /\ Kept(fs') /\ Extra(fs') \subseteq New \cup {Output}
  <2>1. CASE fs' = fs BY <1>2, <2>1 DEF TypeOK, Kept, Extra, KeepsUsersFiles, New
  <2>2. CASE fs' = Without({Output}) BY <1>2, <1>3, <2>2, KeptWithout, WithoutFiles
  <2>3. CASE fs' = With(Output, Unfinished) BY <1>2, <1>3, <2>3, KeptWith, WithFile
  <2>4. CASE \E done \in Built : fs' = [n \in Names |-> IF n \in Temporary THEN Absent ELSE done[n]]
    <3>1. PICK c : fs' = [n \in Names |-> IF n \in Temporary THEN Absent
                                        ELSE With(Output, c)[n]]
      BY <2>4 DEF Built
    <3>2. Kept(With(Output, c)) /\ Extra(With(Output, c)) \subseteq New \cup {Output}
      BY <1>2, <1>3, KeptWith
    <3>3. QED BY <1>4, <3>1, <3>2 DEF Kept, Extra
  <2>5. QED BY <2>1, <2>2, <2>3, <2>4 DEF Link
<1>6. KeepsUsersFiles' /\ New' \subseteq Before \cup {Output} BY <1>1, <1>2, <1>5, NextFiles
<1>7. TypeOK' BY <1>1, <1>2, <1>5 DEF TypeOK, start
<1>8. Opened' /\ Left' BY <1>1 DEF Opened, Left
<1>9. TempsOwn' BY <1>1, <1>2, NextFiles DEF TempsOwn
<1>10. Tested' BY <1>1 DEF Tested, start
<1>11. StoppedRight' BY <1>1 DEF StoppedRight
<1>12. FailureRight' BY <1>1, <1>2, <1>6, EndsClean
<1>13. QED BY <1>6, <1>7, <1>8, <1>9, <1>10, <1>11, <1>12 DEF IInv, Settled

LEMMA ReturnStep == ASSUME IInv, Return PROVE IInv'
<1>1. /\ pc = "next" /\ pc' = "ended" /\ UNCHANGED <<start, i, fs, errors, files>> /\ said' = "ok"
  BY DEF Return, AtEnd, Exit
<1>2. QED BY <1>1, GivesUp

LEMMA StutterStep == ASSUME IInv, UNCHANGED vars PROVE IInv'
<1>1. UNCHANGED <<start, i, fs, files, errors, pc, said>> BY DEF vars, start
<1>2. TypeOK' BY <1>1, Stay DEF IInv, TypeOK, start, filetype
<1>3. Opened' /\ TempsOwn' BY <1>1, Stay, NextFiles DEF IInv, Opened, TempsOwn, start
<1>4. KeepsUsersFiles' /\ New' = New
  BY <1>1, NextFiles DEF IInv, KeepsUsersFiles, New, start
<1>5. Tested' BY <1>1 DEF IInv, Tested, start
<1>6. Left' BY <1>1, <1>4, Stay DEF IInv, Left, exists, start
<1>7. Settled'
  BY <1>1, <1>4, Stay, NextFiles DEF IInv, Settled, StoppedRight, FailureRight, exists,
     start, filetype
<1>8. QED BY <1>2, <1>3, <1>4, <1>5, <1>6, <1>7 DEF IInv
-----------------------------------------------------------------------------
LEMMA NextIInv == IInv /\ [Next]_vars => IInv'
<1>1. SUFFICES ASSUME IInv, [Next]_vars PROVE IInv' OBVIOUS
<1>2. CASE OpenSource BY <1>1, <1>2, OpenSourceStep
<1>3. CASE FirstError BY <1>1, <1>3, FirstErrorStep
<1>4. CASE Fatal BY <1>1, <1>4, FatalStep
<1>4d. CASE FatalDefinition BY <1>1, <1>4d, FatalDefinitionStep
<1>5. CASE EndOfSource BY <1>1, <1>5, EndOfSourceStep
<1>6. CASE AssembleCompiled BY <1>1, <1>6, AssembleCompiledStep
<1>7. CASE AssembleSource BY <1>1, <1>7, AssembleSourceStep
<1>8. CASE TakeObject BY <1>1, <1>8, TakeObjectStep
<1>9. CASE Link BY <1>1, <1>9, LinkStep
<1>10. CASE Return BY <1>1, <1>10, ReturnStep
<1>11. CASE TestAssembly \/ Ended \/ UNCHANGED vars
  BY <1>1, <1>11, StutterStep DEF TestAssembly, Ended
<1>12. QED
  BY <1>1, <1>2, <1>3, <1>4, <1>4d, <1>5, <1>6, <1>7, <1>8, <1>9, <1>10, <1>11 DEF Next

\* The invariant holds of every run of the driver (main.c 325-345).
LEMMA Invariant == Spec => []IInv
<1>1. Init => IInv BY InitIInv
<1>2. QED BY <1>1, NextIInv, PTL DEF Spec

\* The driver never touches a file of the user but its output and the objects of
\* its sources, at any moment and however the compiler, the assembler and the
\* linker fail; with -t it touches none (main.c 19-24, 88-94, 138-141, 182-187).
THEOREM UsersFilesKept == Spec => []KeepsUsersFiles
<1>1. IInv => KeepsUsersFiles BY DEF IInv
<1>2. QED BY <1>1, Invariant, PTL

\* A source that does not compile leaves no assembly file, which would stop the
\* next run, and no object, not even an old one; and what is left behind by any
\* other end is at most the assembly file the assembler was to read, or that of a
\* source whose -D macro is too long (main.c 19-24, 138-141, decl.c 646-664).
THEOREM NothingHalfDone == Spec => [](pc = "ended" => StoppedRight /\ FailureRight)
<1>1. IInv => (pc = "ended" => StoppedRight /\ FailureRight) BY DEF IInv, Settled
<1>2. QED BY <1>1, Invariant, PTL
-----------------------------------------------------------------------------
(***************************************************************************)
(* What a run that succeeds leaves.  SuccessInv says it of a run that is   *)
(* under way: what is there and was not is the product of a source behind  *)
(* i, or the assembly file of the one in hand (Accounted); the linker will *)
(* get one file for each argument, in their order (InOrder); and as long   *)
(* as the names are different things, what the sources are read from is as *)
(* it was and what was made is what it should be (Contents), except behind *)
(* the errors of a source, where the run cannot succeed any more.          *)
(***************************************************************************)

SOf(k) == newfilename(args[k], "s")
OOf(k) == newfilename(args[k], "o")
ToCode == {k \in Sources : O.asmonly /\ filetype(args[k]) = "c"}
ToObject == Sources \ ToCode

\* With -c and -o every object goes to one file.
OneObject == O.componly /\ O.outfile # NoName
ObjOf(k) == IF OneObject THEN O.outfile ELSE OOf(k)

\* The object of k is the one in its file, when main() is at j.
Stays(k, j) == k < j /\ (OneObject => \A l \in ToObject : l < j => l <= k)

Made(j) == {SOf(k) : k \in {l \in ToCode : l < j}} \cup {ObjOf(k) : k \in {l \in ToObject : l < j}}
Given(k) == IF k \in Sources THEN OOf(k) ELSE args[k]

InputsKept(g) == \A k \in DOMAIN args : g[args[k]] = had[args[k]]
CodeMade(g, j) == \A k \in ToCode : k < j => g[SOf(k)] = Code(had[args[k]])
ObjectsMade(g, j) == \A k \in ToObject : Stays(k, j) => g[ObjOf(k)] = ObjectOf(args[k])
LastThere(j) == (\E k \in ToObject : k < j) => \E k \in ToObject : Stays(k, j)

Accounted == New \subseteq Made(i) \cup (IF pc = "next" THEN {} ELSE {SFile})
InOrder ==
    ~O.componly =>
        /\ Len(files) = i - 1
        /\ \A k \in DOMAIN files : files[k] = [name |-> Given(k), temp |-> k \in Sources]
Contents ==
    Distinct =>
        /\ InputsKept(fs)
        /\ ~(pc = "program" /\ errors) => CodeMade(fs, i) /\ ObjectsMade(fs, i)
        /\ pc = "assemble" => fs[SFile] = Code(had[Arg])

UnderWay == Accounted /\ InOrder /\ Contents /\ LastThere(i)
SuccessInv ==
    /\ pc = "ended" => SuccessRight
    /\ pc # "ended" /\ ~O.testonly => UnderWay
-----------------------------------------------------------------------------
(* The names of what is made. *)

LEMMA SourceNames ==
    ASSUME TypeOK, NEW k \in Sources
    PROVE  /\ args[k] \in Names /\ k \in DOMAIN args
           /\ SOf(k) \in Names /\ SOf(k).sfx = "s"
           /\ OOf(k) \in Names /\ OOf(k).sfx = "o"
           /\ args[k].sfx \in {"c", "s"}
           /\ OOf(k) \in Product(k)
           /\ args[k].sfx = "c" => SOf(k) \in Product(k)
           /\ args[k].sfx = "s" => SOf(k) = args[k]
<1>1. k \in DOMAIN args /\ args[k] \in Names BY CommandTyped DEF Sources
<1>2. args[k].sfx \in {"c", "s"} BY DEF Sources, IsObject, filetype
<1>3. SOf(k) \in Names /\ SOf(k).sfx = "s" /\ OOf(k) \in Names /\ OOf(k).sfx = "o"
  BY <1>1, NewName DEF SOf, OOf
<1>4. OOf(k) # args[k] /\ (args[k].sfx = "c" => SOf(k) # args[k])
  BY <1>2, <1>3
<1>5. args[k].sfx = "s" => SOf(k) = args[k]
  BY <1>1 DEF SOf, newfilename, Names
<1>6. QED BY <1>1, <1>2, <1>3, <1>4, <1>5 DEF Product, SOf, OOf

LEMMA SourceKinds ==
    ASSUME TypeOK
    PROVE  /\ ToCode \subseteq Sources /\ ToObject \subseteq Sources
           /\ \A k \in Sources : k \in ToCode \/ k \in ToObject
           /\ \A k \in ToCode : O.asmonly /\ args[k].sfx = "c"
           /\ \A k \in ToObject : O.asmonly => args[k].sfx = "s"
           /\ ToObject \cap ToCode = {}
BY SourceNames DEF ToCode, ToObject, filetype

LEMMA SameName ==
    ASSUME NEW B, NEW S, NEW a \in [base : B, sfx : S], NEW b \in [base : B, sfx : S],
           a.base = b.base, a.sfx = b.sfx
    PROVE  a = b
OBVIOUS

\* Two sources with one object are one file.
LEMMA OneSource ==
    ASSUME TypeOK, Distinct, NEW k \in Sources, NEW l \in Sources, OOf(k) = OOf(l)
    PROVE  args[k] = args[l]
<1>1. /\ args[k] \in Names /\ args[l] \in Names
      /\ args[k].sfx \in {"c", "s"} /\ args[l].sfx \in {"c", "s"}
  BY SourceNames
<1>2. args[k].base = args[l].base BY <1>1 DEF OOf, newfilename, Names
<1>3. ASSUME NEW x \in Sources, NEW y \in Sources, args[x].base = args[y].base,
             args[x].sfx = "c", args[y].sfx = "s"
      PROVE  FALSE
  <2>1. args[x] \in Names /\ args[y] \in Names BY SourceNames
  <2>2. SOf(x) = args[y] BY <1>3, <2>1 DEF SOf, newfilename, Names
  <2>3. args[y] \in Product(x) /\ y \in DOMAIN args BY <1>3, <2>2, SourceNames
  <2>4. QED BY <2>3 DEF Distinct
<1>4. args[k].sfx = args[l].sfx BY <1>1, <1>2, <1>3
<1>5. QED BY <1>1, <1>2, <1>4, SameName DEF Names

\* No assembly file that is made is an argument, and no object an argument or an
\* assembly file.
LEMMA MadeApart ==
    ASSUME TypeOK, Distinct, NEW k \in Sources
    PROVE  /\ ObjOf(k) \in Names
           /\ \A l \in DOMAIN args : ObjOf(k) # args[l] /\ OOf(k) # args[l]
           /\ \A l \in Sources : ObjOf(k) # SOf(l)
           /\ args[k].sfx = "c" => \A l \in DOMAIN args : SOf(k) # args[l]
<1>1. OneObject => O.outfile = Output /\ Output \in Names
  BY CommandTyped DEF OneObject, Output
<1>2. /\ OOf(k) \in Product(k) /\ OOf(k) \in Names /\ OOf(k).sfx = "o"
      /\ args[k].sfx = "c" => SOf(k) \in Product(k)
  BY SourceNames
<1>3. \A l \in DOMAIN args : args[l] \notin Product(k) /\ Output # args[l]
  BY DEF Distinct
<1>4. \A l \in Sources : Output # SOf(l) /\ SOf(l).sfx = "s"
  <2>1. SUFFICES ASSUME NEW l \in Sources PROVE Output # SOf(l) /\ SOf(l).sfx = "s"
    OBVIOUS
  <2>2. /\ args[l].sfx \in {"c", "s"} /\ l \in DOMAIN args /\ SOf(l).sfx = "s"
        /\ args[l].sfx = "c" => SOf(l) \in Product(l)
        /\ args[l].sfx = "s" => SOf(l) = args[l]
    BY SourceNames
  <2>3. Output \notin Product(l) /\ Output # args[l] BY <2>2 DEF Distinct
  <2>4. QED BY <2>2, <2>3
<1>5. ObjOf(k) \in Names BY <1>1, <1>2 DEF ObjOf
<1>6. \A l \in DOMAIN args : ObjOf(k) # args[l] /\ OOf(k) # args[l]
  BY <1>1, <1>2, <1>3 DEF ObjOf
<1>7. \A l \in Sources : ObjOf(k) # SOf(l) BY <1>1, <1>2, <1>4 DEF ObjOf
<1>8. QED BY <1>2, <1>3, <1>5, <1>6, <1>7

LEMMA AtSource ==
    ASSUME TypeOK, i <= Len(args), ~IsObject(Arg)
    PROVE  /\ i \in Sources /\ Arg = args[i] /\ SFile = SOf(i) /\ OFile = OOf(i)
           /\ Target = ObjOf(i)
<1>1. i \in Sources BY ArgTyped DEF Sources, Arg
<1>2. QED BY <1>1 DEF Arg, SFile, OFile, SOf, OOf, Target, ObjOf, OneObject

\* A run goes on.
LEMMA Goes ==
    ASSUME UNCHANGED start, pc' # "ended",
           Extra(fs') \subseteq Made(i') \cup (IF pc' = "next" THEN {} ELSE {SFile'}),
           ~O.componly =>
               /\ Len(files') = i' - 1
               /\ \A k \in DOMAIN files' :
                     files'[k] = [name |-> Given(k), temp |-> k \in Sources],
           Distinct =>
               /\ InputsKept(fs')
               /\ ~(pc' = "program" /\ errors') => CodeMade(fs', i') /\ ObjectsMade(fs', i')
               /\ pc' = "assemble" => fs'[SFile'] = Code(had[Arg']),
           LastThere(i')
    PROVE  SuccessInv'
<1>1. args' = args /\ had' = had /\ O' = O BY DEF start
<1>2. /\ Sources' = Sources /\ ToCode' = ToCode /\ ToObject' = ToObject
      /\ OneObject' = OneObject /\ Distinct' = Distinct
  BY <1>1 DEF Sources, ToCode, ToObject, OneObject, Distinct, IsObject, Product, Output
<1>3. Made(i)' = Made(i') BY <1>1, <1>2 DEF Made, SOf, ObjOf, OOf
<1>4. Accounted' BY <1>1, <1>3, NextFiles DEF Accounted
<1>5. InOrder' BY <1>1, <1>2 DEF InOrder, Given, OOf
<1>6. LastThere(i)' BY <1>1, <1>2 DEF LastThere, Stays
<1>7. /\ InputsKept(fs)' <=> InputsKept(fs')
      /\ CodeMade(fs, i)' <=> CodeMade(fs', i')
      /\ ObjectsMade(fs, i)' <=> ObjectsMade(fs', i')
      /\ Code(had[Arg])' = Code(had[Arg'])
  BY <1>1, <1>2 DEF InputsKept, CodeMade, ObjectsMade, SOf, ObjOf, OOf, Stays, ObjectOf, Code,
     Obj, Arg, filetype
<1>8. Contents' BY <1>2, <1>7 DEF Contents
<1>9. QED BY <1>4, <1>5, <1>6, <1>8 DEF SuccessInv, UnderWay

\* What a run was asked for, in the terms of the invariant.
LEMMA Asked ==
    ASSUME TypeOK
    PROVE  /\ O.testonly => Products = {}
           /\ ~O.testonly /\ ~O.componly =>
                 Products = {<<Output, Exe([k \in DOMAIN args |-> ObjectOf(args[k])])>>}
           /\ ~O.testonly /\ O.componly =>
                 Products = {<<SOf(k), Code(had[args[k]])>> : k \in ToCode}
                     \cup {<<ObjOf(k), ObjectOf(args[k])>> : k \in {j \in ToObject :
                              OneObject => \A l \in ToObject : l <= j}}
<1>1. CASE O.testonly BY <1>1 DEF Products
<1>2. CASE ~O.testonly /\ ~O.componly BY <1>2 DEF Products
<1>3. CASE ~O.testonly /\ O.componly
  <2>1. Products = {<<SOf(k), Code(had[args[k]])>> : k \in ToCode}
                   \cup (IF O.outfile = NoName
                         THEN {<<OOf(k), ObjectOf(args[k])>> : k \in ToObject}
                         ELSE {<<O.outfile, ObjectOf(args[k])>> :
                                  k \in {j \in ToObject : \A l \in ToObject : l <= j}})
    BY <1>3 DEF Products, ToObject, ToCode, SOf, OOf
  <2>2. CASE O.outfile = NoName BY <1>3, <2>1, <2>2 DEF OneObject, ObjOf
  <2>3. CASE O.outfile # NoName BY <1>3, <2>1, <2>3 DEF OneObject, ObjOf
  <2>4. QED BY <1>3, <2>2, <2>3
<1>4. QED BY <1>1, <1>2, <1>3, CommandTyped

\* The objects made before a step that makes none are those made behind it.
LEMMA PassesObject ==
    ASSUME TypeOK, i <= Len(args), i \notin ToObject
    PROVE  /\ \A k \in ToObject : Stays(k, i + 1) <=> Stays(k, i)
           /\ \A k \in ToObject : k < i + 1 <=> k < i
           /\ LastThere(i + 1) <=> LastThere(i)
<1>1. ToObject \subseteq Nat BY CommandTyped, SourceKinds DEF Sources
<1>2. i \in Nat BY CommandTyped
<1>3. \A k \in ToObject : k < i + 1 <=> k < i BY <1>1, <1>2
<1>4. \A k \in ToObject : Stays(k, i + 1) <=> Stays(k, i) BY <1>3 DEF Stays
<1>5. QED BY <1>3, <1>4 DEF LastThere

\* Behind a step that makes one, it is the last.
LEMMA MakesObject ==
    ASSUME TypeOK, i <= Len(args), i \in ToObject
    PROVE  /\ Stays(i, i + 1) /\ LastThere(i + 1)
           /\ \A k \in ToObject : k < i + 1 <=> k < i \/ k = i
           /\ OneObject => \A k \in ToObject : Stays(k, i + 1) => k = i
<1>1. ToObject \subseteq Nat BY CommandTyped, SourceKinds DEF Sources
<1>2. i \in Nat BY CommandTyped
<1>3. \A k \in ToObject : k < i + 1 <=> k < i \/ k = i BY <1>1, <1>2
<1>4. \A k \in ToObject : k < i + 1 => k <= i BY <1>1, <1>2
<1>5. Stays(i, i + 1) BY <1>2, <1>4 DEF Stays
<1>6. ASSUME OneObject, NEW k \in ToObject, Stays(k, i + 1) PROVE k = i
  <2>1. i <= k /\ k <= i BY <1>2, <1>4, <1>6 DEF Stays
  <2>2. QED BY <1>1, <1>2, <2>1
<1>7. QED BY <1>3, <1>5, <1>6 DEF LastThere

\* The same in the code that is made.
LEMMA PassesCode ==
    ASSUME TypeOK, i <= Len(args)
    PROVE  /\ \A k \in ToCode : k < i + 1 <=> k < i \/ k = i
           /\ i \notin ToCode => \A k \in ToCode : k < i + 1 <=> k < i
<1>1. ToCode \subseteq Nat BY CommandTyped, SourceKinds DEF Sources
<1>2. i \in Nat BY CommandTyped
<1>3. QED BY <1>1, <1>2
-----------------------------------------------------------------------------
(* The steps, once more. *)

LEMMA Fails == ASSUME pc' = "ended", said' # "ok" PROVE SuccessInv'
BY DEF SuccessInv, SuccessRight

LEMMA OnlyTests == ASSUME O.testonly, UNCHANGED start, pc' # "ended" PROVE SuccessInv'
BY DEF SuccessInv, start

\* A step that leaves the files, and does not go on to another argument.
LEMMA MakesNothing ==
    ASSUME UnderWay, UNCHANGED start, UNCHANGED <<i, files>>
    PROVE  /\ ~O.componly =>
                /\ Len(files') = i' - 1
                /\ \A k \in DOMAIN files' :
                      files'[k] = [name |-> Given(k), temp |-> k \in Sources]
           /\ LastThere(i') /\ Made(i') = Made(i)
BY DEF UnderWay, InOrder

LEMMA OpenSourceMakes == ASSUME IInv, SuccessInv, OpenSource PROVE SuccessInv'
<1>1. /\ pc = "next" /\ i <= Len(args) /\ filetype(Arg) = "c" /\ UNCHANGED <<start, i, files>>
  BY DEF OpenSource, AtFile, cmderror, Exit, GoTo
<1>2. CASE pc' = "ended"
  <2>1. said' # "ok" BY <1>2 DEF OpenSource, cmderror, Exit, GoTo
  <2>2. QED BY <1>2, <2>1, Fails
<1>3. CASE pc' # "ended" /\ O.testonly BY <1>1, <1>3, OnlyTests
<1>4. CASE pc' # "ended" /\ ~O.testonly
  <2>1. /\ pc' = "program" /\ fs' = With(SFile, Unfinished) /\ fs[SFile] = Absent
    BY <1>4 DEF OpenSource, cmderror, Exit, GoTo, exists
  <2>2. TypeOK /\ KeepsUsersFiles /\ UnderWay BY <1>1, <1>4 DEF IInv, SuccessInv
  <2>3. /\ i \in Sources /\ SFile = SOf(i) /\ Arg = args[i] /\ args[i].sfx = "c"
        /\ SFile \in Names /\ SFile' = SFile
    BY <1>1, <2>2, AtSource, ArgTyped, CompiledIsSource, Stay DEF filetype
  <2>4. Extra(fs') \subseteq New \cup {SFile}
    BY <1>4, <2>1, <2>2, KeptWith, <2>3 DEF KeepsUsersFiles, Own, Extra, New, With
  <2>5. Extra(fs') \subseteq Made(i') \cup {SFile'}
    BY <1>1, <2>2, <2>3, <2>4 DEF UnderWay, Accounted
  <2>6. ASSUME Distinct
        PROVE  InputsKept(fs') /\ CodeMade(fs', i') /\ ObjectsMade(fs', i')
    <3>1. /\ InputsKept(fs) /\ CodeMade(fs, i) /\ ObjectsMade(fs, i) /\ i' = i
      BY <1>1, <2>2, <2>6 DEF UnderWay, Contents
    <3>2. \A n \in Names \ {SFile} : fs'[n] = fs[n] BY <2>1, <2>2, WithFile
    <3>3. InputsKept(fs')
      <4>1. \A k \in DOMAIN args : args[k] \in Names \ {SFile}
        BY <2>2, <2>3, <2>6, MadeApart, CommandTyped
      <4>2. QED BY <3>1, <3>2, <4>1 DEF InputsKept
    <3>4. CodeMade(fs', i')
      <4>1. ASSUME NEW k \in ToCode, k < i PROVE fs'[SOf(k)] = Code(had[args[k]])
        <5>1. fs[SOf(k)] = Code(had[args[k]]) BY <3>1, <4>1 DEF CodeMade
        <5>2. SOf(k) # SFile BY <2>1, <5>1 DEF Code, Absent
        <5>3. SOf(k) \in Names BY <2>2, SourceKinds, SourceNames
        <5>4. QED BY <3>2, <5>1, <5>2, <5>3
      <4>2. QED BY <3>1, <4>1 DEF CodeMade
    <3>5. ObjectsMade(fs', i')
      <4>1. ASSUME NEW k \in ToObject PROVE ObjOf(k) \in Names \ {SFile}
        BY <2>2, <2>3, <2>6, SourceKinds, MadeApart
      <4>2. QED BY <3>1, <3>2, <4>1 DEF ObjectsMade
    <3>6. QED BY <3>3, <3>4, <3>5
  <2>7. QED BY <1>1, <1>4, <2>1, <2>2, <2>5, <2>6, MakesNothing, Goes
<1>5. QED BY <1>2, <1>3, <1>4

LEMMA FirstErrorMakes == ASSUME IInv, SuccessInv, FirstError PROVE SuccessInv'
<1>1. /\ pc = "program" /\ pc' = "program" /\ UNCHANGED <<start, i, files>>
      /\ errors' = TRUE /\ fs' = Cleanup
  BY DEF FirstError, GoTo
<1>2. CASE O.testonly BY <1>1, <1>2, OnlyTests
<1>3. CASE ~O.testonly
  <2>1. /\ TypeOK /\ KeepsUsersFiles /\ UnderWay /\ i <= Len(args) /\ filetype(Arg) = "c"
    BY <1>1, <1>3 DEF IInv, SuccessInv, TypeOK
  <2>2. /\ i \in Sources /\ SFile = SOf(i) /\ OFile = OOf(i) /\ args[i].sfx = "c"
        /\ SFile' = SFile
    BY <1>1, <2>1, AtSource, CompiledIsSource, Stay DEF filetype
  <2>3. fs' = Without({SFile, OFile}) BY <1>1, <1>3 DEF Cleanup
  <2>4. Extra(fs') \subseteq New BY <2>1, <2>3, WithoutFiles DEF Extra, New
  <2>5. Extra(fs') \subseteq Made(i') \cup {SFile'}
    BY <1>1, <2>1, <2>2, <2>4 DEF UnderWay, Accounted
  <2>6. ASSUME Distinct PROVE InputsKept(fs')
    <3>1. \A k \in DOMAIN args : args[k] \in Names \ {SFile, OFile}
      BY <2>1, <2>2, <2>6, MadeApart, CommandTyped
    <3>2. InputsKept(fs) BY <2>1, <2>6 DEF UnderWay, Contents
    <3>3. QED BY <2>1, <2>3, <3>1, <3>2, WithoutFiles DEF InputsKept
  <2>7. QED BY <1>1, <2>1, <2>5, <2>6, MakesNothing, Goes
<1>4. QED BY <1>2, <1>3

LEMMA EndOfSourceMakes == ASSUME IInv, SuccessInv, EndOfSource PROVE SuccessInv'
<1>1. /\ pc = "program" /\ UNCHANGED <<start, files, errors>>
      /\ fs' = IF O.testonly \/ errors THEN fs ELSE With(SFile, Code(fs[Arg]))
  BY DEF EndOfSource, cmderror, Exit, GoTo
<1>2. CASE O.testonly
  <2>1. pc' # "ended" BY <1>2 DEF EndOfSource, cmderror, Exit, GoTo
  <2>2. QED BY <1>1, <1>2, <2>1, OnlyTests
<1>3. CASE errors /\ ~O.testonly
  <2>1. pc' = "ended" /\ said' # "ok" BY <1>3 DEF EndOfSource, cmderror, Exit, GoTo
  <2>2. QED BY <2>1, Fails
<1>4. CASE ~errors /\ ~O.testonly
  <2>1. /\ TypeOK /\ KeepsUsersFiles /\ UnderWay /\ i <= Len(args) /\ filetype(Arg) = "c"
        /\ SFile \in Own \/ had[SFile] = Absent
    BY <1>1, <1>4 DEF IInv, SuccessInv, TypeOK, Opened
  <2>2. /\ i \in Sources /\ SFile = SOf(i) /\ Arg = args[i] /\ args[i].sfx = "c"
        /\ SFile \in Names /\ i \in Nat
    BY <1>1, <2>1, AtSource, ArgTyped, CompiledIsSource, CommandTyped DEF filetype
  <2>3. fs' = With(SFile, Code(fs[Arg])) BY <1>1, <1>4
  <2>4. Extra(fs') \subseteq Made(i) \cup {SFile}
    BY <2>1, <2>3, KeptWith DEF UnderWay, Accounted
  <2>5. ASSUME Distinct
        PROVE  /\ InputsKept(fs') /\ ObjectsMade(fs', i)
               /\ fs'[SFile] = Code(had[Arg])
               /\ \A k \in ToCode : k < i \/ k = i => fs'[SOf(k)] = Code(had[args[k]])
    <3>1. InputsKept(fs) /\ CodeMade(fs, i) /\ ObjectsMade(fs, i)
      BY <1>1, <1>4, <2>1, <2>5 DEF UnderWay, Contents
    <3>2. /\ \A n \in Names \ {SFile} : fs'[n] = fs[n]
          /\ fs'[SFile] = Code(fs[Arg])
      BY <2>1, <2>2, <2>3, WithFile
    <3>3. InputsKept(fs')
      <4>1. \A k \in DOMAIN args : args[k] \in Names \ {SFile}
        BY <2>1, <2>2, <2>5, MadeApart, CommandTyped
      <4>2. QED BY <3>1, <3>2, <4>1 DEF InputsKept
    <3>4. fs[Arg] = had[Arg] BY <2>2, <3>1, <2>1, SourceNames DEF InputsKept
    <3>5. ASSUME NEW k \in ToCode, k < i \/ k = i PROVE fs'[SOf(k)] = Code(had[args[k]])
      <4>1. CASE SOf(k) = SFile
        <5>1. /\ args[k] \in Names /\ args[i] \in Names /\ args[k].sfx = "c"
          BY <2>1, <2>2, SourceKinds, SourceNames
        <5>2. args[k].base = args[i].base
          BY <2>2, <4>1, <5>1 DEF SOf, newfilename, Names
        <5>3. args[k] = args[i] BY <2>2, <5>1, <5>2, SameName DEF Names
        <5>4. QED BY <2>2, <3>2, <3>4, <4>1, <5>3
      <4>2. CASE SOf(k) # SFile
        <5>1. SOf(k) \in Names /\ k # i BY <2>1, <2>2, <4>2, SourceKinds, SourceNames
        <5>2. fs[SOf(k)] = Code(had[args[k]]) BY <3>1, <3>5, <5>1 DEF CodeMade
        <5>3. QED BY <3>2, <4>2, <5>1, <5>2
      <4>3. QED BY <4>1, <4>2
    <3>6. ObjectsMade(fs', i)
      <4>1. ASSUME NEW k \in ToObject PROVE ObjOf(k) \in Names \ {SFile}
        BY <2>1, <2>2, <2>5, SourceKinds, MadeApart
      <4>2. QED BY <3>1, <3>2, <4>1 DEF ObjectsMade
    <3>7. QED BY <3>2, <3>3, <3>4, <3>5, <3>6
  <2>6. CASE ~O.asmonly
    <3>1. pc' = "assemble" /\ i' = i
      BY <1>4, <2>6 DEF EndOfSource, cmderror, Exit, GoTo
    <3>2. Extra(fs') \subseteq Made(i') \cup {SFile'} /\ Arg' = Arg /\ SFile' = SFile
      BY <1>1, <2>4, <3>1, Stay
    <3>3. Distinct => /\ InputsKept(fs') /\ ObjectsMade(fs', i') /\ CodeMade(fs', i')
                      /\ fs'[SFile'] = Code(had[Arg'])
      BY <2>5, <3>1, <3>2 DEF CodeMade
    <3>4. QED BY <1>1, <2>1, <3>1, <3>2, <3>3, MakesNothing, Goes
  <2>7. CASE O.asmonly
    <3>1. pc' = "next" /\ i' = i + 1
      BY <1>4, <2>7 DEF EndOfSource, cmderror, Exit, GoTo
    <3>2. i \in ToCode /\ i \notin ToObject /\ O.componly
      BY <2>1, <2>2, <2>7, CommandTyped DEF ToCode, ToObject, filetype
    <3>3. Made(i) \subseteq Made(i') /\ SFile \in Made(i')
      <4>1. \A k \in ToCode : k < i => k < i' BY <2>1, <3>1, PassesCode
      <4>2. \A k \in ToObject : k < i => k < i' BY <2>1, <3>1, <3>2, PassesObject
      <4>3. i < i' BY <2>2, <3>1
      <4>4. QED BY <2>2, <3>2, <4>1, <4>2, <4>3 DEF Made
    <3>4. Distinct => InputsKept(fs') /\ CodeMade(fs', i') /\ ObjectsMade(fs', i')
      BY <2>1, <2>5, <3>1, <3>2, PassesCode, PassesObject DEF CodeMade, ObjectsMade
    <3>5. LastThere(i') BY <2>1, <3>1, <3>2, PassesObject DEF UnderWay
    <3>6. Extra(fs') \subseteq Made(i') BY <2>4, <3>3
    <3>7. QED BY <1>1, <3>1, <3>2, <3>4, <3>5, <3>6, Goes
  <2>8. QED BY <2>6, <2>7
<1>5. QED BY <1>2, <1>3, <1>4

\* The linker gets one more file.
LEMMA Ordered ==
    ASSUME TypeOK, UnderWay, i <= Len(args), NEW temp \in BOOLEAN,
           files' = collect(Given(i), temp), temp <=> i \in Sources, i' = i + 1
    PROVE  ~O.componly =>
              /\ Len(files') = i' - 1
              /\ \A k \in DOMAIN files' :
                    files'[k] = [name |-> Given(k), temp |-> k \in Sources]
<1>1. SUFFICES ASSUME ~O.componly
               PROVE  /\ Len(files') = i' - 1
                      /\ \A k \in DOMAIN files' :
                            files'[k] = [name |-> Given(k), temp |-> k \in Sources]
  OBVIOUS
<1>2. /\ files \in FilesType /\ Len(files) = i - 1 /\ i \in Nat /\ i >= 1
      /\ files' = Append(files, [name |-> Given(i), temp |-> temp])
  BY <1>1, CommandTyped DEF TypeOK, FilesType, UnderWay, InOrder, collect
<1>3. Len(files') = i /\ DOMAIN files' = 1 .. i /\ files'[i] = [name |-> Given(i), temp |-> temp]
      /\ \A k \in 1 .. i - 1 : files'[k] = files[k]
  BY <1>2 DEF FilesType
<1>4. \A k \in 1 .. i - 1 : files[k] = [name |-> Given(k), temp |-> k \in Sources]
  <2>1. DOMAIN files = 1 .. i - 1 BY <1>2 DEF FilesType
  <2>2. QED BY <1>1, <2>1 DEF UnderWay, InOrder
<1>5. temp = (i \in Sources) OBVIOUS
<1>6. \A k \in 1 .. i : k = i \/ k \in 1 .. i - 1 BY <1>2
<1>7. QED BY <1>2, <1>3, <1>4, <1>5, <1>6

LEMMA AssembleMakes ==
    ASSUME IInv, SuccessInv, NEW delete \in BOOLEAN, i <= Len(args), ~IsObject(Arg),
           ~O.testonly, pc = IF delete THEN "assemble" ELSE "next",
           Arg.sfx = IF delete THEN "c" ELSE "s", assemble(delete)
    PROVE  SuccessInv'
<1>1. CASE pc' = "ended"
  <2>1. said' # "ok" BY <1>1 DEF assemble, cmderror, Exit, GoTo
  <2>2. QED BY <1>1, <2>1, Fails
<1>2. CASE pc' # "ended"
  <2>1. /\ pc' = "next" /\ i' = i + 1 /\ files' = collect(Target, TRUE) /\ UNCHANGED start
        /\ \E done \in Assembled :
              fs' = IF delete THEN [done EXCEPT ![SFile] = Absent] ELSE done
    BY <1>2 DEF assemble, cmderror, Exit, GoTo
  <2>2. TypeOK /\ KeepsUsersFiles /\ UnderWay /\ (delete => ~O.asmonly)
    BY DEF IInv, SuccessInv, Left
  <2>3. /\ i \in Sources /\ SFile = SOf(i) /\ Arg = args[i] /\ Target = ObjOf(i)
        /\ SFile \in Names /\ Target \in Names /\ i \in Nat /\ OFile = OOf(i)
    BY <2>2, AtSource, ArgTyped, CommandTyped, SourceOwns
  <2>4. i \in ToObject /\ i \notin ToCode
    BY <2>2, <2>3, SourceKinds
  <2>5. /\ Target # SFile
        /\ fs' = IF delete THEN [With(Target, Obj(fs[SFile])) EXCEPT ![SFile] = Absent]
                 ELSE With(Target, Obj(fs[SFile]))
    <3>1. Without({Target})[SFile] # Absent BY <2>1 DEF Assembled
    <3>2. Target # SFile /\ Without({Target})[SFile] = fs[SFile]
      BY <2>2, <2>3, <3>1, WithoutFiles
    <3>3. Assembled \subseteq {With(Target, Obj(fs[SFile]))} BY <3>2 DEF Assembled
    <3>4. QED BY <2>1, <3>2, <3>3
  <2>6. /\ fs'[Target] = Obj(fs[SFile])
        /\ \A n \in Names \ {Target, SFile} : fs'[n] = fs[n]
        /\ fs'[SFile] = IF delete THEN Absent ELSE fs[SFile]
    BY <2>2, <2>3, <2>5, WithFile
  <2>7. Made(i) \subseteq Made(i') /\ Target \in Made(i')
    <3>1. \A k \in ToCode : k < i => k < i' BY <2>1, <2>2, <2>4, PassesCode
    <3>2. \A k \in ToObject : k < i => k < i' BY <2>1, <2>2, <2>4, MakesObject
    <3>3. i < i' BY <2>1, <2>3
    <3>4. QED BY <2>3, <2>4, <3>1, <3>2, <3>3 DEF Made
  <2>8. Extra(fs') \subseteq Made(i')
    <3>1. New \subseteq Made(i) \cup (IF delete THEN {SFile} ELSE {})
      BY <2>2 DEF UnderWay, Accounted
    <3>2. Extra(fs') \subseteq (New \ (IF delete THEN {SFile} ELSE {})) \cup {Target}
      BY <2>6 DEF Extra, New
    <3>3. QED BY <2>7, <3>1, <3>2
  <2>9. ASSUME Distinct
        PROVE  InputsKept(fs') /\ CodeMade(fs', i') /\ ObjectsMade(fs', i')
    <3>1. /\ InputsKept(fs) /\ CodeMade(fs, i) /\ ObjectsMade(fs, i)
          /\ delete => fs[SFile] = Code(had[Arg])
      BY <2>2, <2>9 DEF UnderWay, Contents
    <3>2. delete => \A l \in DOMAIN args : SFile # args[l]
      BY <2>2, <2>3, <2>9, MadeApart
    <3>3. InputsKept(fs')
      <4>1. \A k \in DOMAIN args : args[k] \in Names /\ args[k] # Target
        BY <2>2, <2>3, <2>9, MadeApart, CommandTyped
      <4>2. QED BY <2>6, <3>1, <3>2, <4>1 DEF InputsKept
    <3>4. fs'[Target] = ObjectOf(args[i])
      <4>1. CASE delete
        BY <2>3, <2>6, <3>1, <4>1 DEF ObjectOf, filetype
      <4>2. CASE ~delete
        <5>1. SFile = args[i] /\ i \in DOMAIN args BY <2>2, <2>3, <4>2, SourceNames
        <5>2. fs[SFile] = had[args[i]] BY <3>1, <5>1 DEF InputsKept
        <5>3. QED BY <2>3, <2>6, <4>2, <5>2 DEF ObjectOf, filetype
      <4>3. QED BY <4>1, <4>2
    <3>5. CodeMade(fs', i')
      <4>1. ASSUME NEW k \in ToCode, k < i' PROVE fs'[SOf(k)] = Code(had[args[k]])
        <5>1. ~delete /\ k < i /\ SOf(k) \in Names /\ k \in Sources
          BY <2>1, <2>2, <2>4, <4>1, PassesCode, SourceKinds, SourceNames
        <5>2. SOf(k) # Target BY <2>2, <2>3, <2>9, <5>1, MadeApart
        <5>3. QED BY <2>6, <3>1, <5>1, <5>2 DEF CodeMade
      <4>2. QED BY <4>1 DEF CodeMade
    <3>6. ObjectsMade(fs', i')
      <4>1. ASSUME NEW k \in ToObject, Stays(k, i + 1) PROVE fs'[ObjOf(k)] = ObjectOf(args[k])
        <5>1. k \in Sources /\ ObjOf(k) \in Names /\ ObjOf(k) # SFile
          BY <2>2, <2>3, <2>9, SourceKinds, MadeApart
        <5>2. CASE ObjOf(k) = Target
          <6>1. CASE OneObject
            <7>1. k = i BY <2>2, <2>4, <4>1, <6>1, MakesObject
            <7>2. QED BY <3>4, <5>2, <7>1
          <6>2. CASE ~OneObject
            <7>1. OOf(k) = OOf(i) BY <2>3, <5>2, <6>2 DEF ObjOf
            <7>2. args[k] = args[i] BY <2>2, <2>3, <2>9, <5>1, <7>1, OneSource
            <7>3. QED BY <3>4, <5>2, <7>2
          <6>3. QED BY <6>1, <6>2
        <5>3. CASE ObjOf(k) # Target
          <6>1. ~OneObject /\ k # i BY <2>3, <5>3 DEF ObjOf
          <6>2. k < i BY <2>2, <2>4, <4>1, <6>1, MakesObject DEF Stays
          <6>3. Stays(k, i) BY <6>1, <6>2 DEF Stays
          <6>4. QED BY <2>6, <3>1, <5>1, <5>3, <6>3 DEF ObjectsMade
        <5>4. QED BY <5>2, <5>3
      <4>2. QED BY <2>1, <4>1 DEF ObjectsMade
    <3>7. QED BY <3>3, <3>5, <3>6
  <2>10. ~O.componly =>
             /\ Len(files') = i' - 1
             /\ \A k \in DOMAIN files' :
                   files'[k] = [name |-> Given(k), temp |-> k \in Sources]
    <3>1. CASE O.componly BY <3>1
    <3>2. CASE ~O.componly
      <4>1. Target = Given(i) BY <2>3, <3>2 DEF ObjOf, OneObject, Given
      <4>2. QED BY <2>1, <2>2, <2>3, <4>1, Ordered
    <3>3. QED BY <3>1, <3>2
  <2>11. LastThere(i') BY <2>1, <2>2, <2>4, MakesObject
  <2>12. QED BY <2>1, <2>8, <2>9, <2>10, <2>11, Goes
<1>3. QED BY <1>1, <1>2

LEMMA AssembleCompiledMakes ==
    ASSUME IInv, SuccessInv, AssembleCompiled
    PROVE  SuccessInv'
<1>1. pc = "assemble" /\ assemble(TRUE) BY DEF AssembleCompiled
<1>2. i <= Len(args) /\ ~IsObject(Arg) /\ ~O.testonly /\ Arg.sfx = "c"
  BY <1>1, CompiledIsSource, CommandTyped DEF IInv, TypeOK, Tested, filetype
<1>3. QED BY <1>1, <1>2, AssembleMakes

LEMMA AssembleSourceMakes ==
    ASSUME IInv, SuccessInv, AssembleSource
    PROVE  SuccessInv'
<1>1. /\ pc = "next" /\ i <= Len(args) /\ ~IsObject(Arg) /\ ~O.testonly /\ assemble(FALSE)
      /\ Arg.sfx = "s"
  BY DEF AssembleSource, AtFile, IsObject, filetype
<1>2. QED BY <1>1, AssembleMakes

LEMMA TakeObjectMakes == ASSUME IInv, SuccessInv, TakeObject PROVE SuccessInv'
<1>1. /\ pc = "next" /\ i <= Len(args) /\ IsObject(Arg) /\ UNCHANGED <<start, fs, errors>>
  BY DEF TakeObject, cmderror, Exit, GoTo
<1>2. CASE pc' = "ended"
  <2>1. said' # "ok" BY <1>2 DEF TakeObject, cmderror, Exit, GoTo
  <2>2. QED BY <1>2, <2>1, Fails
<1>3. CASE pc' # "ended" /\ O.testonly BY <1>1, <1>3, OnlyTests
<1>4. CASE pc' # "ended" /\ ~O.testonly
  <2>1. pc' = "next" /\ i' = i + 1 /\ files' = collect(Arg, FALSE)
    BY <1>4 DEF TakeObject, cmderror, Exit, GoTo
  <2>2. TypeOK /\ UnderWay BY <1>1, <1>4 DEF IInv, SuccessInv
  <2>3. i \notin Sources /\ Arg = args[i] /\ i \in Nat
    BY <1>1, <2>2, CommandTyped DEF Sources, Arg
  <2>4. i \notin ToObject /\ i \notin ToCode BY <2>2, <2>3, SourceKinds
  <2>5. /\ \A k \in ToCode : k < i + 1 <=> k < i
        /\ \A k \in ToObject : k < i + 1 <=> k < i
        /\ \A k \in ToObject : Stays(k, i + 1) <=> Stays(k, i)
    BY <1>1, <2>2, <2>4, PassesCode, PassesObject
  <2>6. Extra(fs') \subseteq Made(i')
    <3>1. Made(i) \subseteq Made(i + 1) BY <2>5 DEF Made
    <3>2. New = Extra(fs') BY <1>1 DEF New, Extra
    <3>3. QED BY <1>1, <2>1, <2>2, <3>1, <3>2 DEF UnderWay, Accounted
  <2>7. Distinct => InputsKept(fs') /\ CodeMade(fs', i') /\ ObjectsMade(fs', i')
    <3>1. SUFFICES ASSUME Distinct
                   PROVE  InputsKept(fs') /\ CodeMade(fs', i') /\ ObjectsMade(fs', i')
      OBVIOUS
    <3>2. InputsKept(fs) /\ CodeMade(fs, i) /\ ObjectsMade(fs, i)
      BY <1>1, <2>2, <3>1 DEF UnderWay, Contents
    <3>3. InputsKept(fs') BY <1>1, <3>2
    <3>4. CodeMade(fs', i') BY <1>1, <2>1, <2>5, <3>2 DEF CodeMade
    <3>5. ObjectsMade(fs', i') BY <1>1, <2>1, <2>5, <3>2 DEF ObjectsMade
    <3>6. QED BY <3>3, <3>4, <3>5
  <2>8. LastThere(i') BY <1>1, <2>1, <2>2, <2>4, PassesObject DEF UnderWay
  <2>9. ~O.componly =>
            /\ Len(files') = i' - 1
            /\ \A k \in DOMAIN files' :
                  files'[k] = [name |-> Given(k), temp |-> k \in Sources]
    <3>1. Arg = Given(i) BY <2>3 DEF Given
    <3>2. QED BY <1>1, <2>1, <2>2, <2>3, <3>1, Ordered
  <2>10. QED BY <1>1, <2>1, <2>6, <2>7, <2>8, <2>9, Goes
<1>5. QED BY <1>2, <1>3, <1>4

\* What the linker is given, when it has been called.
LEMMA ToBeLinked ==
    ASSUME TypeOK, UnderWay, i > Len(args), ~O.componly
    PROVE  /\ i = Len(args) + 1 /\ DOMAIN files = DOMAIN args
           /\ \A k \in DOMAIN args : Linked[k] = Given(k)
           /\ Temporary = {OOf(k) : k \in Sources}
           /\ ToCode = {} /\ ToObject = Sources
           /\ \A k \in ToObject : k < i /\ Stays(k, i)
           /\ Made(i) \subseteq {OOf(k) : k \in Sources}
<1>1. /\ args \in Seq(Names) /\ files \in FilesType /\ Len(args) \in Nat /\ i \in Nat
      /\ ~O.asmonly /\ ~OneObject
  BY CommandTyped DEF TypeOK, FilesType, OneObject
<1>2. i = Len(args) + 1 BY <1>1 DEF TypeOK
<1>3. DOMAIN files = DOMAIN args
  <2>1. Len(files) = Len(args) BY <1>1, <1>2 DEF UnderWay, InOrder
  <2>2. DOMAIN files = 1 .. Len(files) /\ DOMAIN args = 1 .. Len(args)
    BY <1>1 DEF FilesType
  <2>3. QED BY <2>1, <2>2
<1>4. \A k \in DOMAIN args : files[k] = [name |-> Given(k), temp |-> k \in Sources]
  BY <1>3 DEF UnderWay, InOrder
<1>5. \A k \in DOMAIN args : files[k].name = Given(k) /\ (files[k].temp <=> k \in Sources)
  <2>1. ASSUME NEW k \in DOMAIN args
        PROVE  files[k].name = Given(k) /\ (files[k].temp <=> k \in Sources)
    <3>1. PICK b : b = (k \in Sources) OBVIOUS
    <3>2. files[k] = [name |-> Given(k), temp |-> b] BY <1>4, <2>1, <3>1
    <3>3. files[k].name = Given(k) /\ files[k].temp = b BY <3>2
    <3>4. QED BY <3>1, <3>3, Zenon
  <2>2. QED BY <2>1
<1>6. \A k \in DOMAIN args : Linked[k] = Given(k) BY <1>3, <1>5 DEF Linked
<1>7. Temporary = {OOf(k) : k \in Sources}
  <2>1. {j \in DOMAIN files : files[j].temp} = Sources BY <1>3, <1>5 DEF Sources
  <2>2. \A k \in Sources : files[k].name = OOf(k) BY <1>5 DEF Given, Sources
  <2>3. QED BY <2>1, <2>2 DEF Temporary
<1>8. ToCode = {} /\ ToObject = Sources BY <1>1 DEF ToCode, ToObject
<1>9. \A k \in ToObject : k < i /\ Stays(k, i)
  <2>1. \A k \in DOMAIN args : k < i BY <1>1, <1>2
  <2>2. QED BY <1>1, <1>8, <2>1 DEF Sources, Stays
<1>10. Made(i) \subseteq {OOf(k) : k \in Sources} BY <1>1, <1>8 DEF Made, ObjOf
<1>11. QED BY <1>2, <1>3, <1>6, <1>7, <1>8, <1>9, <1>10

LEMMA LinkMakes == ASSUME IInv, SuccessInv, Link PROVE SuccessInv'
<1>1. pc = "next" /\ i > Len(args) /\ UNCHANGED start /\ ~O.componly /\ ~O.testonly /\ pc' = "ended"
  BY DEF Link, AtEnd, cmderror, Exit
<1>2. CASE said' # "ok" BY <1>1, <1>2, Fails
<1>3. CASE said' = "ok"
  <2>1. \E done \in Built :
           fs' = [n \in Names |-> IF n \in Temporary THEN Absent ELSE done[n]]
    BY <1>3 DEF Link, cmderror, Exit
  <2>2. TypeOK /\ UnderWay BY <1>1 DEF IInv, SuccessInv
  <2>3. DEFINE input == [k \in DOMAIN files |-> Without({Output})[Linked[k]]]
  <2>4. fs' = [n \in Names |-> IF n \in Temporary THEN Absent ELSE With(Output, Exe(input))[n]]
    BY <2>1 DEF Built
  <2>5. Output \in Names BY <2>2, CommandTyped
  <2>6. New' \subseteq {Output}
    <3>1. ASSUME NEW n \in Names, had[n] = Absent, fs'[n] # Absent, n # Output PROVE FALSE
      <4>1. n \notin Temporary /\ fs[n] # Absent BY <2>2, <2>4, <3>1, WithFile
      <4>2. n \in Made(i) BY <1>1, <2>2, <3>1, <4>1 DEF UnderWay, Accounted, New
      <4>3. QED BY <1>1, <2>2, <4>1, <4>2, ToBeLinked
    <3>2. QED BY <1>1, <3>1, NextFiles DEF Extra
  <2>7. ASSUME Distinct
        PROVE  fs'[Output] = Exe([k \in DOMAIN args |-> ObjectOf(args[k])])
    <3>1. InputsKept(fs) /\ ObjectsMade(fs, i) BY <1>1, <2>2, <2>7 DEF UnderWay, Contents
    <3>2. ASSUME NEW k \in DOMAIN args
          PROVE  Without({Output})[Linked[k]] = ObjectOf(args[k])
      <4>1. Linked[k] = Given(k) BY <1>1, <2>2, ToBeLinked
      <4>2. CASE k \in Sources
        <5>1. OOf(k) \in Product(k) /\ OOf(k) \in Names BY <2>2, <4>2, SourceNames
        <5>2. OOf(k) # Output BY <2>7, <4>2, <5>1 DEF Distinct
        <5>3. fs[OOf(k)] = ObjectOf(args[k])
          BY <1>1, <2>2, <3>1, <4>2, ToBeLinked DEF ObjectsMade, ObjOf, OneObject
        <5>4. QED BY <2>2, <4>1, <4>2, <5>1, <5>2, <5>3, WithoutFiles DEF Given
      <4>3. CASE k \notin Sources
        <5>1. args[k] \in Names /\ args[k] # Output
          BY <2>2, <2>7, CommandTyped DEF Distinct
        <5>2. ObjectOf(args[k]) = had[args[k]]
          BY <4>3 DEF ObjectOf, Sources, IsObject
        <5>3. fs[args[k]] = had[args[k]] BY <3>1 DEF InputsKept
        <5>4. QED BY <2>2, <4>1, <4>3, <5>1, <5>2, <5>3, WithoutFiles DEF Given
      <4>4. QED BY <4>2, <4>3
    <3>3. input = [k \in DOMAIN args |-> ObjectOf(args[k])]
      BY <1>1, <2>2, <3>2, ToBeLinked
    <3>4. Output \notin Temporary
      <4>1. ASSUME NEW k \in Sources PROVE OOf(k) # Output
        BY <2>2, <2>7, SourceNames DEF Distinct
      <4>2. QED BY <1>1, <2>2, <4>1, ToBeLinked
    <3>5. fs'[Output] = Exe(input)
      <4>1. With(Output, Exe(input))[Output] = Exe(input) BY <2>2, <2>5, WithFile
      <4>2. QED BY <2>4, <2>5, <3>4, <4>1
    <3>6. QED BY <3>3, <3>5
  <2>8. QED
    <3>1. PICK m : m = Exe([k \in DOMAIN args |-> ObjectOf(args[k])]) OBVIOUS
    <3>2. Products = {<<Output, m>>} BY <1>1, <2>2, <3>1, Asked
    <3>3. Products' = Products /\ Distinct' = Distinct /\ Output' = Output
      BY <1>1 DEF start, Products, Distinct, Output, Sources, IsObject, Product, ObjectOf,
         Obj, Code, Exe, filetype, newfilename
    <3>4. (\A p \in Products : fs'[p[1]] = p[2]) <=> fs'[Output] = m BY <3>2
    <3>5. {p[1] : p \in Products} = {Output} BY <3>2
    <3>6. SuccessRight' BY <2>6, <2>7, <3>1, <3>3, <3>4, <3>5 DEF SuccessRight
    <3>7. QED BY <1>1, <3>6 DEF SuccessInv
<1>4. QED BY <1>2, <1>3

LEMMA ReturnMakes == ASSUME IInv, SuccessInv, Return PROVE SuccessInv'
<1>1. /\ pc = "next" /\ i > Len(args) /\ UNCHANGED <<start, fs>> /\ pc' = "ended"
      /\ O.componly \/ O.testonly
  BY DEF Return, AtEnd, Exit
<1>2. TypeOK /\ fs' = fs BY <1>1 DEF IInv
<1>3. Products' = Products /\ Distinct' = Distinct /\ New' = New
  BY <1>1 DEF start, Products, Distinct, Output, Sources, IsObject, Product, ObjectOf,
     Obj, Code, Exe, filetype, newfilename, New
<1>4. CASE O.testonly
  <2>1. Products = {} BY <1>2, <1>4, Asked
  <2>2. New = {} BY <1>4 DEF IInv, Tested, New
  <2>3. QED BY <1>1, <1>3, <2>1, <2>2 DEF SuccessInv, SuccessRight
<1>5. CASE ~O.testonly
  <2>1. O.componly /\ UnderWay BY <1>1, <1>5 DEF SuccessInv
  <2>2. \A k \in Sources : k < i /\ k \in Nat
    <3>1. i = Len(args) + 1 /\ args \in Seq(Names) /\ i \in Nat
      BY <1>1, <1>2, CommandTyped DEF TypeOK
    <3>2. QED BY <3>1 DEF Sources
  <2>3. \A k \in ToObject :
           k < i /\ (Stays(k, i) <=> (OneObject => \A l \in ToObject : l <= k))
    BY <1>2, <2>2, SourceKinds DEF Stays
  <2>4. DEFINE P == {<<SOf(k), Code(had[args[k]])>> : k \in ToCode}
               Q == {<<ObjOf(k), ObjectOf(args[k])>> : k \in {j \in ToObject : Stays(j, i)}}
  <2>5. Products = P \cup Q BY <1>2, <1>5, <2>1, <2>3, Asked
  <2>6. ASSUME Distinct PROVE \A p \in Products : fs[p[1]] = p[2]
    <3>1. CodeMade(fs, i) /\ ObjectsMade(fs, i)
      BY <1>1, <2>1, <2>6 DEF UnderWay, Contents
    <3>2. \A k \in ToCode : fs[SOf(k)] = Code(had[args[k]])
      BY <1>2, <2>2, <3>1, SourceKinds DEF CodeMade
    <3>3. \A k \in ToObject : Stays(k, i) => fs[ObjOf(k)] = ObjectOf(args[k])
      BY <3>1 DEF ObjectsMade
    <3>4. QED BY <2>5, <3>2, <3>3
  <2>7. New \subseteq {p[1] : p \in Products}
    <3>1. New \subseteq Made(i) BY <1>1, <2>1 DEF UnderWay, Accounted
    <3>2. ASSUME NEW k \in ToCode PROVE SOf(k) \in {p[1] : p \in P}
      <4>1. PICK p \in P : p = <<SOf(k), Code(had[args[k]])>> OBVIOUS
      <4>2. p[1] = SOf(k) BY <4>1
      <4>3. QED BY <4>2
    <3>3. ASSUME NEW k \in ToObject PROVE ObjOf(k) \in {p[1] : p \in Q}
      <4>1. PICK l \in ToObject : Stays(l, i) /\ ObjOf(l) = ObjOf(k)
        <5>1. CASE ~OneObject BY <2>3, <5>1
        <5>2. CASE OneObject BY <2>1, <2>3, <5>2 DEF UnderWay, LastThere, ObjOf
        <5>3. QED BY <5>1, <5>2
      <4>2. PICK p \in Q : p = <<ObjOf(l), ObjectOf(args[l])>> BY <4>1
      <4>3. p[1] = ObjOf(k) BY <4>1, <4>2
      <4>4. QED BY <4>3
    <3>4. Made(i) \subseteq {p[1] : p \in P} \cup {p[1] : p \in Q}
      BY <3>2, <3>3 DEF Made
    <3>5. QED BY <2>5, <3>1, <3>4
  <2>8. SuccessRight' BY <1>2, <1>3, <2>6, <2>7 DEF SuccessRight
  <2>9. QED BY <1>1, <2>8 DEF SuccessInv
<1>6. QED BY <1>4, <1>5

LEMMA StutterMakes == ASSUME IInv, SuccessInv, UNCHANGED vars PROVE SuccessInv'
<1>1. UNCHANGED <<start, i, fs, files, errors, pc, said>> BY DEF vars, start
<1>2. CASE pc = "ended"
  <2>1. Products' = Products /\ Distinct' = Distinct /\ New' = New
    BY <1>1 DEF start, Products, Distinct, Output, Sources, IsObject, Product, ObjectOf,
       Obj, Code, Exe, filetype, newfilename, New
  <2>2. QED BY <1>1, <1>2, <2>1 DEF SuccessInv, SuccessRight
<1>3. CASE pc # "ended" /\ O.testonly BY <1>1, <1>3, OnlyTests
<1>4. CASE pc # "ended" /\ ~O.testonly
  <2>1. UnderWay /\ Arg' = Arg /\ SFile' = SFile
    BY <1>1, <1>4, Stay DEF SuccessInv
  <2>2. Extra(fs') \subseteq Made(i') \cup (IF pc' = "next" THEN {} ELSE {SFile'})
    BY <1>1, <2>1 DEF UnderWay, Accounted, Extra, New
  <2>3. QED BY <1>1, <1>4, <2>1, <2>2, MakesNothing, Goes DEF UnderWay, Contents
<1>5. QED BY <1>2, <1>3, <1>4
-----------------------------------------------------------------------------
LEMMA InitMakes == ASSUME Init PROVE SuccessInv
<1>1. /\ fs = had /\ i = 1 /\ files = <<>> /\ pc = "next" /\ args \in Seq(Names)
  BY DriverAssumption DEF Init
<1>2. \A k \in Sources : ~(k < i) BY <1>1 DEF Sources
<1>3. Accounted BY <1>1 DEF Accounted, New
<1>4. InOrder BY <1>1 DEF InOrder
<1>5. InputsKept(fs) BY <1>1 DEF InputsKept
<1>6. CodeMade(fs, i) /\ ObjectsMade(fs, i) /\ LastThere(i)
  BY <1>2 DEF CodeMade, ObjectsMade, LastThere, Stays, ToCode, ToObject
<1>7. QED BY <1>1, <1>3, <1>4, <1>5, <1>6 DEF SuccessInv, UnderWay, Contents

LEMMA NextMakes == IInv /\ SuccessInv /\ [Next]_vars => SuccessInv'
<1>1. SUFFICES ASSUME IInv, SuccessInv, [Next]_vars PROVE SuccessInv' OBVIOUS
<1>2. CASE OpenSource BY <1>1, <1>2, OpenSourceMakes
<1>3. CASE FirstError BY <1>1, <1>3, FirstErrorMakes
<1>4. CASE Fatal
  <2>1. pc' = "ended" /\ said' # "ok" BY <1>4 DEF Fatal, Exit
  <2>2. QED BY <2>1, Fails
<1>4d. CASE FatalDefinition
  <2>1. pc' = "ended" /\ said' # "ok" BY <1>4d DEF FatalDefinition, Exit
  <2>2. QED BY <2>1, Fails
<1>5. CASE EndOfSource BY <1>1, <1>5, EndOfSourceMakes
<1>6. CASE AssembleCompiled BY <1>1, <1>6, AssembleCompiledMakes
<1>7. CASE AssembleSource BY <1>1, <1>7, AssembleSourceMakes
<1>8. CASE TakeObject BY <1>1, <1>8, TakeObjectMakes
<1>9. CASE Link BY <1>1, <1>9, LinkMakes
<1>10. CASE Return BY <1>1, <1>10, ReturnMakes
<1>11. CASE TestAssembly \/ Ended \/ UNCHANGED vars
  BY <1>1, <1>11, StutterMakes DEF TestAssembly, Ended
<1>12. QED
  BY <1>1, <1>2, <1>3, <1>4, <1>4d, <1>5, <1>6, <1>7, <1>8, <1>9, <1>10, <1>11 DEF Next

\* A run that succeeds has made, from the files as they were when it began and in
\* their order, what was asked for, unless one of the names on the command line
\* is made by the run itself, and leaves nothing else behind; and one that does
\* not succeed leaves what NothingHalfDone says (main.c 325-345).
THEOREM AsAsked == Spec => []LeavesWhatWasAsked
<1>1. Init => SuccessInv BY InitMakes
<1>2. Spec => []SuccessInv BY <1>1, Invariant, NextMakes, PTL DEF Spec
<1>3. IInv /\ SuccessInv => LeavesWhatWasAsked
  <2>1. SUFFICES ASSUME IInv, SuccessInv PROVE LeavesWhatWasAsked OBVIOUS
  <2>2. CASE pc = "ended"
    BY <2>1, <2>2 DEF IInv, Settled, SuccessInv, LeavesWhatWasAsked
  <2>3. CASE pc # "ended"
    <3>1. said # "ok" /\ said \notin {"compilation stopped", "fatal error, stop"}
      BY <2>1, <2>3 DEF IInv, Left
    <3>2. QED BY <2>3, <3>1 DEF LeavesWhatWasAsked, SuccessRight, StoppedRight, FailureRight
  <2>4. QED BY <2>2, <2>3
<1>4. QED BY <1>2, <1>3, Invariant, PTL
=============================================================================
