-------------------------------- MODULE Driver --------------------------------
(***************************************************************************)
(* The driver of the compiler, src/scc/main.c: it compiles, assembles and  *)
(* links the files it is given, runs i86-as and i86-ld for it, and takes   *)
(* away what it made on the way.  The files are the state; what is in them *)
(* is where it came from.  A program it runs succeeds, or fails and leaves *)
(* its output as src/as/out.c and src/ld/ld.c leave it: as it was when it  *)
(* could not be started at all, removed, or, from the linker, unfinished.  *)
(***************************************************************************)
EXTENDS Integers, SequencesExt

CONSTANTS
    Bases,      \* the names of files up to the dot
    Disks,      \* the files the user has at first
    Commands,   \* the files on the command line
    Options,    \* the options before them; longdef, that the macro given with -D is
                \* longer than the list of names of the compiler
    AOUTNAME, MAXFILES,
    Width(_), TEXTLEN   \* what names take of a command, and how long it may be

Names == [base : Bases, sfx : {"c", "s", "o", ""}]
NoName == [base |-> "", sfx |-> ""]

ASSUME DriverAssumption ==
    /\ Commands \subseteq Seq(Names) \ {<<>>}
    /\ Options \subseteq [componly : BOOLEAN, asmonly : BOOLEAN, testonly : BOOLEAN,
                          longdef : BOOLEAN, outfile : Names \cup {NoName}]
    /\ \A o \in Options : o.asmonly => o.componly
    /\ \A d \in Disks : DOMAIN d = Names
    /\ AOUTNAME \in Names /\ NoName \notin Names /\ MAXFILES \in Nat

VARIABLES
    fs,         \* the files
    had,        \* the files when it was started
    args, O,    \* the command line
    i,          \* where main() is in it
    files,      \* Files[] and Temp[], up to Nf
    errors,     \* Errors is not 0
    pc,         \* where it is: "next", "program", "assemble" or "ended"
    said        \* how it ended: "ok", or the message it gave up with

start == <<had, args, O>>
vars == <<fs, had, args, O, i, files, errors, pc, said>>

\* What a file holds.
Absent == <<"absent">>
Unfinished == <<"unfinished">>
Text(n) == <<"text", n>>
Code(c) == <<"code", c>>
Obj(c) == <<"object", c>>
Exe(s) == <<"program", s>>

newfilename(f, sfx) == [f EXCEPT !.sfx = sfx]
filetype(f) == f.sfx
exists(f) == fs[f] # Absent
Without(S) == [n \in Names |-> IF n \in S THEN Absent ELSE fs[n]]
With(f, c) == [fs EXCEPT ![f] = c]

TooLong(names) == FoldSeq(LAMBDA n, w : Width(n) + w, 0, names) > TEXTLEN
-----------------------------------------------------------------------------
Init ==
    /\ had \in Disks /\ args \in Commands /\ O \in Options
    /\ fs = had /\ i = 1 /\ files = <<>> /\ errors = FALSE
    /\ pc = "next" /\ said = ""

\* exit()
Exit(message) == pc' = "ended" /\ said' = message /\ UNCHANGED start
cmderror(message) == Exit(message) /\ UNCHANGED <<i, errors>>
GoTo(place) == pc' = place /\ UNCHANGED <<start, said>>

Arg == args[i]
AtFile(type) == pc = "next" /\ i <= Len(args) /\ filetype(Arg) = type
-----------------------------------------------------------------------------
(* Compiling: compile(), and what program() does to the files. *)

SFile == newfilename(Arg, "s")
OFile == newfilename(Arg, "o")

OpenSource ==
    /\ AtFile("c")
    /\ \/ /\ ~exists(Arg)
          /\ cmderror("no such file") /\ UNCHANGED <<fs, files>>
       \/ /\ exists(Arg) /\ ~O.testonly /\ exists(SFile)
          /\ cmderror("will not overwrite file") /\ UNCHANGED <<fs, files>>
       \/ /\ exists(Arg) /\ ~O.testonly /\ ~exists(SFile)
          /\ cmderror("cannot create file") /\ UNCHANGED <<fs, files>>
       \/ /\ exists(Arg) /\ (O.testonly \/ ~exists(SFile))
          /\ fs' = IF O.testonly THEN fs ELSE With(SFile, Unfinished)
          /\ errors' = FALSE
          /\ GoTo("program") /\ UNCHANGED <<i, files>>

\* cleanup(): error() calls it the first time.
CleanupAlways == Without({SFile, OFile})
Cleanup == IF O.testonly THEN fs ELSE Without({SFile, OFile})

FirstError ==
    /\ pc = "program" /\ ~O.longdef /\ ~errors
    /\ errors' = TRUE /\ fs' = Cleanup
    /\ GoTo("program") /\ UNCHANGED <<i, files>>

\* fatal(), with a message of its own or for too many of others
Fatal ==
    /\ pc = "program" /\ ~O.longdef
    /\ fs' = Cleanup
    /\ errors' = TRUE /\ Exit("fatal error, stop") /\ UNCHANGED <<i, files>>

\* fatal() in defarg(): program() has not set Basefile yet, and cleanup() removes
\* nothing.
FatalDefinition ==
    /\ pc = "program" /\ O.longdef
    /\ errors' = TRUE /\ Exit("macro too long") /\ UNCHANGED <<fs, i, files>>

\* The end of program(); main() goes on.
EndOfSource ==
    /\ pc = "program" /\ ~O.longdef
    /\ fs' = IF O.testonly \/ errors THEN fs ELSE With(SFile, Code(fs[Arg]))
    /\ \/ /\ errors /\ ~O.testonly
          /\ cmderror("compilation stopped") /\ UNCHANGED files
       \/ /\ ~O.testonly /\ ~errors /\ ~O.asmonly
          /\ GoTo("assemble") /\ UNCHANGED <<i, files, errors>>
       \/ /\ O.testonly \/ (~errors /\ O.asmonly)
          /\ i' = i + 1 /\ GoTo("next") /\ UNCHANGED <<files, errors>>
-----------------------------------------------------------------------------
(* Assembling: assemble(), and collect(). *)

Target == IF O.componly /\ O.outfile # NoName THEN O.outfile ELSE OFile

\* collect(): what the linker gets, and whether it is taken away behind it.
collectForgets(f, temp) ==
    IF O.componly THEN files ELSE Append(files, [name |-> f, temp |-> FALSE])
collect(f, temp) ==
    IF O.componly THEN files ELSE Append(files, [name |-> f, temp |-> temp])
TooMany == ~O.componly /\ Len(files) >= MAXFILES

\* i86-as takes its output away before it reads its input.
Assembled == LET input == Without({Target})[SFile]
             IN IF input = Absent THEN {} ELSE {With(Target, Obj(input))}

assemble(delete) ==
    \/ /\ TooMany
       /\ cmderror("too many input files") /\ UNCHANGED <<fs, files>>
    \/ /\ ~TooMany
       /\ files' = collect(Target, TRUE)
       /\ \/ /\ TooLong(<<SFile, Target>>)
             /\ cmderror("assembler command too long") /\ UNCHANGED fs
          \/ /\ ~TooLong(<<SFile, Target>>)
             /\ \E done \in {fs, Without({Target})} : fs' = done
             /\ cmderror("assembler invocation failed")
          \/ /\ ~TooLong(<<SFile, Target>>)
             /\ \E done \in Assembled :
                   fs' = IF delete THEN [done EXCEPT ![SFile] = Absent] ELSE done
             /\ i' = i + 1 /\ GoTo("next") /\ UNCHANGED errors

AssembleCompiled == pc = "assemble" /\ assemble(TRUE)
AssembleSourceStays ==
    /\ AtFile("s") /\ ~O.testonly
    /\ IF TooMany THEN cmderror("too many input files") /\ UNCHANGED <<fs, files>>
       ELSE /\ fs' \in Assembled \cup {Without({Target})}
            /\ files' = collect(Target, TRUE)
            /\ UNCHANGED <<start, i, errors, pc, said>>
AssembleSource == AtFile("s") /\ ~O.testonly /\ assemble(FALSE)

\* With -t main() does nothing about an assembly file, not even go on to the next.
TestAssembly == AtFile("s") /\ O.testonly /\ UNCHANGED vars
-----------------------------------------------------------------------------
(* Linking: what is given to it, and link(). *)

IsObject(f) == filetype(f) \notin {"c", "s"}

TakeObject ==
    /\ pc = "next" /\ i <= Len(args) /\ IsObject(Arg)
    /\ UNCHANGED fs
    /\ \/ ~exists(Arg) /\ cmderror("no such file") /\ UNCHANGED files
       \/ exists(Arg) /\ TooMany /\ cmderror("too many input files") /\ UNCHANGED files
       \/ /\ exists(Arg) /\ ~TooMany
          /\ files' = collect(Arg, FALSE)
          /\ i' = i + 1 /\ GoTo("next") /\ UNCHANGED errors

AtEnd == pc = "next" /\ i > Len(args)
Output == IF O.outfile = NoName THEN AOUTNAME ELSE O.outfile
Linked == [k \in DOMAIN files |-> files[k].name]
Temporary == {files[k].name : k \in {j \in DOMAIN files : files[j].temp}}

\* i86-ld takes its output away before it reads what it links.
Built == LET input == [k \in DOMAIN files |-> Without({Output})[Linked[k]]]
         IN IF \E k \in DOMAIN files : input[k] = Absent THEN {}
            ELSE {With(Output, Exe(input))}

Link ==
    /\ AtEnd /\ ~O.componly /\ ~O.testonly
    /\ UNCHANGED files
    /\ \/ /\ TooLong(<<Output>> \o Linked)
          /\ cmderror("linker command too long") /\ UNCHANGED fs
       \/ /\ ~TooLong(<<Output>> \o Linked)
          /\ \E done \in {fs, Without({Output}), With(Output, Unfinished)} : fs' = done
          /\ cmderror("linker invocation failed")
       \/ /\ ~TooLong(<<Output>> \o Linked)
          /\ \E done \in Built :
                fs' = [n \in Names |-> IF n \in Temporary THEN Absent ELSE done[n]]
          /\ Exit("ok") /\ UNCHANGED <<i, errors>>

Return ==
    /\ AtEnd /\ (O.componly \/ O.testonly)
    /\ Exit("ok") /\ UNCHANGED <<fs, files, i, errors>>

Ended == pc = "ended" /\ UNCHANGED vars

Next ==
    \/ OpenSource \/ FirstError \/ Fatal \/ FatalDefinition \/ EndOfSource
    \/ AssembleCompiled \/ AssembleSource \/ TestAssembly
    \/ TakeObject \/ Link \/ Return \/ Ended

Spec == Init /\ [][Next]_vars
FairSpec == Spec /\ WF_vars(Next)
-----------------------------------------------------------------------------
(* What the user may rely on. *)

TypeOK ==
    /\ had \in Disks /\ args \in Commands /\ O \in Options
    /\ DOMAIN fs = Names
    /\ i \in 1 .. Len(args) + 1
    /\ files \in Seq([name : Names, temp : BOOLEAN])
    /\ errors \in BOOLEAN
    /\ pc \in {"next", "program", "assemble", "ended"}
    /\ pc \in {"program", "assemble"} => i <= Len(args) /\ filetype(Arg) = "c"

\* What a run may write over: its output, and the objects of its sources.
Sources == {k \in DOMAIN args : ~IsObject(args[k])}
Own == IF O.testonly THEN {}
       ELSE {newfilename(args[k], "o") : k \in Sources}
            \cup {IF O.componly THEN O.outfile ELSE Output}

\* At no time, however it goes on or ends, has the driver touched a file of the
\* user that is not its output or named as the object of a source: cleanup(),
\* assemble() and link() remove only what the run made (main.c 19-24, 138-141,
\* 182-187), because compile() refuses a source whose assembly file is there
\* already (89-91); and with -t nothing changes at all.
KeepsUsersFiles == \A n \in Names \ Own : had[n] # Absent => fs[n] = had[n]

\* The files named on the command line are different things: no source is another
\* one's product, and the output is none of them.
Product(k) == {newfilename(args[k], "o"), newfilename(args[k], "s")} \ {args[k]}
Distinct ==
    /\ \A j \in Sources, k \in DOMAIN args : args[k] \notin Product(j)
    /\ \A k \in DOMAIN args : Output # args[k]
    /\ \A k \in Sources : Output \notin Product(k)

ObjectOf(a) ==
    CASE filetype(a) = "c" -> Obj(Code(had[a]))
      [] filetype(a) = "s" -> Obj(had[a])
      [] OTHER -> had[a]

\* One product for each source; with -o they all go to one file, and the last stays.
Products ==
    CASE O.testonly -> {}
      [] ~O.testonly /\ ~O.componly ->
           {<<Output, Exe([k \in DOMAIN args |-> ObjectOf(args[k])])>>}
      [] OTHER ->
           LET C == {k \in Sources : O.asmonly /\ filetype(args[k]) = "c"}
               A == Sources \ C
           IN {<<newfilename(args[k], "s"), Code(had[args[k]])>> : k \in C}
              \cup (IF O.outfile = NoName
                    THEN {<<newfilename(args[k], "o"), ObjectOf(args[k])>> : k \in A}
                    ELSE {<<O.outfile, ObjectOf(args[k])>> : k \in {j \in A : \A l \in A : l <= j}})

New == {n \in Names : had[n] = Absent /\ fs[n] # Absent}

\* A run that succeeds has made what was asked for, from the files as they were
\* when it began, in their order, and leaves nothing else behind (main.c 325-345).
SuccessRight ==
    said = "ok" => /\ Distinct => \A p \in Products : fs[p[1]] = p[2]
                   /\ New \subseteq {p[1] : p \in Products}

\* What the sources before this one made.
Before == {newfilename(args[k], "o") : k \in {j \in Sources : j < i}}
          \cup {newfilename(args[k], "s") : k \in {j \in Sources : j < i /\ O.asmonly}}
          \cup {O.outfile}

\* One that stops at an error in a source leaves neither an assembly file of it,
\* which the next run would refuse to write over, nor an object, which a later
\* link would take for a new one; what the sources before it made stays.
StoppedRight ==
    said \in {"compilation stopped", "fatal error, stop"} /\ ~O.testonly =>
        ~exists(SFile) /\ ~exists(OFile) /\ New \subseteq Before

\* An assembly file is left behind only by an assembler that failed or was not
\* even called for it, or by a macro of -D that is too long, and then only that one.
FailureRight ==
    pc = "ended" /\ ~O.asmonly =>
        \A n \in New \ {O.outfile, Output} : filetype(n) = "s" =>
            /\ said \in {"too many input files", "assembler command too long",
                         "assembler invocation failed", "macro too long"}
            /\ n = SFile

LeavesWhatWasAsked == SuccessRight /\ StoppedRight /\ FailureRight

\* The driver ends, except for an assembly file with -t, which holds it for ever
\* (main.c 336).
DriverEnds ==
    \/ O.testonly /\ \E k \in DOMAIN args : filetype(args[k]) = "s"
    \/ <>(pc = "ended")
=============================================================================
