------------------------------- MODULE Linker -------------------------------
(***************************************************************************)
(* ld: from a list of object files to an executable.  The entry symbol is  *)
(* looked up, make_symbol_tree() decides which files are linked, their     *)
(* sizes are added up and checked, text and data are copied to the output, *)
(* the global symbols get their addresses, and each reference is patched   *)
(* in the output file.                                                     *)
(*                                                                         *)
(* One action is one iteration of a loop of the code: one symbol of one    *)
(* object, or one object.  The bytes of the objects are not represented:   *)
(* the output is the set of pieces copied to it (which segment of which    *)
(* object, and where), and the set of patches written over them.           *)
(***************************************************************************)
EXTENDS Integers, Sequences, FiniteSets, FiniteSetsExt, Functions

CONSTANTS
    Jobs,           \* the command lines: [fmt, b, stack, files, names], names the bytes
                    \* of _names that the names of the files take
    Names,          \* the symbol names that occur in them
    NameLen,        \* the bytes each takes in _names
    NAMES_MAX,      \* the bytes of _names
    SYMBOLS_MAX     \* slots of _symbols

\* What the linker defines itself.
LinkerNames ==
    {"__segoff", "__etext", "__edata", "__end", "__textoff", "__dataoff", "__bssoff"}

Segments == {"text", "data", "bss"}
Bin == {"com", "sys", "pcboot"}
Aout == {"hcix", "v7", "v7tiny"}
BinOffset == [com |-> 256, sys |-> 0, pcboot |-> 31744]

\* A symbol record and an object.  A label lies in its section, or behind its last byte.
Global == [kind : {"global"}, name : Names \ LinkerNames, seg : Segments, off : Nat]
Ref == [kind : {"ref"}, name : Names, seg : Segments, off : Nat,
        rel : {"abs", "rel16", "rel8"}, disp : Int, addend : Int]
Object == [text : Nat, data : Nat, bss : Nat, syms : Seq(Global \cup Ref)]
InSection(r, f) == r.kind = "global" => r.off <= f[r.seg]

ASSUME LinkerAssumption ==
    /\ LinkerNames \cup {"_start"} \subseteq Names
    /\ SYMBOLS_MAX \in Nat /\ SYMBOLS_MAX > Cardinality(LinkerNames)
    /\ NameLen \in [Names -> Nat] /\ NAMES_MAX \in Nat
    /\ \A j \in Jobs :
          /\ j.fmt \in Bin \cup Aout /\ j.b \in BOOLEAN /\ j.stack \in Nat
          /\ j.names \in 0 .. NAMES_MAX - 1
          /\ j.files \in Seq(Object)
          /\ \A i \in DOMAIN j.files : \A k \in DOMAIN j.files[i].syms :
                InSection(j.files[i].syms[k], j.files[i])

VARIABLES
    job,            \* the command line
    pc,             \* the loop of the linker that runs
    where, value,   \* _symbols: the file of a name (its slot in _files) and its value
    included,       \* the files with output_include set
    stack,          \* make_symbol_tree()'s calls: the cursor of each
    lib, s,         \* the cursor of the other loops: file and symbol
    total,          \* output_bin()'s size
    aout,           \* the sizes in _aout
    off,            \* text_offset, data_offset and bss_offset
    pieces,         \* what fwrite() copied to the output
    at,             \* the output's file position
    patches,        \* the words and bytes written over it by relocation
    error,          \* why the link failed: "none", "no_entry", "undefined", "names" or
                    \* "overflow"
    out             \* the output file: "open", "removed" or "closed"

symtab == <<where, value>>
output == <<pieces, at, patches>>
vars == <<job, pc, symtab, included, stack, lib, s, total, aout, off, output, error, out>>

ABSENT == -1        \* no slot of _symbols holds the name
NOFILE == 0         \* sym->file is NULL

Files == job.files
N == Len(Files)
IsBin == job.fmt \in Bin
Origin == IF IsBin THEN BinOffset[job.fmt] ELSE 0
HeaderLen == IF IsBin THEN 3 ELSE 16
JumpLen == 3

Zero == [text |-> 0, data |-> 0, bss |-> 0]
SizeOf(f) == [text |-> Files[f].text, data |-> Files[f].data, bss |-> Files[f].bss]
Plus(x, y) == [g \in Segments |-> x[g] + y[g]]
Round16(n) == ((n + 15) \div 16) * 16

Init ==
    /\ job \in Jobs
    /\ pc = "entry"
    /\ where = [n \in Names |-> ABSENT] /\ value = [n \in Names |-> 0]
    /\ included = {} /\ stack = <<>> /\ lib = 1 /\ s = 1
    /\ total = 0 /\ aout = Zero /\ off = Zero
    /\ pieces = {} /\ at = 0 /\ patches = {}
    /\ error = "none" /\ out = "open"
-----------------------------------------------------------------------------
(* The symbol table. *)

Known == {n \in Names : where[n] # ABSENT}
Full == Cardinality(Known) >= SYMBOLS_MAX

\* The files whose object defines n; find_symbol() takes the first.
DefinedIn(n) == {f \in 1..N : \E k \in DOMAIN Files[f].syms :
                    Files[f].syms[k].kind = "global" /\ Files[f].syms[k].name = n}
FirstDef(n) == Min(DefinedIn(n))

\* find_symbol() finds n: in the table, or in an object while a slot is free.
Findable(n) == n \in Known \/ (~Full /\ DefinedIn(n) # {})
\* Mutant: the last object that defines a name provides it.
FileOfLast(n) == IF n \in Known THEN where[n] ELSE Max(DefinedIn(n))
FileOf(n) == IF n \in Known THEN where[n] ELSE FirstDef(n)

\* The names of ns fit into _names, with those it holds already.
HasRoom(ns) == job.names + SumFunctionOnSet(NameLen, Known \cup ns) < NAMES_MAX

\* What output_aout16() and output_bin() enter before the first walk.
EntryNames == {"_start"} \cup LinkerNames

Fail(why) == pc' = "failed" /\ error' = why
-----------------------------------------------------------------------------
(* output_aout16() and output_bin() begin: the entry symbol, the linker's own
   symbols, and the first call of make_symbol_tree(). *)

NoEntry ==
    /\ pc = "entry" /\ ~Findable("_start")
    /\ Fail("no_entry")
    /\ UNCHANGED <<job, symtab, included, stack, lib, s, total, aout, off, output, out>>

Entry ==
    /\ pc = "entry" /\ Findable("_start") /\ HasRoom(EntryNames)
    /\ where' = [n \in Names |-> IF n = "_start" THEN FirstDef(n)
                                 ELSE IF n \in LinkerNames THEN NOFILE ELSE ABSENT]
    /\ value' = [value EXCEPT !["__end"] = job.stack,
                              !["__etext"] = IF IsBin THEN JumpLen ELSE 0]
    /\ included' = {FirstDef("_start")}
    /\ stack' = <<[lib |-> 1, s |-> 1]>>
    /\ total' = Origin
    /\ pc' = "tree"
    /\ UNCHANGED <<job, lib, s, aout, off, output, error, out>>
-----------------------------------------------------------------------------
(* make_symbol_tree(): every call walks the symbols of all the objects. *)

Frame == stack[Len(stack)]
InFile == Frame.lib <= N /\ Frame.s <= Len(Files[Frame.lib].syms)
Cur == Files[Frame.lib].syms[Frame.s]
Step(st) == [st EXCEPT ![Len(st)].s = @ + 1]

TreeNextFile ==
    /\ pc = "tree" /\ Frame.lib <= N /\ ~InFile
    /\ stack' = [stack EXCEPT ![Len(stack)] = [lib |-> @.lib + 1, s |-> 1]]
    /\ UNCHANGED <<job, pc, symtab, included, lib, s, total, aout, off, output, error, out>>

TreeReturn ==
    /\ pc = "tree" /\ Frame.lib > N
    /\ stack' = SubSeq(stack, 1, Len(stack) - 1)
    /\ pc' = IF Len(stack) = 1 THEN "sizes" ELSE "tree"
    /\ UNCHANGED <<job, symtab, included, lib, s, total, aout, off, output, error, out>>

\* A global goes to the table if its name is new and a slot is free.
TreeGlobal ==
    /\ pc = "tree" /\ InFile /\ Cur.kind = "global"
    /\ Findable(Cur.name) => HasRoom({Cur.name})
    /\ where' = IF Cur.name \in Known \/ Full THEN where
                ELSE [where EXCEPT ![Cur.name] = Frame.lib]
    /\ stack' = Step(stack)
    /\ UNCHANGED <<job, pc, value, included, lib, s, total, aout, off, output, error, out>>

TreeRef ==
    LET f == FileOf(Cur.name) IN
    /\ pc = "tree" /\ InFile /\ Cur.kind = "ref" /\ Findable(Cur.name)
    /\ HasRoom({Cur.name})
    /\ where' = [where EXCEPT ![Cur.name] = f]
    /\ IF f # NOFILE /\ f \notin included
       THEN /\ included' = included \cup {f}
            /\ stack' = Append(Step(stack), [lib |-> 1, s |-> 1])
       ELSE /\ stack' = Step(stack)
            /\ UNCHANGED included
    /\ UNCHANGED <<job, pc, value, lib, s, total, aout, off, output, error, out>>

\* Mutant: a name that is not yet in the table is not looked for.
TreeNotInTable ==
    /\ pc = "tree" /\ InFile /\ Cur.kind = "ref" /\ Cur.name \notin Known
    /\ Fail("undefined")
    /\ out' = "removed"
    /\ UNCHANGED <<job, symtab, included, stack, lib, s, total, aout, off, output>>

\* Mutant: the output stays.
TreeNotFoundKeeps ==
    /\ pc = "tree" /\ InFile /\ Cur.kind = "ref" /\ ~Findable(Cur.name)
    /\ Fail("undefined")
    /\ UNCHANGED <<job, symtab, included, stack, lib, s, total, aout, off, output, out>>

TreeNotFound ==
    /\ pc = "tree" /\ InFile /\ Cur.kind = "ref" /\ ~Findable(Cur.name)
    /\ Fail("undefined")
    /\ out' = "removed"
    /\ UNCHANGED <<job, symtab, included, stack, lib, s, total, aout, off, output>>

\* add_name() has no room for the name that is entered next.  (set_value() enters
\* none: what has no slot by then found the table full.)
NamesOverflow ==
    /\ \/ pc = "entry" /\ Findable("_start") /\ ~HasRoom(EntryNames)
       \/ pc = "tree" /\ InFile /\ Findable(Cur.name) /\ ~HasRoom({Cur.name})
    /\ Fail("names")
    /\ out' = "removed"
    /\ UNCHANGED <<job, symtab, included, stack, lib, s, total, aout, off, output>>
-----------------------------------------------------------------------------
(* The loops over the files.  Walk(l) is one iteration of loop l: on to the
   next file, or to what follows the loop. *)

Following == [sizes |-> "layout", text |-> "datapos", data |-> "tail",
              values |-> "reloc", reloc |-> "finish"]

NextFile == /\ lib' = IF lib < N THEN lib + 1 ELSE 1
            /\ s' = 1
            /\ pc' = IF lib < N THEN pc ELSE Following[pc]

\* Mutant: the loop does not get past a file that is not linked.
SkipFileStuck ==
    /\ pc \in {"sizes", "text", "data", "values", "reloc"} /\ lib \notin included
    /\ UNCHANGED vars

\* The files a loop passes over.
SkipFile ==
    /\ pc \in {"sizes", "text", "data", "values", "reloc"} /\ lib \notin included
    /\ NextFile
    /\ UNCHANGED <<job, symtab, included, stack, total, aout, off, output, error, out>>

Sum3 == [value EXCEPT !["__etext"] = @ + Files[lib].text,
                      !["__edata"] = @ + Files[lib].data,
                      !["__end"] = @ + Files[lib].bss]
SizeOfBin == total + Sum3["__etext"] + Sum3["__edata"] + Sum3["__end"]
\* Mutant: bss is not counted with data.
OverflowsNoBss ==
    IF IsBin THEN SizeOfBin >= 65504
    ELSE Sum3["__etext"] >= 65520 \/ Sum3["__edata"] >= 65504

\* Mutant: text counts against the data segment.
OverflowsTogether ==
    IF IsBin THEN SizeOfBin >= 65504
    ELSE Sum3["__etext"] + Sum3["__edata"] + Sum3["__end"] >= 65504

Overflows ==
    IF IsBin THEN SizeOfBin >= 65504
    ELSE Sum3["__etext"] >= 65520 \/ Sum3["__edata"] + Sum3["__end"] >= 65504

AddSizes ==
    /\ pc = "sizes" /\ lib \in included
    /\ value' = Sum3
    /\ total' = IF IsBin THEN SizeOfBin ELSE total
    /\ IF Overflows
       THEN Fail("overflow") /\ out' = "removed" /\ UNCHANGED <<lib, s>>
       ELSE NextFile /\ UNCHANGED <<error, out>>
    /\ UNCHANGED <<job, where, included, stack, aout, off, output>>
-----------------------------------------------------------------------------
(* The layout: where text, data and bss start when the program runs. *)

Rounded == [text |-> Round16(value["__etext"]), data |-> Round16(value["__edata"]),
            bss |-> Round16(value["__end"])]
Starts ==
    CASE IsBin -> [text |-> Origin + JumpLen,
                   data |-> Origin + value["__etext"],
                   bss |-> Origin + value["__edata"]]
      [] job.fmt = "v7tiny" -> [text |-> 0, data |-> aout.text, bss |-> aout.data + aout.text]
      [] OTHER -> [text |-> 0, data |-> 0, bss |-> aout.data]

LayoutBin ==
    /\ pc = "layout" /\ IsBin
    /\ LET edata == value["__edata"] + value["__etext"]
       IN value' = [value EXCEPT !["__edata"] = edata, !["__end"] = @ + edata]
    /\ UNCHANGED aout

LayoutAout ==
    /\ pc = "layout" /\ ~IsBin
    /\ aout' = Rounded
    /\ LET data == IF job.fmt = "v7tiny" THEN Rounded.text + Rounded.data ELSE Rounded.data
       IN value' = [value EXCEPT !["__segoff"] = Rounded.text \div 16,
                                 !["__etext"] = Rounded.text,
                                 !["__edata"] = data,
                                 !["__end"] = data + Rounded.bss]

Layout ==
    /\ LayoutBin \/ LayoutAout
    /\ at' = HeaderLen
    /\ pc' = "text"
    /\ UNCHANGED <<job, where, included, stack, lib, s, total, off, pieces, patches, error, out>>

Copy(seg) ==
    /\ pc = seg /\ lib \in included
    /\ pieces' = pieces \cup {[file |-> lib, seg |-> seg, pos |-> at, len |-> SizeOf(lib)[seg]]}
    /\ at' = at + SizeOf(lib)[seg]
    /\ NextFile
    /\ UNCHANGED <<job, symtab, included, stack, total, aout, off, patches, error, out>>

\* An a.out's data starts at the rounded end of its text.
SeekData ==
    /\ pc = "datapos"
    /\ at' = IF IsBin THEN at ELSE HeaderLen + aout.text
    /\ pc' = "data"
    /\ UNCHANGED <<job, symtab, included, stack, lib, s, total, aout, off, pieces, patches, error, out>>

\* After the data.  In an a.out the seek skips the bss if -b was given, and the
\* signature follows; in the other formats _aout is all zero, the seek to -1
\* fails, and -b appends one byte.
AfterData ==
    /\ pc = "tail"
    /\ at' = IF IsBin THEN (IF job.b THEN at + 1 ELSE at)
             ELSE HeaderLen + aout.text + aout.data + (IF job.b THEN aout.bss ELSE 0) + 10
    /\ off' = Starts
    /\ pc' = "values"
    /\ UNCHANGED <<job, symtab, included, stack, lib, s, total, aout, pieces, patches, error, out>>
-----------------------------------------------------------------------------
(* The addresses of the globals, then the references. *)

More == s <= Len(Files[lib].syms)
Sym == Files[lib].syms[s]

\* Mutant: the offsets go on from the first loop into the second.
NextObjectNoReset ==
    /\ pc \in {"values", "reloc"} /\ lib \in included /\ ~More
    /\ NextFile
    /\ off' = Plus(off, SizeOf(lib))
    /\ UNCHANGED <<job, symtab, included, stack, total, aout, output, error, out>>

\* The offsets move past a file, and start again for the next loop.
NextObject ==
    /\ pc \in {"values", "reloc"} /\ lib \in included /\ ~More
    /\ NextFile
    /\ off' = IF \E f \in included : f > lib THEN Plus(off, SizeOf(lib)) ELSE Starts
    /\ UNCHANGED <<job, symtab, included, stack, total, aout, output, error, out>>

\* set_value(): a name without a slot gets one; when there is none add_symbol()
\* returns a null pointer, and the linker crashes on it.
SetValue ==
    /\ pc = "values" /\ lib \in included /\ More
    /\ s' = s + 1
    /\ IF Sym.kind # "global"
       THEN UNCHANGED <<symtab, pc>>
       ELSE IF Sym.name \notin Known /\ Full
       THEN pc' = "crashed" /\ UNCHANGED symtab
       ELSE /\ value' = [value EXCEPT ![Sym.name] = off[Sym.seg] + Sym.off]
            /\ where' = IF Sym.name \in Known THEN where
                        ELSE [where EXCEPT ![Sym.name] = NOFILE]
            /\ UNCHANGED pc
    /\ UNCHANGED <<job, included, stack, lib, total, aout, off, output, error, out>>

\* __textoff, __dataoff and __bssoff stand for the segments of the object at hand.
ValueOf(n) == CASE n = "__textoff" -> off.text
                [] n = "__dataoff" -> off.data
                [] n = "__bssoff" -> off.bss
                [] OTHER -> value[n]

\* Where a reference is in the output, as the relocation loop computes it.
PatchPos(r) ==
    IF r.seg = "text" THEN (IF IsBin THEN 0 ELSE HeaderLen) + r.off + off.text - Origin
    ELSE (IF IsBin THEN 0 ELSE HeaderLen) + r.off + aout.text + off.data - Origin

Width(r) == IF r.rel = "rel8" THEN 1 ELSE 2

\* The value written: the symbol's, or its distance from the place in the text
\* segment, plus what the assembler left in the output.
PatchValue(r) ==
    IF r.rel = "abs" THEN (ValueOf(r.name) + r.addend) % 65536
    ELSE (ValueOf(r.name) - (r.off + off.text) + r.disp + r.addend)
            % (IF r.rel = "rel8" THEN 256 ELSE 65536)

Relocate ==
    /\ pc = "reloc" /\ lib \in included /\ More
    /\ s' = s + 1
    /\ patches' = IF Sym.kind = "ref" /\ Sym.seg \in {"text", "data"}
                  THEN patches \cup {[file |-> lib, sym |-> s, pos |-> PatchPos(Sym),
                                      val |-> PatchValue(Sym)]}
                  ELSE patches
    /\ UNCHANGED <<job, pc, symtab, included, stack, lib, total, aout, off, pieces, at, error, out>>

Finish ==
    /\ pc = "finish"
    /\ pc' = "done"
    /\ out' = "closed"
    /\ patches' = patches \cup
          {[file |-> 0, sym |-> 0, pos |-> IF IsBin THEN 1 ELSE 10,
            val |-> (value["_start"] - (IF IsBin THEN JumpLen + Origin ELSE 0)) % 65536]}
    /\ UNCHANGED <<job, symtab, included, stack, lib, s, total, aout, off, pieces, at, error>>

Terminated == pc \in {"done", "failed", "crashed"}

Link ==
    \/ NoEntry \/ Entry
    \/ TreeNextFile \/ TreeReturn \/ TreeGlobal \/ TreeRef \/ TreeNotFound \/ NamesOverflow
    \/ SkipFile \/ AddSizes
    \/ Layout \/ Copy("text") \/ SeekData \/ Copy("data") \/ AfterData
    \/ NextObject \/ SetValue \/ Relocate \/ Finish

Next == Link \/ (Terminated /\ UNCHANGED vars)

Spec == Init /\ [][Next]_vars
FairSpec == Spec /\ WF_vars(Link)
-----------------------------------------------------------------------------
(* Properties. *)

Sizes == [Segments -> Nat]

TypeOK ==
    /\ job \in Jobs
    /\ pc \in {"entry", "tree", "sizes", "layout", "text", "datapos", "data", "tail",
               "values", "reloc", "finish", "done", "failed", "crashed"}
    /\ where \in [Names -> {ABSENT, NOFILE} \cup 1..N]
    /\ value \in [Names -> Nat]
    /\ included \subseteq 1..N
    /\ \A i \in DOMAIN stack : stack[i].lib \in 1..N+1 /\ stack[i].s \in Nat \ {0}
    /\ lib \in Nat \ {0} /\ s \in Nat \ {0} /\ total \in Nat /\ at \in Nat
    /\ aout \in Sizes /\ off \in Sizes
    /\ \A x \in pieces : x.file \in included /\ x.pos \in Nat /\ x.len \in Nat
    /\ \A x \in patches : x.pos \in Nat /\ x.val \in Nat /\ x.val < 65536
    /\ out \in {"open", "removed", "closed"}

\* What a correct link is, read off the objects and the output, without the
\* linker's offsets.
Refs(f) == {r \in Range(Files[f].syms) : r.kind = "ref"}
Referenced == {r.name : r \in UNION {Refs(f) : f \in 1..N}} \ LinkerNames
Defs(n) == {d \in UNION {[file : {f}, k : DOMAIN Files[f].syms] : f \in included} :
               LET e == Files[d.file].syms[d.k] IN e.kind = "global" /\ e.name = n}

\* What the files of a set have in segment seg, together.
Length(seg) == [f \in 1..N |-> Files[f][seg]]
Total(seg, fs) == SumFunctionOnSet(Length(seg), fs)
TextLen == Total("text", included)
DataLen == Total("data", included)
BssLen == job.stack + Total("bss", included)

PieceOf(f, seg) == CHOOSE x \in pieces : x.file = f /\ x.seg = seg

\* The address the program sees segment seg of file f at: text and data where
\* they are in the output, bss after the data of all files.
Address(f, seg) ==
    LET pos == PieceOf(f, seg).pos
        before == Total("bss", {g \in included : g < f})
    IN CASE seg = "bss" -> before + (CASE IsBin -> Origin + JumpLen + TextLen + DataLen
                                       [] job.fmt = "v7tiny" -> aout.text + aout.data
                                       [] OTHER -> aout.data)
         [] seg # "bss" /\ IsBin -> Origin + pos
         [] seg = "data" /\ job.fmt \in {"v7", "hcix"} -> pos - HeaderLen - aout.text
         [] OTHER -> pos - HeaderLen

\* The address of a definition.
AddressOf(d) == LET e == Files[d.file].syms[d.k] IN Address(d.file, e.seg) + e.off

SegmentOf == [__textoff |-> "text", __dataoff |-> "data", __bssoff |-> "bss"]

\* The ends of the segments: where the sections end in the output of a .com, .sys or
\* boot sector, not counting from its origin, and the rounded ends in an a.out.
EndText == IF IsBin THEN JumpLen + TextLen ELSE aout.text
EndData == CASE IsBin -> JumpLen + TextLen + DataLen
             [] job.fmt = "v7tiny" -> aout.text + aout.data
             [] OTHER -> aout.data
EndBss == EndData + (IF IsBin THEN BssLen ELSE aout.bss)
EndOf == [__etext |-> EndText, __edata |-> EndData, __end |-> EndBss]

\* The addresses a reference of file f may stand for: one, unless several linked
\* files define the name.
Targets(f, r) ==
    IF r.name \in DOMAIN SegmentOf THEN {Address(f, SegmentOf[r.name])}
    ELSE IF r.name = "__segoff" THEN {aout.text \div 16}
    ELSE IF r.name \in DOMAIN EndOf THEN {EndOf[r.name]}
    ELSE {AddressOf(d) : d \in Defs(r.name)}

\* Patch x is the one reference k of file f needs.
PatchOK(x, f, k) ==
    LET r == Files[f].syms[k]
        from == IF r.rel = "abs" THEN 0 ELSE Address(f, r.seg) + r.off - r.disp
    IN \E t \in Targets(f, r) :
          /\ x.file = f /\ x.sym = k
          /\ x.pos = PieceOf(f, r.seg).pos + r.off
          /\ (x.val + from - t - r.addend) % (IF r.rel = "rel8" THEN 256 ELSE 65536) = 0

ReferencePatched(f, k) == \E x \in patches : PatchOK(x, f, k)

EntryPatched ==
    \E x \in patches, d \in Defs("_start") :
        x.file = 0 /\ AddressOf(d) = IF IsBin THEN Origin + JumpLen + x.val ELSE x.val

\* Each reference of a linked file is patched exactly where its file was copied to,
\* with the address of a definition, or in a jump with the distance to it, as far as
\* the word patched holds it (aout16.c 156-227, bin.c 128-199: modulo 2^16, which only a
\* v7tiny program above 64K needs); the program starts at _start (aout16.c 228,
\* bin.c 199-201).  Jumps are in text: the code takes the distance from
\* text_offset whatever segment the jump is in.
Patchable(r) == r.kind = "ref" /\ (r.seg = "text" \/ (r.seg = "data" /\ r.rel = "abs"))
Resolved ==
    pc = "done" =>
        /\ \A f \in included : \A k \in DOMAIN Files[f].syms :
               Patchable(Files[f].syms[k]) => ReferencePatched(f, k)
        /\ EntryPatched

\* The recursion links the first file that defines _start and the first file that
\* defines each name any object refers to, linked or not, and no other file
\* (symbol.c 114-177).
LinksWhatIsReferenced ==
    pc \notin {"entry", "tree", "failed"} =>
        included = {FirstDef(n) : n \in Referenced \cup {"_start"}}

\* "symbol not found" is reported only for a name no object defines, or when the
\* symbol table is full.
NotFoundMeansUndefined ==
    error = "undefined" => Full \/ \E n \in Referenced : DefinedIn(n) = {}

\* A link that succeeds left no address outside 16 bits, in every format but v7tiny:
\* the size checks come before the rounding, and what shares a segment still fits it
\* (aout16.c 28-55, bin.c 31-47).  In v7tiny all of the program is one segment
\* (readme.md 18, aout16.c 57-64), but text and data with bss are checked apart: ld
\* links a program of up to twice 64K without a message, and nothing is claimed of it.
AddressesFit ==
    pc = "done" /\ job.fmt # "v7tiny" =>
        IF IsBin THEN Origin + JumpLen + TextLen + DataLen + BssLen <= 65535
        ELSE aout.text <= 65535 /\ aout.data + aout.bss <= 65535

\* The overflow messages are true: "text/data/bss segment size overflow." means
\* that the program does not fit (bin.c 38-41, aout16.c 36-43).  bin.c adds what it
\* has summed up so far once more for each file, and refuses some programs of several
\* files that would fit: for .com, .sys and boot sectors the message is true when one
\* file is linked.
OneFile == \A f, g \in included : f = g
OverflowIsReal ==
    error = "overflow" =>
        IF IsBin THEN OneFile => Origin + JumpLen + TextLen + DataLen + BssLen >= 65504
        ELSE TextLen >= 65520 \/ DataLen + BssLen >= 65504

\* A failed link leaves no output, except when the entry symbol is missing
\* (aout16.c 14-18: it exits with the file it opened in place).
FailureRemovesOutput ==
    pc = "failed" => out = "removed" \/ DefinedIn("_start") = {}

\* The recursion and the loops end.
Ends == <>Terminated
=============================================================================
