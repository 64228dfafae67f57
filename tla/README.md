# Verification of the HCSystem development kit

This directory holds TLA+ models of the HCSystem software development kit: an
assembler, an archiver, a linker, two C compilers and a C library for the
Intel 8086.  The models are checked with TLC; the safety properties of the heap,
the streams, the linker, of libraries, of the compiler's symbol table and
conditional compilation and of its driver are also proved with TLAPS, for every
value of the constants.

All line numbers refer to `src/` at the commit this directory belongs to.

## 1. The system

    .c --scc/cc0--> .s --as--> .o --ar--> .a
                                 \          \
                                  +----------+--ld--> .com .sys a.out pcboot

The tools are separate sequential programs that meet only in files: assembly
text, object files (a header, text, data, and 64-byte symbol records) and
archives of objects.  The programs they produce link against `lib/libc`, which
runs on DOS.  There are no threads and no signal handlers that share state.
What is hard in this code is therefore not concurrency but *protocol*: several
passes or loops over the same input which must agree with each other without
sharing a record of what they did, state that outlives the call it was made
in, fixed-size tables, and 16-bit arithmetic.

| component | state it keeps | operations | hard | what makes it correct |
|---|---|---|---|---|
| heap, `lib/libc/{malloc,free,realloc,calloc}.c` | `_arena`, `_asize`, `freep`, the block headers in the arena | `malloc`, `free`, `realloc`, `calloc`; calls `_sbrk()` | a roving pointer that `defrag()` may leave inside a merged block; extension and retry; out of memory half-way through `realloc()` | blocks tile the arena, no two clients share a word, nothing is lost, `NULL` only when `_sbrk()` refused, calls end |
| streams, `lib/libc/f*.c`, `setvbuf.c`, `ungetc.c`, `tmpfile.c` | `_files[]`: fd, mode, buffer, `ptr`, `ch` (the character put back), `iom` | `fopen fdopen freopen fclose fread fwrite fgetc ungetc fseek ftell fflush setvbuf` | a stream that turns from reading to writing, a put-back character at the end of the file, a partial `_write()`, slots and descriptors that leak | the program reads and writes the bytes it would have without a buffer |
| formatting, `vformat.c`, `vscan.c` | the position in source and destination | `printf` and `scanf` families | bounds of `sprintf`, end of input while scanning | what is printed scans back; nothing beyond the destination |
| strings, `str*.c`, `mem*.c`, `qsort.c`, `bsearch.c`, `strtol.c` | none (`strtok()` keeps its position) | the ANSI functions | overlapping moves, boundaries, 16-bit overflow | their definition in the C standard |
| start-up, `exit.c`, `atexit.c`, `dos/start.asm`, `dos/init.c`, `time.c` | `_exitfn` (one function), `_files[]` | program start and end | the exit function may still write to streams | it runs before the streams are closed |
| `as` | `_symbols[]`, `_header` (sizes), `_seg`, `_out_seg`, `_changed`, `_pass` | parse a line: section, label, `equ`, `extern`, `global`, `resb`, `db/dw/dd`, `times`, instructions | the source is read at least four times, and the sizes one pass computes are the layout another one writes | the header describes the bytes and records that follow; every operand is the final value of its name |
| `ar` | the archive file | `-a`, `-l`, `-f` | sizes kept in 16 bits | what is put in can be taken out |
| `ld` | `_files[]`, `_symbols[]`, `_aout`, the running segment offsets | find the entry, `make_symbol_tree()`, sizes, copy, values, relocate | a recursion that re-walks all objects at every depth; five loops that recompute the same offsets; six output formats | every reference is patched where its object was copied to, with the address the program will see |
| `nm`, `size` | none | print | | |
| `cc0` | `_globals[]`, `_functions[]`, `_locals[]`, labels | two passes over the source, one without output | labels and stack frames must agree between passes; development version | the code computes what the C expression means |
| `scc` | symbol tables (`sym.c`), the `#ifdef` stack and macro buffers (`prep.c`, `scan.c`), expression trees, the operand queue (`gen.c`), label stacks (`stmt.c`), temporary files (`main.c`) | scan, preprocess, parse, fold, generate | two-ended tables; code that is emitted late; nested control flow; a driver that runs other programs and cleans up after them | generated code computes the expression; every jump goes to its own construct; temporary files are removed |

`PROJECT.json` lists each component with its status, and the places where this code is
hard to test.  Built so far: the heap, the linker, the archiver, the assembler, the
streams, and the compiler `scc` from the characters of a file to the execution of the
code it emits, with the driver that runs assembler and linker behind it.

## 2. The plan

Modules in the order they are written.  Each is parameterised by CONSTANTS
with named assumptions and has one action per operation or loop iteration; those
that are proved about have no RECURSIVE operator.

1. `Malloc`, with `AbstractHeap` as its abstract specification, and
   `Malloc_proofs`.  *Done.*
2. `Linker`, and `Linker_proofs`.  *Done.*
3. `AsSource`, what an assembly source says, `Assembler`, the passes over it, and
   `Assembler_proofs`.  *Done.*
4. `Stdio`: the streams of the C library over a file descriptor that may write
   short, with `AbstractStream`, which it must implement, and `Stdio_proofs`.
   *Done.*
5. `SymTab` and `Symbols`: `scc/sym.c`'s two-ended symbol and name tables, and
   `Symbols_proofs`.  *Done.*
6. `IfStack` and `Scanner`: `scc/prep.c` and `scan.c`, and `Scanner_proofs`.
   *Done.*
7. `Tree`, `Expr`, `Stmt`, `Decl`, `CodeGen`, `Machine`, composed in `Compiler`:
   the parser, the trees and their folding, the code generator, and a machine
   that executes the code.  *Done.*
8. `Archive`: `ar`, and `ld`'s `add_library()` and `add_file()`, and
   `Archive_proofs`.  *Done.*
9. `Driver`: `scc/main.c`'s files and child processes, and `Driver_proofs`.
   *Done.*
10. `CC0`: the two passes of `cc0`.  Not begun.

Every safety property of 1, 2, 3, 4, 5, 8 and 9 that a run checks is proved, with the
types of their variables where the invariant rests on them, and so is the
conditional compilation of 6 (section 6).  `TokensRight` and the compiler's
properties (`Computes`, `OneQueued`, `Rejects`, `FunctionsApart`) compare what a
recursive definition computes, and stay with TLC.

## 3. The modules and the code

### Malloc: `lib/libc/{malloc,free,realloc}.c`

| model | code |
|---|---|
| `arena`, `asize`, `freep` | `_arena` (null, `(int *)-1` after a failed `_sbrk()`, or set), `_asize`, `freep` |
| `mem` | the words of the arena; a block's first word is its length, negative when allocated |
| `pc`, `p`, `q`, `tries` | the loop a call is in and its locals (`q` is `defrag()`'s `p`) |
| `owned` | the client: what it may use from each address |
| `hdrs`, `merged` | auxiliary: where the blocks start, and which headers this call's `defrag()` merged away |
| `CallMalloc`, `FirstCall`, `LaterCall`, `WildCall` | `malloc()` up to its search, lines 31-51 |
| `TakeBlock`, `PassBlock` | one turn of the search, 53-74 |
| `SkipAllocated`, `StartRun`, `Measure`, `MergeRun`, `EndDefrag` | the two loops of `defrag()`, 20-29 |
| `SbrkFails`, `Extend` | 75-91 |
| `ReallocCopies`, `ReallocFrees`, `Free` | `realloc()`, `free()` |

An action is one turn of a loop, so a walk that never ends is a behaviour of the
model.  The client writes a word that is no legal header into every word it is
given: a heap that reads the client's data as a header, or writes over it, is
caught by `DataIntact` or goes astray.  `AbstractHeap` is the promise to a
client: a block handed out is disjoint from those it holds, and nothing else
happens to them.  `Malloc` refines it with the identity on `owned`.

`calloc()` adds a `memset()` of the new block and is not modelled separately.
`_sbrk()` is external: it hands out `MaxWords` words, then fails.

### Linker: `ld/{symbol,aout16,bin,ld}.c`

| model | code |
|---|---|
| `job` | the command line: format, `-b`, stack, objects |
| `where`, `value` | `_symbols[]` |
| `included`, `stack` | `output_include`, and the call stack of `make_symbol_tree()` with the cursor of each call |
| `total`, `aout`, `off` | `size` of `output_bin()`, `_aout`, `text_offset`/`data_offset`/`bss_offset` |
| `pieces`, `at`, `patches` | the output file: what was copied where, the file position, the words written over it |
| `TreeRef`, `TreeGlobal`, `TreeNotFound`, `TreeNextFile`, `TreeReturn` | `make_symbol_tree()`, one symbol or one return at a time |
| `AddSizes`, `LayoutAout`, `SizeOfBin`, `LayoutBin`, `Copy`, `AfterData`, `SetValue`, `Relocate`, `Finish` | the loops of `output_aout16()` and `output_bin()` |

The bytes of objects are not represented.  A piece records which segment of
which object was copied to which position, a patch which reference was written
where; `Resolved` compares the two with addresses that are worked out from the
pieces alone, not from the offsets the code keeps.  Of a job it is assumed that
its objects are objects: a label lies in its section or directly behind it, and none
has a name the linker defines itself (`LinkerAssumption`).  `error` is the message of a
failed link: `"no_entry"`, `"undefined"`, `"overflow"` or `"names"`, the last when
`_names`, which holds the names of the files (`job.names` bytes) and of the symbols,
has no room for the next one (`NamesOverflow`, `NAMES_MAX`).

`EndOf` says what `__etext`, `__edata` and `__end` are: in an a.out the rounded ends
of the segments, in a `.com`, `.sys` or boot sector the ends of the sections counted
from the first byte of the file, not from the origin every other address counts from.
`AddressesFit` speaks of every format but v7tiny: there text, data and bss are one
segment (`readme.md:18`, `aout16.c:57`), the code checks text apart from data with
bss, and a program of up to twice 64K is linked without a message (section 4).
`Resolved` compares the words modulo 2^16.  `OverflowIsReal` promises for the binary
formats only that an overflow of one linked file is one: with more, the code counts
some sizes again (section 4).

### Archive: `ar/ar.c`, `ld/ld.c`

| model | code |
|---|---|
| `arc`, `starts` | the library, as cells; where its headers are (auxiliary: only the properties read it) |
| `buffer` | the signature in `buffer[]` of `main()`, which an empty file leaves as it was |
| `pos`, `read` | `aout_offset`, or the position of the file; the members passed |
| `slots`, `left` | `_files[]`; the libraries and objects on the command line of `ld` that are still to come |
| `Open`, `AddMember`, `Close` | `ar -a`, one file per `AddMember` |
| `List`, `ListEnds` | `ar -l` |
| `Load`, `LoadEnds`, `AddFile` | one member of `add_library()`, its end, `add_file()` |

A library says nowhere where its members are: two loops in two programs add up sizes,
and trust whatever is there if it has the right signature.  A file put in may be a
library itself, and a cell in it look like a header.  `ReadsMembers` and
`LoadsInOrder` compare what is read with what was put in, up to the first member whose
size does not fit into 16 bits; `LoadsInOrder` says for each slot of `_files[]` what
is in it, so that nothing is left out before the slots run out.  The slots they fill
are the objects `Linker` begins with.  `add_file()` may find no room for a name in
`_names` (`room` of a job); `add_library()` always does, as the libraries come first
and the names of 128 members have at most 60 bytes each.  An object states its own
length in its header, which is what `as` writes (`ArchiveAssumption`).

### Assembler: `as/{as,parser,symbols,out,error}.c`, `as/target/i86.c`

| model | code |
|---|---|
| `pc`, `pass` | the loop of `main()`; `_pass` |
| `tab` | `_symbols[]`, `_last_root_symbol`, `_changed` |
| `line`, `rep` | the place `parse()` has reached, `parse_times()`'s `qty` |
| `seg`, `header` | `_seg`, `_header` |
| `written`, `bytes`, `recs`, `out` | the output file |
| `Section`, `Label`, `Extern`, `Global`, `Equ`, `Reserve`, `Emit`, `Times` | the branches of `parse()`; `Emit` is one value of `db`, `dw`, `dd` or of an instruction |
| `Refused` | every `error_at()` that depends on the state, and "name list overflow" (`names.c:19`), which any line may end in |
| `SizingEnds`, `OutputEnds` | the ends of a pass in `main()` |

A program is a sequence of statements.  An expression is reduced to what decides
how it is treated: a name times a factor, a multiple of `$`, a constant, and
whether an operator other than `+` occurs.  A name or `$` divided (`/`, `%`) is left
out.

`AsSource` says what a program means, from its statements alone: the segment of each
line, the name each local label belongs to (`Scoped`), where a name is defined and as
what (`Kind`), the sizes of the segments after each line (`After`), and from them the
address or the value of each name.  The properties compare the output with that; the
counters of the assembler have no part in it.  They speak of programs that are
`Orderly` and were not refused.  Each part of `Orderly` is there because `as` takes
programs without it and writes something else, without an error:

| part | what `as` does otherwise |
|---|---|
| `Named` | a program that enters no name has one sizing pass, and the names nothing defines do not become external |
| `HasSection` | without a section, code belongs nowhere and is counted nowhere |
| `DefinedOnce` | a name has the kind of its first definition, and the value of the one that was read last |
| `Rooted`, `LocalsDefined` | a local label without a root, or an undefined one, may be entered under one name and sought under another; its value is 0 |
| `ExternsElsewhere`, `GlobalsHere` | a name declared `extern` and then defined stays external; a record takes its segment from `global` and its offset from the label |
| `SizesKnown` | a size is made of a constant that has not its value yet, and the passes end (`as.c:77`) |
| `Repeats` | `times` reads its line anew each time, so that `$` in a `resb` moves, and repeats definitions too |
| `Fits` | `resb -1` takes back a byte; sizes and counts are 16 bits wide |

Operands may refer to whatever they like, before or after it is defined.

### Stdio: `lib/libc/{fopen,fdopen,freopen,fclose,fread,fwrite,fgetc,fputc,fgets,ungetc,fflush,fseek,ftell,setvbuf,clearerr}.c`

| model | code |
|---|---|
| `st.file`, `there`, `pos`, `lost` | the file, whether it exists, the descriptor's place, whether a `_write()` was short since the stream was opened (auxiliary) |
| `st.can`, `err`, `last`, `acc` | `iom` (the ways, `_FERROR`), `last`, `mode` |
| `st.buf`, `ptr`, `ch` | the bytes of `buf` below `end`, `ptr`, `ch` |
| `open`, `dir` | the program: it has the stream; what it must not do before it flushes or seeks |
| `ret` | the last call and what it returned |
| `Refill`, `Fsync`, `Flushed`, `Openfd`, `Fresh` | `_refill()`, `_fsync()`, `_fflush()`, `_openfd()`, the assignments of `fdopen()` and `freopen()` |
| `Fgetc`, `Fread`, ..., `Freopen`, `Fclose` | the calls of these names; `Fopen` includes a `setvbuf()` before the first other call |
| `Killed` | the program ends without `exit()` |

The program keeps to ISO C: it flushes or seeks between a write and a read, and seeks
between a read and a write; it puts back only after it has read, and seeks to places
that exist: no farther than the end of the file, and no farther than the disk (bytes
that wait for a full disk are part of the file the program believes in; a seek behind
them, again and again, would take the descriptor as far as one likes). What it then
sees is `AbstractStream`: bytes, a position and a character put back, no buffer.
`pos` there is the descriptor's place less what is unread, or plus what is unwritten;
`data` is the file with the unwritten bytes laid over it (`Position`, `Data`, `Dirty`
and `Kept` are the substitutions).  A seek to a place before the first byte, which
`SEEK_CUR` may compute, fails.  There is at least one file and every file fits the
disk (`StdioAssumption`).  Where the library gives less than ISO C asks, the abstract
specification has a clause that says exactly how much less:

* end of file sets the error flag, which only `clearerr()` and `ungetc()` clear:
  no reading or writing after it, whatever `fseek()` did in between
  (`fread.c:19`);
* `fseek(SEEK_CUR)` with unwritten bytes in the buffer goes that many bytes too
  far (`fseek.c:18`, computed before `fflush()`, used after it);
* `fread()` returns 0 and drops the character put back when nothing follows it
  (`fread.c:47`); without a buffer it does not count it (`fread.c:41`);
* `fgets()` returns `NULL` and drops a last line without a newline
  (`fgets.c:46`); a newline put back does not end the line (`fgets.c:36`); without
  a buffer the character put back is overwritten (`fgets.c:42`);
* without a buffer `ftell()` and `fseek()` do not count the character put back;
* `freopen()` forgets what was not written (`freopen.c:41`), and without a path
  what was read ahead.

After a `_write()` that was short, which the call that made it must report,
nothing is promised until the stream is opened again.

### scc: symbol tables, `scc/sym.c`

`SymTab` holds the table as pure operators, named as the functions are.  Two
modules drive it: `Symbols`, declaration by declaration until something is full,
and `Compiler`, through whole files.

| model | code |
|---|---|
| `t.globs`, `t.locs`, `t.nbot`, `t.ntop` | `Globs`, `Locs`, `Nbot`, `Ntop` |
| `t.ent[i]` | entry i of `Names[]`, `Prims[]`, `Types[]`, `Stcls[]`, `Sizes[]`, `Vals[]`, `Mtext[]`; `at` is where its name lies in `Nlist` |
| `t.err`, `t.fatal` | `error()` was called, `fatal()` was called |
| `Object`, `OpenFunction`, `Parameter`, `Declare`, `Define`, `Local`, `Behind`, `Forget` | `decl()`, `pmtrdecls()`, `localdecls()`, in the order in which they touch the table |
| `Include`, `EndInclude` | the loop of `include()`, entered from within `decl()` |
| `own`, `first`, `known`, `stale` | auxiliary: what the program declared, which the properties compare the table with |

`semi()` and `compound()` read the token *behind* a function before `decl()` calls
`clrlocs()`.  If that token stands behind an `#include`, the declarations of the
header are parsed with the parameters and locals of the function still in the table.
An entry's `sig` is the types of a function's parameters and the place of these in the
list of names: `TablesApart` is about its bytes, `SignaturesOwn` about what it says.
A function of more than `MAXFNARGS` parameters is an error.  `stale` marks that time;
the properties say that everything is right again with the end of the header's first
function.

### scc: scanner and preprocessor, `scc/scan.c`, `scc/prep.c`

| model | code |
|---|---|
| `Infile`, `Outer` | the file being read, and `oinfile` and `oc` of every `include()` |
| `Putback`, `Macp` | `Putback`; `Macp[]` with `Macc[]` |
| `pc`, `ask` | where `skip()`, `scanpp()` or `preproc()` is; who called `scan()` or `scanraw()` |
| `Ifdefstk` (`IfStack`) | `Ifdefstk[0 .. Isp - 1]`; `levels` is auxiliary: what the source says |
| `Mtext`, `out`, `errors` | the macros, the tokens the parser gets, the errors reported |
| `Blank`, `InComment`, `Operator`, `Word`, `macro`, ... | one character, or one decision, of `skip()` and `scanpp()` |
| `defmac`, `include`, `ifdefLine`, `elseLine`, `junkln`, ... | the directives |

A name, a keyword or a number is one character.  `CPreprocess` is the reference:
what C makes of the characters of a file, in the phases of the standard
(comments, lines, directives, tokens, replacement), where the code does it all in
one pass with one character of lookahead.  It says where the program gives less
than C asks for; the files of the run keep away from the rest:

* a `//` comment or an open comment in the text of a `#define` swallows what
  follows where the macro is used; a directive behind a comment on its own line
  is one for C only; `# define`, the null directive, function-like macros and
  lines continued with a backslash are not supported, and a `#pragma` or `#` with
  nothing behind it drops the next line;
* operators are pasted together across the end of a macro; a macro that is
  defined again with the same text behind two blanks is reported;
* characters and directives C does not know are reported in text that is left
  out as well; a second `#else` is accepted there; a name behind `#endif` is a
  token;
* an included file may close the `#ifdef` of its includer; one that lacks an
  `#endif` is not reported, and if it ends in text that is left out it is read
  behind its end for ever; a macro that ends with its own name is replayed for
  ever, without coming near the bound on nested macros (`ScanEnds` names these
  two);
* a directive where the name of a directive is expected, and a `#define` at the
  very end of a file, which leaves a buffer uninitialised, are not followed
  (`status = "broken"`).

### scc: the compiler, `scc/{expr,stmt,decl,tree,opt,gen,cg}.c`

| module | code |
|---|---|
| `Tree` | `tree.c`, `opt.c`: trees, folding, reordering, and the calls of the code generator that `emittree()` makes |
| `Expr`, `Stmt`, `Decl` | the parser, one operator per function, from a parser state to the next |
| `CodeGen` | `gen.c`: `Acc`, the queued operand (`q`), comparison (`cmp`) and test (`bool`); `cg.c`: the instructions |
| `Machine` | external: the instructions of an 8086 that are emitted, and what assembler, linker and `start.asm` do for one file |
| `Compiler` | `top()` parses one declaration; each call it makes of the code generator is an action; at the end of the file the code runs, one instruction per action |
| `CSource`, `MCCompiler` | the reference: programs as trees, the tokens they are written with, and what C says they compute |

An operand is queued and emitted by the operation that needs it, so that code is
generated later than it is asked for; the accumulator, the stack and the labels
are right only if every path agrees with every other.  The run does not look at
the code at all: it executes it and compares the memory at the end.

Where the compiled program is not what C says, `CSource` leaves the outcome open
or the files of the runs keep away:

* the product of a literal 0 divides by zero in the compiler (`Trapped`);
* the third expression of `for` is generated without a final `commit()`
  (`stmt.c:119`): a comparison there is emitted with the code behind it;
* `genadd()` of a `struct` pointer and an `int` whose left operand is not simple;
  a compound assignment evaluates the place twice;
* `++` and `--` of an automatic `char` touch `[bp+1]`, a prefix one of `*p`
  emits `mov bx,[ax]`, one of a `char` outside the functions works on a word (one of
  a static local works on its byte);
* a division of a negative number by a literal power of two rounds down, and
  a negative difference of pointers is unscaled with a logical shift;
* the value of an assignment to a `char` is not truncated; `unsigned` is a
  pointer to `int`;
* `findmem()` walks on into the members of the next structure; a member may not
  have the name of a global; a `far` function cannot be defined (its own
  prototype is "redefined"); `int x; extern int x;` emits `x` twice; `initlist()`
  takes any token for the closing brace.

For `x op= e` the compiler makes one tree of the place `x` and uses it twice, in the
assignment and in the value: what `opt.c` does to it in place it does twice, so that
the operands of a sum are exchanged and exchanged back.  `Share` marks such trees.

After an error the model stops: the program parses on, but its output is thrown
away.

### scc: the driver, `scc/main.c`

| model | code |
|---|---|
| `fs` | the files; the contents say where they come from: `Obj(Code(Text(n)))` is the source `n`, compiled and assembled |
| `had`, `args`, `O` | the files at the beginning, the command line (auxiliary: `had` is only read by the properties) |
| `i`, `files`, `errors` | `i` of `main()`; `Files[]` with `Temp[]` up to `Nf`; whether `Errors` is 0 |
| `pc`, `said` | where it is, and the message it ends with |
| `OpenSource`, `FirstError`, `Fatal`, `EndOfSource` | `compile()` up to `program()`, the first `error()` with its `cleanup()`, `fatal()`, the rest of `compile()` |
| `AssembleCompiled`, `AssembleSource`, `TestAssembly` | `assemble()` for the two kinds of files, and the loop of `-t` |
| `FatalDefinition` | a macro of `-D` that is longer than the list of names (`O.longdef`): `fatal()` before `Basefile` is set, when `cleanup()` removes nothing |
| `TakeObject`, `Link`, `Return` | the third branch of `main()`, `link()`, and its end |

`i86-as` and `i86-ld` take their output away before they read anything and, when
they fail, leave it removed, or (the linker, without `_start`) unfinished; if they
cannot be started nothing changes.  `LeavesWhatWasAsked` compares the files at the
end with those at the beginning: a run that succeeds has made each product from
the sources as they were, in their order, provided no file on the command line is
named as the product of another; one that fails leaves no more than it says.  The
properties say how far the promise goes, and where it ends:

* the objects of sources are the driver's: `scc a.o a.c` overwrites and removes
  the user's `a.o`, and an error in `a.c` removes it even with `-S`;
* when the assembler fails its input stays, and the next run refuses to overwrite it;
  so does the empty one of a source whose `-D` macro is too long; the objects of
  earlier sources stay whenever a later step fails;
* `-c -o out` writes every object to `out`, so that the last stays;
* `-t` ends successfully whatever errors there were, and never ends with an
  assembly file (`DriverEnds` names it).

## 4. The runs

Every run takes about a minute or less, `stdio` and `assemble` two or three, and all but the
violation explore their models completely.

| run | shows | bounds |
|---|---|---|
| `malloc` | all sequences of `malloc`, `realloc` and `free`: `Tiling`, `AllocatedIsHandedOut`, `DataIntact`, `ReallocKeeps`, `GrowOnlyWhenFull`, `NullOnlyWhenRefused`, the refinement `KeepsPromise`, and `CallsEnd` | 9 words; requests of 1, 2 and 4 words, one of odd bytes, below, at and above `THRESHOLD`. Enough for three blocks, a split, a merge of a run, an extension after a merge, and the search that hangs |
| `malloc_zero` | requests of no bytes: `AbortOnlyOnEmptyArena` | 7 words |
| `link` | `Resolved`, `LinksWhatIsReferenced`, `NotFoundMeansUndefined`, `FailureRemovesOutput`, `AddressesFit`, `OverflowIsReal`, `Ends` | every list of up to three of eight objects, alone and after a start-up file, in four formats; a table of 11 names, which four names besides the linker's own seven and `_start` fill; pairs of objects one byte below, at and above 64K; `.com` files of one and of two large objects; v7tiny links near and above 64K, checked by `Resolved` only; names of files that leave room in `_names` for two, one, no or not even the linker's own names |
| `archive` | `ReadsMembers`, `LoadsInOrder` | every library of up to three files, among them two objects, a text, an empty file, a library, and an object of one cell more than a size can hold (four); loaded up to twice in front of up to two objects, into six slots, which some of them overflow; room for the names of one or two objects; libraries made twice |
| `assemble` | of orderly sources `HeaderMatches`, `OperandsRight`, `RecordsRight`; of all of them `Ends` | 5000 programs of up to 16 lines from templates with every statement of a pool in every slot; nine names |
| `stdio` | `LinesAreOut`, and the refinement `KeepsPromise` | a buffer of 3 bytes, a disk of 7; files of 0 and 7 bytes, strings of 2 and 7: within a buffer, past one whole buffer, and across the end of the disk; seeks to two places. `VIEW` leaves `ret` out: no call depends on it, and the step that sets it is checked |
| `scan` | `TokensRight`: tokens and errors are those of `CPreprocess`; `FrozenWhenLeftOut`; `ScanEnds` | all texts of up to five characters of comments and blanks, all runs of three operator characters, all sequences of up to five lines of conditions, of up to three macro definitions and uses, of up to four lines with `#include`s of four headers and conditions. Two macros at a time and three levels of `#ifdef`, so that both bounds are met |
| `symbols` | `TablesApart`, `ScopesRight`, `SignaturesOwn` | every sequence of declarations of two names, of lengths 2 and 3 with their final 0, and two types, with up to two parameters (`MAXFNARGS` is 2) and locals and one header open, in a table of six entries and a list of 36 bytes: either may fill first, from either end |
| `compile_expr` | `Computes`, `OneQueued` | every binary operator over pairs of eight operands (global, local, static, `int`, `char`, pointer, literal, call), all pairs of nine operators and `&&`, `||`, in both shapes, unary operators, assignments and increments over fourteen kinds of places, compound assignments to a sum of two variables, pointer arithmetic and comparison, conditions |
| `compile_stmt` | `Computes`, `Rejects`, `FunctionsApart`, `CompilerEnds` | each loop with each test, step and body of a pool, switches with and without default and fall-through, loops in switches and switches in loops, declarations of every kind, calls near, far and through pointers, increments of static bytes next to each other, and some forty files the language forbids |
| `driver` | `KeepsUsersFiles`, `LeavesWhatWasAsked`, `DriverEnds` | every command of one or two of six files, with whichever of the six are there, linked, with `-c`, `-S`, `-t` and several `-o`; seven commands of three files, one more than `MAXFILES`; a name too long for any command. Every compilation may fail, at its first error or later, every other program in each way it can |

`link`, `assemble`, `scan` and the compiler's runs are sequential once their input
is chosen: the runs are exhaustive over inputs, and every input is followed to
its end.  The templates were chosen so that each kind of name (label, local
label, constant, external, global, unknown) is used before and after its
definition, from each segment; the expressions so that each pair of operators
meets in each order with operands that are simple (a queued operand) and not (a
value in the accumulator, or on the stack).

### Violations

This run checks what the documentation says, and ends in a counterexample.

| run | property | what happens |
|---|---|---|
| `link_v7tiny` | `Resolved` | `aout16.c:197`: in a v7tiny link a reference from data is patched `_aout.text` bytes too far, because `data_offset` already counts the text |

Nine more disagreements are known, which the properties or the inputs of the
passing runs keep away from:

* `opt.c:39`: `fold2()` divides by the literal 0 of `0*5` to see whether the
  product overflows, before `reduce()` ("`0*x -> 0`", line 100) sees it;
* `ar.c:51`: `-a`, "append file to archive", opens the archive with `wb+`: what
  was in it is gone before `fseek()` looks for its end;
* `as.c:77`: passes repeat only for new names; with `resb b`, `b equ c`, `c equ 4`
  the header says 2 bytes where 6 are written;
* `bin.c:38`: the sizes of all objects so far are added again for every later one;
  a `.com` of 40K in two objects is refused for overflow (`OneFile`);
* `bin.c:49`: `__etext`, `__edata` and `__end` do not count the origin: in a `.com` they
  are 256 less than the address of what stands there (`EndOf`);
* `aout16.c:36`: of a v7tiny link text is checked and data with bss, but not all three
  together, which share one segment (`Resolvable`, `AddressesFit`);
* `bin.c:92`: `-b` with a binary format appends one byte, because `_aout` is never
  filled there;
* `symbols.c:46`: a name declared `extern` becomes the root of the local labels
  behind it;
* `parser.c:241`: `resd`, which `readme.md:153` lists, cannot be reached.

`CallsEnd` excludes `Hung` on purpose: `defrag()` may merge the block `freep`
points to into its predecessor, and if nothing fits then, `malloc()` circles for
ever.  `HungForever` says that it never leaves this state.

## 5. Fairness

`Malloc`: weak fairness of a step of the call in progress; none of the client, which
may stop calling.  The code is sequential, and a call that has begun runs. `Linker`,
`Assembler`, `Scanner`, `Driver`: weak fairness of the next step; the programs run
until they exit, and the programs the driver runs are among those that do.  `Compiler`
states the same with what enables a step written out (`Fairness`): the compiler and
the machine go on until the run has ended. `Stdio`, `Symbols` and `Archive` have only
safety properties.  No other fairness is used.

## 6. What is proved

`Malloc_proofs` proves, for every size of memory, `THRESHOLD`, growth factor of
at least 2 and set of request sizes (`MallocAssumption`), all safety properties
of `Malloc` that the runs check, that a hung search stays hung, and that the
heap implements `AbstractHeap`.

The properties are not inductive by themselves.  `IInv` adds

* `ArenaInv`: when there is an arena, and that one of no words is never left
  but by aborting;
* `CallInv`: what the call in progress has in its locals;
* `FreepInv`: `freep` points to a block, or, until the call ends, to a header
  `defrag()` merged away;
* `MergedInv`: those headers still lead forward to a block, and none is large
  enough to be allocated from: that is why the stale `freep` does no harm;
* `SearchInv`: the blocks between `freep` and `p` are too small; so when `p` has
  come round nothing fits;
* `DefragInv`: behind `q` no two free blocks are neighbours;
* `GrowInv`: when the arena is extended both hold of all blocks.

There is one lemma per action (`TakeBlockStep`, `MeasureStep`, ...), with one
step per part of `IInv`.  `Inductive` collects them, and each theorem follows
from it in a few lines.  `HeapKeepsPromise` shows that every step of `Malloc`
is a step of `AbstractHeap` or leaves `owned` alone, which needs `Tiling` and
`AllocatedIsHandedOut`.

`Linker_proofs` proves, for every list of objects, every format and every size of the
symbol table (`LinkerAssumption`), all safety properties of `Linker`.  The exception
is the one the violation shows: in a v7tiny link `LinkIsRight` needs `Resolvable`,
that no data refers to a symbol and that the three segments together stay within 16
bits.  For the other formats `Resolvable` says nothing.  Most of the properties
speak of a link that has ended; the invariant `LinkInv` says for each loop what it
has done up to its cursor, and what the loops before it have left:

* `Shape`: types, the cursor of the running loop, and when there can be an error;
* `Tree`: what is in the table is where it says, every file that is linked is one that
  is needed, and every symbol that a call of `make_symbol_tree()` has passed is settled.
  As each call on the stack goes through all files again, the one at the bottom has
  passed everything when it returns: that is why the recursion misses nothing;
* `Measured`, `LaidOutWhenSo`: the sizes so far are those of the files passed, the
  layout is made of all of them, and it fits;
* `Copied`: the pieces in the output are the segments of the files passed, each behind
  those of the files before it;
* `OffOK`, `ValuesOK`: at file `f` the three running offsets are the sums of the sizes of
  the linked files before it (`OffAt`), and a name that was passed has the value of one of
  its definitions;
* `RelocOK`, `StartOK`: each reference passed is patched, and so is the jump to `_start`.

The loops agree because each adds up the same sums over the same files in the same
order.  The lemmas this needs come first: the sum of natural numbers over a finite set
(`SumFunctionOnSet` of the community modules) is one, grows by what is added, and is
no less than that of a part (`SumOfNats`).  `SizesSuffice` leaves v7tiny out, as
`AddressesFit` does.  The library states induction for an
operator `P(_)`, which cannot be instantiated here; these proofs, and those of
`Stdio_proofs` and `Assembler_proofs`, derive it from the well-founded order of the
natural numbers as a statement on sets of numbers, and use it by naming the set of the
numbers they are about.

`Assembler_proofs` proves, for every set of sources and every size of the symbol table
(`AssemblerAssumption`: the sources are sequences of statements), that the table, the
counters and the output keep their types (`TypeCorrect`), and of every orderly source
that is assembled: the sizes in the header are those of what follows it
(`HeaderRight`), each statement's bytes stand where its line says, with the value its
operand has there (`OperandsAreRight`), and the symbol records are those it calls for,
each once (`RecordsAreRight`).  The invariant `IInv` has three parts, besides types,
which hold of orderly sources until something is refused:

* `TableOK`, what the table knows in each pass.  In the first it has the names of the
  lines read (`PassOK`); every name of one part and every name the program defines has
  the kind the program gives it, from the moment it is entered (`KindsOK`); from the second
  pass on constants of earlier lines have their values (`ConstsOK`), so that sizes are
  right in every pass but the first; and in a pass that entered nothing new, everything
  defined above the line at hand has its value and segment (`ValuesOK`).  `LastOK` says
  that the root of the local labels is the last name above, except in the one pass
  where a name that nothing defines has just been made external and became the root
  instead (`Astray`): that pass has entered a name, so another follows, and what was
  entered in it under a wrong root is not a name of the program.
* `CountOK`: the counters of each segment are `After` of the line above, and so many
  repetitions of this one; so are the records', in a pass that enters nothing.
* `OutputOK`: what was written are the pieces of the lines passed in the segments
  written so far, all of them, each at its place, and likewise the records, none
  twice.

`ValuesOK` is where the end of the sizing passes is used: the last one entered
nothing, so every address in the table was found in a pass whose sizes were right, and
the output passes, which lay out the same sizes, do not change it.
There is one lemma per kind of statement and part of the invariant (`EmitTable`,
`EmitCount`, `EmitOutput`, ...); `ParseHolds`
collects them for a line, `NextHolds` adds the ends of the passes.

`Stdio_proofs` proves, for every size of the buffer and of the disk and all files,
strings, modes and places (`StdioAssumption`), that a complete line never waits in the
buffer of a line-buffered stream (`LinesOut`) and that `Stdio` implements
`AbstractStream` (`StreamIsKept`): a program cannot tell that there is a buffer,
except where the abstract specification says so.  The invariant `IInv` says

* `Stream`: types, and that what was used of the buffer is in it and that it fits;
* `Fits`: the file fits the disk, and the descriptor is at most a buffer behind the
  end of the disk;
* `Sound`, unless a `_write()` was short: the last call is in the direction the
  program keeps to; only a reader has a character put back; when it may do either,
  nothing waits in the buffer; the error flag means the end of the file; and `Behind`:
  what is unread in the buffer and what follows the descriptor are together what
  follows the program's position in the file;
* `Shut`: `fclose()` leaves nothing behind.

`Behind` is what makes the buffer invisible to a reader.  A writer's `Data` is the
file with the waiting bytes laid over it, and `_fsync()` may cut it only where `ret`
reports it. There is one lemma per call (`FreadKeeps`, `FseekKeeps`, ...) which shows
both that `IInv` survives and that the call is a step of `AbstractStream` or leaves it
alone.  The lemmas about `First`, `After`, `Overwrite`, `Refill`, `Fsync` and the
bytes taken one by one on which they rest come first; `Fgets` is the one that needs
induction, over the bytes of a line.

`Symbols_proofs` proves, for every size of the table and of the list, all names and
types, any number of parameters and of nested headers, that the tables keep their
types (`TypeCorrect`), that their two ends never meet and that no name or signature is
written over another (`EndsNeverMeet`: `TablesApart`).  The assumptions are that a
name takes at least a byte and that no name is empty (`NamesAssumption`), and that
there is room for an entry besides that of the empty name (`BoundsAssumption`).
`TypeOK /\ TablesApart` is inductive as it stands: the bytes below `Nbot` belong to
globals and their signatures, those from `Ntop` to locals, and an allocation checks
the other end before it moves its own. `AddglobApart`, `AddlocApart` and
`SignatureApart` say so of the operators, each action is one of them, and `clrlocs()`
only gives back.  What a new name or a new signature takes lies behind all that is
there (`SigsNewName`, `SigsNewSig`), and every other step leaves the names and
signatures where they are (`SigsKept`).

`ScopesAreRight` and `SignaturesAreOwn` are about what is found in the table, and need
more (`ScopesInv`, `TableIsRight`).  The signature `SignaturesAreOwn` speaks of is
that of the first declaration outside the stale part of a header.  A global is found
by going through the table from entry 0 and a local from the newest, so the table has
to be right as a whole: no two globals except macros share a name (`Tabled`), a name
has an entry exactly when it was declared, and of that type (`Knows`), an entry is a
function's exactly when there was a declaration of one, whose first parameters are in
its signature (`Signs`), and the local entries are the parameters and locals of the
function in hand, in their order (`Holds`).  `Place` ties the declaration in hand to
the table: it is what `pmtrdecls()` and `localdecls()` find when they come to it.
This holds as long as nothing was rejected; afterwards the compiler produces nothing.

`Scanner_proofs` proves, for every depth, every source and every set of headers,
that text is compiled exactly when no `#ifdef` around it leaves it out
(`StackFreezes`, `ScannerFreezes`), although `frozen(1)` looks at one level and
`p_else()` at two.  `StackInv` is the reason: an entry pushed inside text that is
left out is `P_IFNDEF` and stays so until it is popped, because `p_else()` leaves
it alone while the level below is frozen; every other entry says what its own
condition and `#else` say.  `ScannerImplementsStack` shows that each step of the
scanner is a step of `IfStack` or leaves the stack alone.

`Archive_proofs` proves, for all files, any number of members and slots and any
width of a size, that the members put into a library are found in it, in order
and all of them up to the first whose size is lost (`LibrariesReadBack`).  The
invariant has two halves: `Written` says where the header of each member is, and
that the next one is behind its file; `Reading` that a reader who has read `n`
members, all short enough, stands on header `n + 1`.  `PassReads` is the step from
one to the next; a reader that stops without having read them all would stop on a
header, which it does not.  `SlotsAreFilled` proves `LoadsInOrder` from the same
invariant and from `Loading`, which says what is in the slots that the passes over the
library and the objects have filled so far (`InLibraries`, `InObjects`), counted from
the first, and that no slot is skipped.

`Driver_proofs` proves, for every command line, every set of files that are there and
every limit, that the driver touches no file of the user but its output and the
objects of its sources (`UsersFilesKept`), and what a failed run may leave behind
(`NothingHalfDone`).  The assumptions (`DriverAssumption`) are those on the types of
the constants and that `-S` implies `-c`.  `IInv` adds that the assembly file of the
source in hand was not there before (`Opened`: `compile()` has looked), that `Temp[]`
marks only objects of sources (`TempsOwn`), that `-t` changes nothing (`Tested`), and
what the sources so far have made (`Left`); there is one lemma per step.  `AsAsked`
proves the whole of `LeavesWhatWasAsked`, that is, also what a run that succeeds has
made.  `SuccessInv` says it of a run on its way: what is new is the product of a
source passed, or the assembly file of the one in hand (`Accounted`); `Files[]` has
one object for each argument, in their order, and marks those to be removed
(`InOrder`); and if no file is named as the product of another, the sources are as
they were and the products so far are theirs (`Contents`), except after an error,
where the run cannot succeed any more; with `-c -o` the object that stays is that of
the last source (`LastThere`).

Only model-checked: liveness (`CallsEnd`, `Ends`, `ScanEnds`, `CompilerEnds`,
`DriverEnds`), which the prover does not reach; `TokensRight`, whose reference is
recursive; and all of the compiler, whose parser is recursive (`RECURSIVE`), as are
the trees it builds.

## 7. What is not modelled

* Of the modelled components: the scanner of `as` and the bit patterns of its
  opcodes (an instruction is its length and its operand); jumps in data, whose
  distance the linker takes from the text.
* Of the streams: calls that only wrap others (`fputs`, `puts`, `rewind`,
  `getchar`, `fgetpos`, `tmpfile`), the table of streams, `fflush(NULL)`, `_read()`
  on a terminal (which gives less than there is to come), and the carriage
  returns of `_faddcr`.
* Of the compiler: the values and errors of literals, line numbers, `reject()` and
  `Syntoken` (after an error nothing is compiled); a program is handed to
  `Compiler` as tokens, so that scanner and parser are checked apart from each
  other.
* Of the driver: the reading of the options, the pipe mode `-`, `compile()` under
  DOS, which runs `sccmain.exe`, and the libraries `link()` names.
* Of `ar` and `ld`: the options, the directories `ld -l` searches (a library it
  does not find it leaves out silently), and files named on `ar`'s command line
  that do not exist, which `main()` does not look for.
* `cc0`, a second compiler its readme calls in development: planned
  (section 2) and not begun.
* Formatting, scanning, strings, sorting and numbers of the library: pure
  functions without state.  `nm`, `size`, the start-up code in assembly and the
  headers have no state to speak of.
* Limits no file of the runs comes near: the 4096 ints of the pool of tree nodes
  ("expression too complex", `tree.c:22`); the ten errors after which `scc` gives up
  (`error.c:16`; after the first it only goes on reading); requests to `malloc()` whose
  size in bytes, after rounding and growth, is above 32767, where its `int` wraps
  (`malloc.c:35`; `RequestsFit` is assumed of the runs, and no proof uses it).
* A first call of an undeclared function without arguments or with more than
  `MAXFNARGS`: `fnargs()` then keeps types it has not written (`expr.c:169`).
* Undefined behaviour: a heap call after a failed first `_sbrk()` leads to the
  state `wild`, of which nothing is promised; a record for a label above the
  first section has an uninitialized name (`"garbage"`).
