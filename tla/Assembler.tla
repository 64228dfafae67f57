------------------------------ MODULE Assembler ------------------------------
(***************************************************************************)
(* as: from assembly source to an object file.  The source is read in      *)
(* sizing passes until a pass defines no new name; the sizes the last of   *)
(* them counted become the header of the object.  Then it is read three    *)
(* more times, for the text, the data and the symbol records.  Nothing but *)
(* the symbol table is carried from pass to pass: every pass counts the    *)
(* sizes again, and what it counts must agree with what was written.       *)
(*                                                                         *)
(* One action is one call of parse(), on one line (a line that emits       *)
(* several values is several statements, one per value), or the end of a   *)
(* pass.  Several source files are read as one: nothing is reset between   *)
(* them.  A name is a sequence: <<"a">>, or <<".x">> as a local label is   *)
(* written, <<"a", ".x">> as it is kept.                                   *)
(***************************************************************************)
EXTENDS AsSource

CONSTANTS
    Sources,        \* the programs: sequences of statements
    SYMBOLS_MAX     \* slots of _symbols

\* The third pass and all later ones: get_symbol() only asks whether it is the second.
Later == 3

ASSUME AssemblerAssumption ==
    /\ SYMBOLS_MAX \in Nat
    /\ \A p \in Sources : IsSource(p)

VARIABLES
    src,            \* the program
    pc,             \* "size", or the segment of the output that is written
    pass,           \* _pass
    tab,            \* _symbols: sym, their table; last, _last_root_symbol; grew, _changed
    line, rep,      \* the statement parse() reads, and how often times still repeats it
    seg,            \* _seg
    header,         \* _header
    written,        \* the header in the output
    bytes,          \* the text and the data in the output
    recs,           \* the symbol records in the output
    error, out      \* why it failed; the output file

output == <<written, bytes, recs>>
vars == <<src, pc, pass, tab, line, rep, seg, header, output, error, out>>

Zero == [text |-> 0, data |-> 0, bss |-> 0, syms |-> 0]

Init ==
    /\ src \in Sources
    /\ pc = "size" /\ pass = 1
    /\ tab = [sym |-> <<>>, last |-> NoName, grew |-> FALSE]
    /\ line = 1 /\ rep = 0
    /\ seg = "none" /\ header = Zero
    /\ written = Zero /\ bytes = <<>> /\ recs = <<>>
    /\ error = "" /\ out = "open"

Reading == pc \in {"size", "text", "data", "symbols"} /\ line <= Len(src)
\* The statement at hand; what times repeats is read again each time.
Stmt == IF rep > 0 THEN src[line].body ELSE src[line]
At(op) == Reading /\ Stmt.op = op

NextLine == IF rep > 1 THEN rep' = rep - 1 /\ UNCHANGED line
                       ELSE rep' = 0 /\ line' = line + 1

Fail(why) ==
    /\ pc' = "failed" /\ error' = why
    /\ out' = "removed"
    /\ UNCHANGED <<src, pass, tab, line, rep, seg, header, output>>
-----------------------------------------------------------------------------
(* The symbol table.  The operators take it as an argument: a statement may change it
   more than once. *)

Full(t, n) == IF IsLocal(n) THEN t.last \o n ELSE n
Known(t, n) == n # NoName /\ Full(t, n) \in DOMAIN t.sym
KindOf(t, n) == IF Known(t, n) THEN t.sym[Full(t, n)].kind ELSE "unknown"

Overflows(t, n) == ~Known(t, n) /\ Cardinality(DOMAIN t.sym) >= SYMBOLS_MAX

\* Mutant: a value that is entered again counts as a change.
AddAlwaysGrows(t, kind, n, v) ==
    LET f == Full(t, n) IN
    [sym |-> [x \in DOMAIN t.sym \cup {f} |->
                 IF x # f THEN t.sym[x]
                 ELSE [kind |-> IF Known(t, n) THEN t.sym[f].kind ELSE kind,
                       value |-> v, seg |-> seg]],
     last |-> IF IsLocal(n) /\ t.last # NoName THEN t.last ELSE f,
     grew |-> TRUE]

\* add_symbol(): a name that is known keeps its kind.
Add(t, kind, n, v) ==
    LET f == Full(t, n) IN
    [sym |-> [x \in DOMAIN t.sym \cup {f} |->
                 IF x # f THEN t.sym[x]
                 ELSE [kind |-> IF Known(t, n) THEN t.sym[f].kind ELSE kind,
                       value |-> v, seg |-> seg]],
     last |-> IF IsLocal(n) /\ t.last # NoName THEN t.last ELSE f,
     grew |-> t.grew \/ ~Known(t, n)]

\* get_symbol(): in the second pass a name nothing defines becomes external.
Missing(t, n) == n # NoName /\ ~Known(t, n) /\ pass = 2
Get(t, n) == IF Missing(t, n) THEN Add(t, "extern", Full(t, n), 0) ELSE t
-----------------------------------------------------------------------------
(* parse_expr(). mode is its can_extern: 0 constants only, 1 an address, 2 and 3 the
   distance to a byte and a word at off. *)

Here(h) == IF seg = "none" THEN 0 ELSE h[seg]
ModeOf(e, mode) == IF e.arith THEN 0 ELSE mode

\* "can't use label references here.", "can't use extern references here."
Misused(t, e, mode) ==
    KindOf(t, e.name) \in {"label", "extern", "global"} /\ ModeOf(e, mode) = 0

NameValue(t, e, mode, disp, off) ==
    LET k == KindOf(t, e.name)
        v == t.sym[Full(t, e.name)].value
    IN CASE k = "const" -> e.by * v
         [] k = "label" /\ mode = 1 -> v
         [] k = "label" /\ mode \in {2, 3} -> v - off + disp
         [] OTHER -> 0

\* Mutant: a distance is taken from the operand, not from the end of the instruction.
ValueFromOperand(t, e, mode, disp, off) == NameValue(t, e, mode, 0, off) + e.here * off + e.k

Value(t, e, mode, disp, off) == NameValue(t, e, mode, disp, off) + e.here * off + e.k

\* For a label above the first section outreflocal() leaves the name uninitialized.
SegName == [text |-> "__textoff", data |-> "__dataoff", bss |-> "__bssoff", none |-> "garbage"]
Rel == <<"abs", "rel8", "rel16">>

\* Mutant: the record of a local reference names the segment it is in.
RefsOwnSegment(t, e, mode, disp, off) ==
    LET Ref(n, r) == <<[kind |-> "ref", name |-> n, seg |-> seg, off |-> off, disp |-> disp, rel |-> r]>>
        k == KindOf(t, e.name)
    IN CASE k = "label" /\ mode = 1 -> Ref(<<SegName[seg]>>, "abs")
         [] k \in {"extern", "global"} -> Ref(Full(t, e.name), Rel[mode])
         [] OTHER -> <<>>

\* outreference(), outdispreference(), outreflocal(): the record a reference leaves.
Refs(t, e, mode, disp, off) ==
    LET Ref(n, r) == <<[kind |-> "ref", name |-> n, seg |-> seg, off |-> off, disp |-> disp, rel |-> r]>>
        k == KindOf(t, e.name)
    IN CASE k = "label" /\ mode = 1 -> Ref(<<SegName[t.sym[Full(t, e.name)].seg]>>, "abs")
         [] k \in {"extern", "global"} -> Ref(Full(t, e.name), Rel[mode])
         [] OTHER -> <<>>
-----------------------------------------------------------------------------
(* One line. *)

Section ==
    /\ At("section")
    /\ seg' = Stmt.seg
    /\ NextLine
    /\ UNCHANGED <<src, pc, pass, tab, header, output, error, out>>

Label ==
    /\ At("label") /\ ~Overflows(tab, Stmt.name)
    /\ tab' = Add(tab, "label", Stmt.name, Here(header))
    /\ NextLine
    /\ UNCHANGED <<src, pc, pass, seg, header, output, error, out>>

Extern ==
    /\ At("extern") /\ ~Overflows(tab, Stmt.name)
    /\ tab' = Add(tab, "extern", Stmt.name, 0)
    /\ NextLine
    /\ UNCHANGED <<src, pc, pass, seg, header, output, error, out>>

\* x equ e and x: equ e: the latter enters a label and makes it a constant.
Entered(t) == IF Stmt.op = "equ" THEN Add(t, "const", Stmt.name, 0)
                                 ELSE Add(t, "label", Stmt.name, Here(header))

Equ ==
    LET n == Stmt.name
        t == Entered(tab)
        e == Stmt.e
    IN
    /\ At("equ") \/ At("labelequ")
    /\ ~Overflows(tab, n) /\ ~(Missing(t, e.name) /\ Overflows(t, e.name))
    /\ ~Misused(t, e, 0)
    /\ tab' = [Get(t, e.name) EXCEPT
                  !.sym[Full(tab, n)].value = Value(t, e, 0, 0, Here(header)),
                  !.sym[Full(tab, n)].kind = IF Stmt.op = "labelequ" THEN "const" ELSE @]
    /\ NextLine
    /\ UNCHANGED <<src, pc, pass, seg, header, output, error, out>>

\* global: the record says where the name is as far as is known.
Global ==
    LET n == Stmt.name
        t == Get(tab, n)
        f == Full(t, n)
        v == IF Known(tab, n) THEN tab.sym[f].value ELSE 0
    IN
    /\ At("global") /\ ~Overflows(tab, n) /\ ~Overflows(t, n)
    /\ tab' = Add(t, "global", n, v)
    /\ header' = [header EXCEPT !.syms = (@ + 1) % 65536]
    /\ recs' = IF pc = "symbols"
               THEN Append(recs, [kind |-> "global", name |-> f, seg |-> seg, off |-> v])
               ELSE recs
    /\ NextLine
    /\ UNCHANGED <<src, pc, pass, seg, written, bytes, error, out>>

\* A name that is looked up while a constant is expected.
Usable(e) == ~Misused(tab, e, 0) /\ ~(Missing(tab, e.name) /\ Overflows(tab, e.name))

\* The fields of the header have 16 bits.
Grow(h, n) == IF seg = "none" THEN h ELSE [h EXCEPT ![seg] = (@ + n) % 65536]

Write(lead, w, val) ==
    bytes' = IF seg = pc
             THEN Append(bytes, [seg |-> seg, line |-> line, lead |-> lead, w |-> w, val |-> val])
             ELSE bytes

\* reserve() takes a negative size from the count, and writes nothing.
Reserve ==
    LET e == Stmt.e
        n == Value(tab, e, 0, 0, Here(header)) * Stmt.unit
    IN
    /\ At("res") /\ Usable(e)
    /\ tab' = Get(tab, e.name)
    /\ header' = Grow(header, n)
    /\ Write(Max({n, 0}), 0, 0)
    /\ NextLine
    /\ UNCHANGED <<src, pc, pass, seg, written, recs, error, out>>

\* The operand's record and value are made when the bytes before it are out.
Emit ==
    LET e == Stmt.e
        m == ModeOf(e, Stmt.mode)
        h == Grow(header, Stmt.lead)
        rr == Refs(tab, e, m, Stmt.disp, Here(h))
        v == Value(tab, e, m, Stmt.disp, Here(h))
    IN
    /\ At("emit") /\ seg # "bss"
    /\ ~Misused(tab, e, Stmt.mode) /\ ~(Missing(tab, e.name) /\ Overflows(tab, e.name))
    /\ Stmt.mode = 2 => v \in -128..127
    /\ tab' = Get(tab, e.name)
    /\ header' = [Grow(h, Stmt.w) EXCEPT !.syms = (@ + Len(rr)) % 65536]
    /\ recs' = IF pc = "symbols" THEN recs \o rr ELSE recs
    /\ Write(Stmt.lead, Stmt.w, v % (IF Stmt.w = 1 THEN 256 ELSE 65536))
    /\ NextLine
    /\ UNCHANGED <<src, pc, pass, seg, written, error, out>>

Times ==
    LET e == Stmt.e
        n == Value(tab, e, 0, 0, Here(header))
    IN
    /\ At("times") /\ Usable(e) /\ n >= 0
    /\ tab' = Get(tab, e.name)
    /\ rep' = n
    /\ line' = IF n = 0 THEN line + 1 ELSE line
    /\ UNCHANGED <<src, pc, pass, seg, header, output, error, out>>

\* error_at(): the output is removed.  The bytes of _names are not counted: add_name()
\* may run out of them at any statement of a sizing pass; the passes behind these
\* only look up what is there.
Refused ==
    \/ Reading /\ pc = "size" /\ Fail("name list overflow")
    \/ /\ Reading /\ Stmt.op \in {"label", "extern", "global", "equ", "labelequ"}
       /\ Overflows(tab, Stmt.name) \/ (At("global") /\ Overflows(Get(tab, Stmt.name), Stmt.name))
       /\ Fail("symbol list overflow")
    \/ /\ Reading /\ Stmt.op \in {"res", "emit", "times"}
       /\ Missing(tab, Stmt.e.name) /\ Overflows(tab, Stmt.e.name) /\ Fail("symbol list overflow")
    \/ /\ At("equ") \/ At("labelequ")
       /\ ~Overflows(tab, Stmt.name)
       /\ LET t == Entered(tab)
          IN \/ Misused(t, Stmt.e, 0) /\ Fail("can't use references here")
             \/ Missing(t, Stmt.e.name) /\ Overflows(t, Stmt.e.name) /\ Fail("symbol list overflow")
    \/ (At("res") \/ At("times")) /\ Misused(tab, Stmt.e, 0) /\ Fail("can't use references here")
    \/ At("emit") /\ seg = "bss" /\ Fail("invalid segment")
    \/ At("emit") /\ Misused(tab, Stmt.e, Stmt.mode) /\ Fail("can't use references here")
    \/ /\ At("emit") /\ Stmt.mode = 2 /\ ~Misused(tab, Stmt.e, 2)
       /\ Value(tab, Stmt.e, ModeOf(Stmt.e, 2), Stmt.disp, Here(Grow(header, Stmt.lead))) \notin -128..127
       /\ Fail("invalid offset")
    \/ /\ At("times") /\ Usable(Stmt.e) /\ Value(tab, Stmt.e, 0, 0, Here(header)) < 0
       /\ Fail("invalid negative times value")
    \/ At("unknown") /\ Fail("unknown command")
-----------------------------------------------------------------------------
(* The end of a pass. *)

PassEnds == line > Len(src) /\ line' = 1 /\ UNCHANGED <<src, rep, seg, bytes, recs, error>>

\* Mutant: a pass counts on from the sizes of the last one.
SizingEndsNoReset ==
    /\ pc = "size" /\ PassEnds
    /\ IF tab.grew
       THEN /\ tab' = [tab EXCEPT !.grew = FALSE] /\ pass' = Min({pass + 1, Later})
            /\ UNCHANGED <<pc, header, written>>
       ELSE /\ written' = header /\ header' = Zero
            /\ pc' = "text"
            /\ UNCHANGED <<pass, tab>>
    /\ UNCHANGED out

\* Another sizing pass, or the header and the first output pass.
SizingEnds ==
    /\ pc = "size" /\ PassEnds
    /\ header' = Zero
    /\ IF tab.grew
       THEN /\ tab' = [tab EXCEPT !.grew = FALSE] /\ pass' = Min({pass + 1, Later})
            /\ UNCHANGED <<pc, written>>
       ELSE /\ written' = header
            /\ pc' = "text"
            /\ UNCHANGED <<pass, tab>>
    /\ UNCHANGED out

OutputEnds ==
    /\ pc \in {"text", "data", "symbols"} /\ PassEnds
    /\ header' = IF pc = "symbols" THEN header ELSE Zero
    /\ pc' = CASE pc = "text" -> "data" [] pc = "data" -> "symbols" [] OTHER -> "done"
    /\ out' = IF pc = "symbols" THEN "closed" ELSE out
    /\ UNCHANGED <<pass, tab, written>>

Terminated == pc \in {"done", "failed"}

Parse == Section \/ Label \/ Extern \/ Equ \/ Global \/ Reserve \/ Emit \/ Times \/ Refused
Assemble == Parse \/ SizingEnds \/ OutputEnds
Next == Assemble \/ (Terminated /\ UNCHANGED vars)

Spec == Init /\ [][Next]_vars
FairSpec == Spec /\ WF_vars(Assemble)
-----------------------------------------------------------------------------
(* Properties. *)

Kinds == {"label", "const", "extern", "global"}
Symbol == [kind : Kinds, value : Int, seg : Segments \cup {"none"}]
TabOK(t) ==
    /\ t = [sym |-> t.sym, last |-> t.last, grew |-> t.grew] /\ t.grew \in BOOLEAN
    /\ t.sym \in [DOMAIN t.sym -> Symbol]
    /\ \A n \in DOMAIN t.sym : n \in Seq(STRING) /\ n # NoName
    /\ t.last = NoName \/ t.last \in DOMAIN t.sym
    /\ IsFiniteSet(DOMAIN t.sym) /\ Cardinality(DOMAIN t.sym) <= SYMBOLS_MAX

\* The fields of the header have 16 bits.
MaxWord == 65535
Sizes == [{"text", "data", "bss", "syms"} -> 0..MaxWord]
Piece == [seg : {"text", "data"}, line : Nat, lead : Nat, w : Nat, val : 0..MaxWord]
SegNames == {<<SegName[g]>> : g \in Segments \cup {"none"}}
Record ==
    [kind : {"global"}, name : Seq(STRING), seg : Segments \cup {"none"}, off : Int]
    \cup [kind : {"ref"}, name : Seq(STRING) \cup SegNames, seg : Segments \cup {"none"},
          off : Int, disp : Int, rel : {"abs", "rel8", "rel16"}]

TypeOK ==
    /\ pc \in {"size", "text", "data", "symbols", "done", "failed"}
    /\ pass \in 1..Later
    /\ line \in 1..Len(src) + 1 /\ rep \in Nat
    /\ rep > 0 => line <= Len(src) /\ src[line].op = "times"
    /\ seg \in Segments \cup {"none"}
    /\ TabOK(tab)
    /\ header \in Sizes /\ written \in Sizes
    /\ bytes \in Seq(Piece) /\ recs \in Seq(Record)
    /\ out \in {"open", "removed", "closed"}

(* Where the output is, by what was written before it.  A piece is what one statement
   wrote: the bytes of an instruction before its operand and the operand, or the zeros
   that resb or resw reserve. *)

\* The sizes of the text and the data after the first i pieces.
Laid(bs) ==
    LET f[i \in 0..Len(bs)] ==
            IF i = 0 THEN [text |-> 0, data |-> 0]
            ELSE [f[i - 1] EXCEPT ![bs[i].seg] = @ + bs[i].lead + bs[i].w]
    IN f

StmtOf(i) == Body(src[bytes[i].line])
Operands == {i \in DOMAIN bytes : StmtOf(i).op = "emit"}
NameOf(i) == Scoped(src, bytes[i].line, StmtOf(i).e.name)
PosOf(i) == Laid(bytes)[i - 1][bytes[i].seg] + bytes[i].lead

\* The header, which the last sizing pass counted, describes what the output passes
\* wrote: the text, the data, the space for bss and the symbol records (as.c 76-95).
\* ld finds the data and the symbols of an object by these numbers alone.
HeaderMatches ==
    pc = "done" /\ Orderly(src) =>
        /\ written.text = Laid(bytes)[Len(bytes)].text
        /\ written.data = Laid(bytes)[Len(bytes)].data
        /\ written.bss = After(src)[Len(src)].size["bss"]
        /\ written.syms = Len(recs)

\* Each operand in the output is what its name finally stands for, wherever the name is
\* defined: a constant, the address of the label in its segment, or for a jump the
\* distance from the end of the operand to the label; nothing if the linker has to
\* supply it (parser.c 20-57).  A local label belongs to the name before it.
OperandsRight ==
    pc = "done" /\ Orderly(src) =>
        \A i \in Operands :
            LET n == NameOf(i)
                s == StmtOf(i)
                b == bytes[i]
                k == IF n = NoName THEN "none" ELSE Kind(src, n)
                M == IF b.w = 1 THEN 256 ELSE 65536
                rest == s.e.here * PosOf(i) + s.e.k
            IN CASE k = "const" -> b.val = (s.e.by * ConstOf(src, n) + rest) % M
                 [] k = "label" /\ s.mode = 1 -> b.val = (Address(src, n) + rest) % M
                 [] k = "label" /\ s.mode # 1 ->
                       SegAt(src, DefLine(src, n)) = b.seg =>
                           (PosOf(i) + b.w + b.val) % M = (Address(src, n) + rest) % M
                 [] OTHER -> b.val = rest % M

\* The symbol records, which the last pass writes, are exactly those the text and the
\* data written two passes before need, each at the place of its operand; and each name
\* made global in its own segment is exported with its address (out.c 100-212); one
\* that is nowhere defined is exported at 0.
RecordsRight ==
    pc = "done" /\ Orderly(src) =>
        LET Ref(i) == [kind |-> "ref", seg |-> bytes[i].seg, off |-> PosOf(i), disp |-> StmtOf(i).disp,
                       name |-> IF Kind(src, NameOf(i)) = "label"
                                THEN <<SegName[SegAt(src, DefLine(src, NameOf(i)))]>>
                                ELSE NameOf(i),
                       rel |-> Rel[StmtOf(i).mode]]
            refs == {Ref(i) : i \in {j \in Operands : Recorded(src, bytes[j].line, StmtOf(j))}}
            publics == {[kind |-> "global", name |-> src[g].name, seg |-> SegAt(src, g),
                         off |-> IF Defined(src, src[g].name) THEN Address(src, src[g].name) ELSE 0] :
                            g \in {l \in DOMAIN src : src[l].op = "global"}}
        IN ToSet(recs) = refs \cup publics /\ Len(recs) = Cardinality(refs) + Cardinality(publics)

\* There is a pass that defines no new name.
Ends == <>Terminated
=============================================================================
