------------------------------- MODULE AsSource -------------------------------
(***************************************************************************)
(* What an assembly source says, apart from how as reads it: the segment   *)
(* of each line, the label each local label belongs to, where a name is    *)
(* defined and as what, the sizes of the segments after each line, and the *)
(* address or the value of each name.  Every operator takes the source p,  *)
(* a sequence of statements.                                               *)
(*                                                                         *)
(* Orderly(p) says which sources mean something: outside each of its parts *)
(* there is a source that as assembles and gets wrong without a word.      *)
(***************************************************************************)
EXTENDS Integers, Sequences, FiniteSets, FiniteSetsExt, SequencesExt

CONSTANT
    Locals          \* the strings that start with a dot

NoName == <<>>
IsLocal(n) == n[1] \in Locals
Segments == {"text", "data", "bss"}

(* An expression is by * name + here * $ + k, each part optional; arith says that an
   operator other than + is in it.  A product, a quotient or a remainder of numbers is
   part of by, here or k; those of a name or of $ that are not of this form (TOKEN_DIV
   and TOKEN_MOD of parse_expr()) are left out.  Statements:
     [op |-> "section", seg]      [op |-> "label", name]
     [op |-> "extern", name]      [op |-> "global", name]
     [op |-> "equ", name, e]      name equ e
     [op |-> "labelequ", name, e] name: equ e
     [op |-> "res", e, unit]      resb, resw
     [op |-> "emit", lead, w, mode, disp, e]  lead bytes, and a value of w bytes: an
                       instruction (its opcode, its operand), db (mode 0), dw, dd
     [op |-> "times", e, body]
     [op |-> "unknown"]           a mnemonic that is not in _opcodes *)

IsName(n) == n \in Seq(STRING) /\ Len(n) = 1
IsExpr(e) == /\ e.name = NoName \/ IsName(e.name)
             /\ e.by \in Int /\ e.here \in Int /\ e.k \in Int /\ e.arith \in BOOLEAN
             /\ e.by # 1 => e.arith

IsPlain(s) ==
    \/ s.op = "section" /\ s.seg \in Segments
    \/ s.op \in {"label", "extern", "global"} /\ IsName(s.name)
    \/ s.op \in {"equ", "labelequ"} /\ IsName(s.name) /\ IsExpr(s.e)
    \/ s.op = "res" /\ IsExpr(s.e) /\ s.unit \in {1, 2}
    \/ /\ s.op = "emit" /\ IsExpr(s.e)
       /\ s.lead \in Nat /\ s.w \in Nat /\ s.mode \in 0..3 /\ s.disp \in Int
       /\ s.e.name # NoName => s.w >= 1
       /\ s.mode = 2 => s.w = 1 /\ s.disp = -1      \* emit_disp8()
       /\ s.mode = 3 => s.w = 2 /\ s.disp = -2      \* emit_disp16()
    \/ s.op = "unknown"

IsStatement(s) == IsPlain(s) \/ (s.op = "times" /\ IsExpr(s.e) /\ IsPlain(s.body))

IsSource(p) == /\ Len(p) \in Nat /\ DOMAIN p = 1..Len(p)
               /\ \A l \in DOMAIN p : IsStatement(p[l])
-----------------------------------------------------------------------------
(* Segments and scopes. *)

Entering == {"label", "labelequ", "equ", "extern", "global"}
Defining == {"label", "labelequ", "equ"}

\* The statement that makes bytes: what times repeats.
Body(s) == IF s.op = "times" THEN s.body ELSE s

\* The segment after line l.  Code above the first section goes to the segment the pass
\* before ended in: out.c never resets _seg.
Sections(p, l) == {k \in 1..l : p[k].op = "section"}
SegAt(p, l) ==
    IF Sections(p, l) # {} THEN p[Max(Sections(p, l))].seg
    ELSE IF Sections(p, Len(p)) # {} THEN p[Max(Sections(p, Len(p)))].seg
    ELSE "none"

\* A local label belongs to the last name before it that is not local: add_symbol() makes
\* every name it enters the root of the local labels that follow.
Roots(p, l) == {k \in 1..l : p[k].op \in Entering /\ ~IsLocal(p[k].name)}
Root(p, l) == IF Roots(p, l) = {} THEN NoName ELSE p[Max(Roots(p, l))].name
Scoped(p, l, n) == IF n # NoName /\ IsLocal(n) THEN Root(p, l) \o n ELSE n
-----------------------------------------------------------------------------
(* Definitions. *)

DefLines(p, n) == {l \in DOMAIN p : p[l].op \in Defining /\ Scoped(p, l, p[l].name) = n}
Defined(p, n) == DefLines(p, n) # {}
DefLine(p, n) == CHOOSE l \in DefLines(p, n) : TRUE
GlobalLines(p, n) == {g \in DOMAIN p : p[g].op = "global" /\ p[g].name = n}

IsConst(p, n) == Defined(p, n) /\ p[DefLine(p, n)].op # "label"
IsNumber(p, n) == /\ IsConst(p, n)
                  /\ p[DefLine(p, n)].e.name = NoName /\ p[DefLine(p, n)].e.here = 0

\* A name that is made global before it is defined, or not defined, is left to the linker.
Kind(p, n) ==
    IF IsConst(p, n) THEN "const"
    ELSE IF Defined(p, n) /\ (\A g \in GlobalLines(p, n) : g > DefLine(p, n)) THEN "label"
    ELSE IF GlobalLines(p, n) # {} THEN "global"
    ELSE "extern"
-----------------------------------------------------------------------------
(* Sizes and values.  f[l] is what is known after line l, a the size of its segment. *)

ConstIn(p, f, l, n) ==
    IF n = NoName THEN 0
    ELSE IF IsNumber(p, n) THEN p[DefLine(p, n)].e.k
    ELSE IF IsConst(p, n) /\ DefLine(p, n) < l THEN f[DefLine(p, n)].val
    ELSE 0
ExprIn(p, f, l, e, a) == e.by * ConstIn(p, f, l, e.name) + e.here * a + e.k

SizeIn(p, f, l, s, a) == CASE s.op = "emit" -> s.lead + s.w
                           [] s.op = "res" -> ExprIn(p, f, l, s.e, a) * s.unit
                           [] OTHER -> 0
TimesIn(p, f, l, a) == IF p[l].op = "times" THEN ExprIn(p, f, l, p[l].e, a) ELSE 1

\* Does the statement leave a symbol record?
Recorded(p, l, s) ==
    \/ s.op = "global"
    \/ /\ s.op = "emit" /\ s.e.name # NoName
       /\ LET k == Kind(p, Scoped(p, l, s.e.name))
          IN k \in {"extern", "global"} \/ (k = "label" /\ s.mode = 1)

\* after: the sizes of the segments, the value of the constant the line defines, and the
\* number of symbol records.
AfterLine(p, f, l) ==
    LET b == f[l - 1]
        g == SegAt(p, l)
        a == IF g = "none" THEN 0 ELSE b.size[g]
        s == Body(p[l])
        n == TimesIn(p, f, l, a)
    IN [size |-> IF g = "none" THEN b.size ELSE [b.size EXCEPT ![g] = a + n * SizeIn(p, f, l, s, a)],
        val  |-> IF p[l].op \in {"equ", "labelequ"} THEN ExprIn(p, f, l, p[l].e, a) ELSE 0,
        syms |-> b.syms + (IF Recorded(p, l, s) THEN n ELSE 0)]

Nothing == [size |-> [g \in Segments |-> 0], val |-> 0, syms |-> 0]
After(p) == LET f[l \in 0..Len(p)] == IF l = 0 THEN Nothing ELSE AfterLine(p, f, l) IN f

Address(p, n) == LET d == DefLine(p, n) IN After(p)[d - 1].size[SegAt(p, d)]
ConstOf(p, n) == After(p)[DefLine(p, n)].val
-----------------------------------------------------------------------------
(* Sources that mean something. *)

\* The expressions that must be known before the line is sized, and those that need not.
Sizing(p, l) ==
    IF p[l].op \in {"equ", "labelequ", "res"} THEN {p[l].e}
    ELSE IF p[l].op # "times" THEN {}
    ELSE IF p[l].body.op = "res" THEN {p[l].e, p[l].body.e}
    ELSE {p[l].e}
Operand(p, l) == IF Body(p[l]).op = "emit" THEN {Body(p[l]).e} ELSE {}
NamesAt(p, l) ==
    ({e.name : e \in Sizing(p, l) \cup Operand(p, l)} \ {NoName})
    \cup (IF p[l].op \in Entering THEN {p[l].name} ELSE {})

\* Only when a pass enters a name is there a second sizing pass, in which names that
\* nothing defines become external (as.c:77, symbols.c:96).
Named(p) == \E l \in DOMAIN p : p[l].op \in Entering
\* Code above the first section has a segment in the later passes.
HasSection(p) == Sections(p, Len(p)) # {}
DefinedOnce(p) ==
    \A k, l \in DOMAIN p : p[k].op \in Defining /\ p[l].op \in Defining
                           /\ Scoped(p, k, p[k].name) = Scoped(p, l, p[l].name) => k = l
\* No local label comes before the first name (symbols.c:22).
Rooted(p) ==
    \A l \in DOMAIN p : \A n \in NamesAt(p, l) : IsLocal(n) => Root(p, l) # NoName
\* A local label that is not defined may be entered under one name and sought under
\* another, and becomes 0.
LocalsDefined(p) ==
    \A l \in DOMAIN p : \A e \in Operand(p, l) :
        e.name # NoName /\ IsLocal(e.name) => Defined(p, Scoped(p, l, e.name))
ExternsElsewhere(p) ==
    \A l \in DOMAIN p : p[l].op = "extern" =>
        ~IsLocal(p[l].name) /\ ~Defined(p, p[l].name) /\ GlobalLines(p, p[l].name) = {}
\* A record takes its segment from the global statement, its offset from the label.
GlobalsHere(p) ==
    \A l \in DOMAIN p : p[l].op = "global" =>
        LET n == p[l].name
        IN /\ ~IsLocal(n) /\ ~IsConst(p, n) /\ GlobalLines(p, n) = {l}
           /\ Defined(p, n) => SegAt(p, DefLine(p, n)) = SegAt(p, l)
\* What a size is made of is known when it is needed: a constant of an earlier line, or
\* one that is a number.  The passes do not end with the values (as.c:77).
SizesKnown(p) ==
    \A l \in DOMAIN p : \A e \in Sizing(p, l) :
        e.name # NoName =>
            /\ ~IsLocal(e.name) /\ IsConst(p, e.name)
            /\ IsNumber(p, e.name) \/ DefLine(p, e.name) < l
\* times repeats bytes, all alike.
Repeats(p) ==
    \A l \in DOMAIN p : p[l].op = "times" =>
        \/ p[l].body.op = "emit"
        \/ p[l].body.op = "res" /\ p[l].body.e.here = 0
\* Nothing is negative but what is refused, and the counts fit 16 bits (devkit.h:56).
Fits(p) ==
    /\ \A l \in 0..Len(p) : /\ \A g \in Segments : After(p)[l].size[g] <= 65535
                            /\ After(p)[l].syms <= 65535
    /\ \A l \in DOMAIN p : Body(p[l]).op = "res" =>
          ExprIn(p, After(p), l, Body(p[l]).e, After(p)[l - 1].size[SegAt(p, l)]) >= 0

Orderly(p) ==
    /\ Named(p) /\ HasSection(p)
    /\ DefinedOnce(p) /\ Rooted(p) /\ LocalsDefined(p)
    /\ ExternsElsewhere(p) /\ GlobalsHere(p)
    /\ SizesKnown(p) /\ Repeats(p) /\ Fits(p)
=============================================================================
