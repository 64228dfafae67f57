--------------------------- MODULE Assembler_proofs ---------------------------
EXTENDS Assembler, FiniteSetTheorems, SequenceTheorems, WellFoundedInduction, TLAPS

(* The invariants.  They speak of orderly sources, while nothing was refused. *)

\* The names the first l lines enter.
NamesUpTo(p, l) == {Scoped(p, k, p[k].name) : k \in {j \in 1..l : p[j].op \in Entering}}
Names(p) == NamesUpTo(p, Len(p))

\* What line l makes: how often, how much, and where the q-th time (from 0).
Start(p, l) == After(p)[l - 1].size[SegAt(p, l)]
TimesOf(p, l) == TimesIn(p, After(p), l, Start(p, l))
SizeOf(p, l) == SizeIn(p, After(p), l, Body(p[l]), Start(p, l))
Place(p, l, q) == Start(p, l) + q * SizeOf(p, l)

Live == pc # "failed" /\ Orderly(src)
Reads == pc \in {"size", "text", "data", "symbols"}
Settled == pass >= 2 /\ ~tab.grew

\* The second pass made a name external, and made it the root of local labels.
Astray == /\ pass = 2 /\ tab.grew /\ tab.last # NoName
          /\ <<tab.last[1]>> \notin Names(src) /\ tab.last[1] \notin Locals

\* The names line l refers to in its operand, if it is executed.
Referred(p, l) == IF TimesOf(p, l) = 0 THEN {} ELSE {e.name : e \in Operand(p, l)} \ {NoName}

PassOK ==
    /\ pc # "size" => pass >= 2 /\ ~tab.grew
    /\ pass = Later => ~tab.grew
    /\ pass = 1 => /\ DOMAIN tab.sym = NamesUpTo(src, line - 1)
                   /\ DOMAIN tab.sym # {} => tab.grew
    /\ pass >= 2 => Names(src) \subseteq DOMAIN tab.sym

KindsOK ==
    \A n \in DOMAIN tab.sym : Len(n) = 1 \/ n \in Names(src) => tab.sym[n].kind = Kind(src, n)

LastOK == Root(src, line - 1) # NoName => tab.last = Root(src, line - 1) \/ Astray

SeenOK ==
    \A l \in DOMAIN src : pass = Later \/ pc # "size" \/ (pass = 2 /\ l < line) =>
        \A n \in Referred(src, l) : ~IsLocal(n) => n \in DOMAIN tab.sym

NumbersOK ==
    \A n \in DOMAIN tab.sym \cap Names(src) :
        /\ IsNumber(src, n) => tab.sym[n].value = src[DefLine(src, n)].e.k
        /\ ~Defined(src, n) /\ GlobalLines(src, n) # {} => tab.sym[n].value = 0

ConstsOK ==
    pass >= 2 => \A n \in Names(src) :
        Len(n) = 1 /\ IsConst(src, n) /\ (DefLine(src, n) < line \/ pc # "size") =>
            tab.sym[n].value = ConstOf(src, n)

ValuesOK ==
    Settled => \A n \in Names(src) :
        Defined(src, n) /\ (DefLine(src, n) < line \/ pc # "size") =>
            IF IsConst(src, n) THEN tab.sym[n].value = ConstOf(src, n)
            ELSE /\ tab.sym[n].value = Address(src, n)
                 /\ tab.sym[n].seg = SegAt(src, DefLine(src, n))

TableOK == PassOK /\ KindsOK /\ LastOK /\ SeenOK /\ NumbersOK /\ ConstsOK /\ ValuesOK

\* How often the line at hand was read in this pass.
Read == IF rep > 0 THEN TimesOf(src, line) - rep ELSE 0

RepOK ==
    rep > 0 => /\ Reads /\ line \in DOMAIN src /\ src[line].op = "times"
               /\ pass >= 2 => rep <= TimesOf(src, line)

SegOK == Reads /\ (pass >= 2 \/ Sections(src, line - 1) # {}) => seg = SegAt(src, line - 1)

SizesOK ==
    pass >= 2 /\ Reads =>
        \A g \in Segments :
            header[g] = After(src)[line - 1].size[g]
                        + (IF rep > 0 /\ g = seg THEN Read * SizeOf(src, line) ELSE 0)

SymsOK ==
    Settled /\ Reads =>
        header.syms = After(src)[line - 1].syms
                      + (IF rep > 0 /\ Recorded(src, line, src[line].body) THEN Read ELSE 0)

WrittenOK ==
    pc # "size" =>
        /\ \A g \in Segments : written[g] = After(src)[Len(src)].size[g]
        /\ written.syms = After(src)[Len(src)].syms

CountOK == RepOK /\ SegOK /\ SizesOK /\ SymsOK /\ WrittenOK

\* What the output passes wrote: line l, the q-th time, in the pass for what is at hand.
Passed(l, q) == l < line \/ (l = line /\ q < Read)
InOutput(g, l, q) == \/ pc = g /\ Passed(l, q)
                     \/ g = "text" /\ pc \in {"data", "symbols", "done"}
                     \/ g = "data" /\ pc \in {"symbols", "done"}

\* The operand of line l at a place of the output.
OperandIn(p, l, pos) ==
    LET s == Body(p[l])
        n == Scoped(p, l, s.e.name)
        k == IF n = NoName THEN "none" ELSE Kind(p, n)
        rest == s.e.here * pos + s.e.k
    IN CASE k = "const" -> s.e.by * ConstOf(p, n) + rest
         [] k = "label" /\ s.mode = 1 -> Address(p, n) + rest
         [] k = "label" /\ s.mode # 1 -> Address(p, n) - pos + s.disp + rest
         [] OTHER -> rest

Slots(p, l) == 0 .. TimesOf(p, l) - 1

IsPiece(p, b, pos, l, q) ==
    LET s == Body(p[l]) IN
    /\ b.line = l /\ b.seg = SegAt(p, l) /\ pos = Place(p, l, q)
    /\ s.op = "emit" => /\ b.lead = s.lead /\ b.w = s.w
                        /\ b.val = OperandIn(p, l, pos + s.lead) % (IF s.w = 1 THEN 256 ELSE 65536)
                        /\ s.e.name # NoName /\ Kind(p, Scoped(p, l, s.e.name)) = "label" => s.mode # 0

LaidOK ==
    Laid(bytes)[Len(bytes)] =
        [g \in {"text", "data"} |->
            IF pc = "size" \/ (pc = "text" /\ g = "data") THEN 0
            ELSE IF pc = g THEN header[g]
            ELSE After(src)[Len(src)].size[g]]

PiecesOK ==
    /\ pc = "size" => bytes = <<>>
    /\ \A i \in DOMAIN bytes :
          /\ bytes[i].line \in DOMAIN src
          /\ \E q \in Slots(src, bytes[i].line) :
                IsPiece(src, bytes[i], Laid(bytes)[i - 1][bytes[i].seg], bytes[i].line, q)

AllPieces ==
    \A l \in DOMAIN src : \A q \in Slots(src, l) :
        Body(src[l]).op \in {"emit", "res"} /\ InOutput(SegAt(src, l), l, q) =>
            \E i \in DOMAIN bytes :
                IsPiece(src, bytes[i], Laid(bytes)[i - 1][SegAt(src, l)], l, q)

BytesOK == LaidOK /\ PiecesOK /\ AllPieces

\* The record that line l leaves the q-th time.
RecordOf(p, l, q) ==
    LET s == Body(p[l])
        n == Scoped(p, l, IF s.op = "global" THEN s.name ELSE s.e.name)
    IN IF s.op = "global"
       THEN [kind |-> "global", name |-> n, seg |-> SegAt(p, l),
             off |-> IF Defined(p, n) THEN Address(p, n) ELSE 0]
       ELSE [kind |-> "ref", seg |-> SegAt(p, l), off |-> Place(p, l, q) + s.lead, disp |-> s.disp,
             name |-> IF Kind(p, n) = "label" THEN <<SegName[SegAt(p, DefLine(p, n))]>> ELSE n,
             rel |-> Rel[s.mode]]

NoRecords == pc \in {"size", "text", "data"} => recs = <<>>

RecordsMade ==
    \A i \in DOMAIN recs :
        \E l \in DOMAIN src : \E q \in Slots(src, l) :
            /\ Recorded(src, l, Body(src[l])) /\ recs[i] = RecordOf(src, l, q)
            /\ Body(src[l]).op = "emit" => SegAt(src, l) # "bss"
            /\ pc = "symbols" => Passed(l, q)

AllRecords ==
    \A l \in DOMAIN src : \A q \in Slots(src, l) :
        Recorded(src, l, Body(src[l])) /\ (pc = "done" \/ (pc = "symbols" /\ Passed(l, q))) =>
            \E i \in DOMAIN recs : recs[i] = RecordOf(src, l, q)

RecordsOK == NoRecords /\ RecordsMade /\ AllRecords

DistinctOK ==
    /\ \A i, j \in DOMAIN recs : recs[i] = recs[j] => i = j
    /\ pc = "symbols" => /\ Len(recs) = header.syms
                         /\ \A i \in DOMAIN recs : recs[i].kind = "ref" => recs[i].off < header[recs[i].seg]
    /\ pc = "done" => Len(recs) = written.syms

OutputOK == BytesOK /\ RecordsOK /\ DistinctOK

Types == TypeOK /\ src \in Sources
IInv == Types /\ (Live => TableOK /\ CountOK /\ OutputOK)
\* END OF INVARIANTS
-----------------------------------------------------------------------------
(* Natural numbers.  The library states induction for an operator P(_), which the provers
   cannot instantiate: a proof defines the set of the numbers it is about. *)

LEMMA NatWellFounded ==
    \E R : IsWellFoundedOn(R, Nat) /\ \A x, y \in Nat : y < x => <<y, x>> \in R
<1>1. IsWellFoundedOn(OpToRel(<,Nat), Nat) BY NatLessThanWellFounded
<1>2. \A x, y \in Nat : y < x => <<y, x>> \in OpToRel(<,Nat) BY DEF OpToRel
<1>3. QED BY <1>1, <1>2

\* A set of natural numbers has a smallest element.
LEMMA LeastNat ==
    ASSUME NEW S \in SUBSET Nat, S # {}
    PROVE  \E m \in S : \A k \in S : m <= k
<1>1. PICK R : IsWellFoundedOn(R, Nat) /\ \A x, y \in Nat : y < x => <<y, x>> \in R
  BY NatWellFounded
<1>4. \E x \in S : \A y \in S : ~(<<y, x>> \in R) BY <1>1, WFMin
<1>5. PICK m \in S : \A k \in S : ~(<<k, m>> \in R) BY <1>4
<1>6. ASSUME NEW k \in S PROVE m <= k
  <2>1. ~(k < m) BY <1>1, <1>5, Zenon
  <2>2. QED BY <2>1
<1>7. QED BY <1>6

\* Induction.
LEMMA NatIndSet ==
    ASSUME NEW S, 0 \in S, \A n \in Nat : n \in S => n + 1 \in S
    PROVE  Nat \subseteq S
<1>1. SUFFICES ASSUME Nat \ S # {} PROVE FALSE OBVIOUS
<1>2. PICK m \in Nat \ S : \A k \in Nat \ S : m <= k BY <1>1, LeastNat
<1>3. m - 1 \in Nat /\ m - 1 \notin Nat \ S BY <1>2
<1>4. QED BY <1>2, <1>3

LEMMA MaxOf ==
    ASSUME NEW m \in Nat, NEW S \in SUBSET (1 .. m), S # {}
    PROVE  Max(S) \in S /\ \A k \in S : k <= Max(S)
<1> DEFINE D == {m - k : k \in S}
<1>1. D \in SUBSET Nat /\ D # {} OBVIOUS
<1>2. PICK d \in D : \A e \in D : d <= e BY <1>1, LeastNat
<1>3. PICK x \in S : d = m - x BY <1>2
<1>4. \A y \in S : x >= y
  <2>1. TAKE y \in S
  <2>2. m - y \in D OBVIOUS
  <2>3. m - x <= m - y BY <1>2, <1>3, <2>2
  <2>4. QED BY <2>3
<1> HIDE DEF D
<1>5. Max(S) \in S /\ \A y \in S : Max(S) >= y BY <1>4 DEF Max
<1>6. QED BY <1>5
-----------------------------------------------------------------------------
(* Sources: segments and roots from line to line. *)

LEMMA OpsApart ==
    ASSUME NEW p, IsSource(p), NEW l \in DOMAIN p
    PROVE  /\ l \in 1 .. Len(p) /\ Len(p) \in Nat
           /\ p[l].op = "section" => p[l].seg \in Segments
           /\ p[l].op \in Entering => IsName(p[l].name)
           /\ p[l].op \in {"equ", "labelequ", "res", "times", "emit"} => IsExpr(p[l].e)
           /\ p[l].op = "times" => IsPlain(p[l].body)
           /\ p[l].op = "res" => p[l].unit \in {1, 2}
           /\ p[l].op # "times" => IsPlain(p[l])
BY DEF IsSource, IsStatement, IsPlain, Entering

LEMMA BodyPlain ==
    ASSUME NEW p, IsSource(p), NEW l \in DOMAIN p
    PROVE  IsPlain(Body(p[l]))
BY OpsApart DEF Body

LEMMA SegStays ==
    ASSUME NEW p, IsSource(p), NEW l \in DOMAIN p
    PROVE  IF p[l].op = "section" THEN SegAt(p, l) = p[l].seg
                                  ELSE SegAt(p, l) = SegAt(p, l - 1)
<1>1. l \in 1 .. Len(p) /\ Len(p) \in Nat BY OpsApart
<1>2. CASE p[l].op = "section"
  <2>1. Sections(p, l) \in SUBSET (1 .. l) /\ l \in Sections(p, l) BY <1>1, <1>2 DEF Sections
  <2>2. l \in Nat /\ Sections(p, l) # {} BY <1>1, <2>1
  <2>3. Max(Sections(p, l)) \in Sections(p, l) /\ \A k \in Sections(p, l) : k <= Max(Sections(p, l))
    BY <2>1, <2>2, MaxOf
  <2>4. Max(Sections(p, l)) = l BY <2>1, <2>2, <2>3
  <2>5. QED BY <1>2, <2>1, <2>4 DEF SegAt
<1>3. CASE p[l].op # "section"
  <2>1. Sections(p, l) = Sections(p, l - 1) BY <1>1, <1>3 DEF Sections
  <2>2. QED BY <1>3, <2>1 DEF SegAt
<1>4. QED BY <1>2, <1>3

LEMMA SegIs ==
    ASSUME NEW p, IsSource(p), NEW l \in 0 .. Len(p)
    PROVE  /\ SegAt(p, l) \in Segments \cup {"none"}
           /\ HasSection(p) => SegAt(p, l) \in Segments
<1>1. Len(p) \in Nat BY DEF IsSource
<1>2. \A k \in 0 .. Len(p) : Sections(p, k) # {} => p[Max(Sections(p, k))].seg \in Segments
  <2>1. TAKE k \in 0 .. Len(p)
  <2>2. HAVE Sections(p, k) # {}
  <2>3. Sections(p, k) \in SUBSET (1 .. k) BY DEF Sections
  <2>8. k \in Nat BY <1>1
  <2>4. Max(Sections(p, k)) \in Sections(p, k) BY <2>2, <2>3, <2>8, MaxOf
  <2>5. PICK x \in 1 .. k : x = Max(Sections(p, k)) /\ p[x].op = "section" BY <2>4 DEF Sections
  <2>6. x \in DOMAIN p BY <1>1 DEF IsSource
  <2>7. QED BY <2>5, <2>6, OpsApart
<1>3. Len(p) \in 0 .. Len(p) BY <1>1
<1>4. QED BY <1>2, <1>3 DEF SegAt, HasSection

\* The carry: the segment before the first line is the one after the last.
LEMMA SegCarries ==
    ASSUME NEW p, IsSource(p)
    PROVE  SegAt(p, 0) = SegAt(p, Len(p))
<1>1. Sections(p, 0) = {} BY DEF Sections
<1>2. QED BY <1>1 DEF SegAt

LEMMA RootStays ==
    ASSUME NEW p, IsSource(p), NEW l \in DOMAIN p
    PROVE  IF p[l].op \in Entering /\ ~IsLocal(p[l].name) THEN Root(p, l) = p[l].name
                                                         ELSE Root(p, l) = Root(p, l - 1)
<1>1. l \in 1 .. Len(p) /\ Len(p) \in Nat BY OpsApart
<1>2. CASE p[l].op \in Entering /\ ~IsLocal(p[l].name)
  <2>1. Roots(p, l) \in SUBSET (1 .. l) /\ l \in Roots(p, l) BY <1>1, <1>2 DEF Roots
  <2>2. l \in Nat /\ Roots(p, l) # {} BY <1>1, <2>1
  <2>3. Max(Roots(p, l)) \in Roots(p, l) /\ \A k \in Roots(p, l) : k <= Max(Roots(p, l))
    BY <2>1, <2>2, MaxOf
  <2>4. Max(Roots(p, l)) = l BY <2>1, <2>2, <2>3
  <2>5. QED BY <1>2, <2>1, <2>4 DEF Root
<1>3. CASE ~(p[l].op \in Entering /\ ~IsLocal(p[l].name))
  <2>1. Roots(p, l) = Roots(p, l - 1) BY <1>1, <1>3 DEF Roots
  <2>2. QED BY <1>3, <2>1 DEF Root
<1>4. QED BY <1>2, <1>3

\* A root is a name of the source, and not local.
LEMMA RootIs ==
    ASSUME NEW p, IsSource(p), NEW l \in 0 .. Len(p), Root(p, l) # NoName
    PROVE  /\ IsName(Root(p, l)) /\ ~IsLocal(Root(p, l))
           /\ Root(p, l) \in NamesUpTo(p, l)
<1>1. Len(p) \in Nat /\ DOMAIN p = 1 .. Len(p) BY DEF IsSource
<1>2. Roots(p, l) \in SUBSET (1 .. l) /\ Roots(p, l) # {} BY DEF Root, Roots
<1>11. l \in Nat BY <1>1
<1>3. Max(Roots(p, l)) \in Roots(p, l) BY <1>2, <1>11, MaxOf
<1>4. PICK x \in 1 .. l : x = Max(Roots(p, l)) /\ p[x].op \in Entering /\ ~IsLocal(p[x].name)
  BY <1>3 DEF Roots
<1>5. Root(p, l) = p[x].name BY <1>2, <1>4 DEF Root
<1>6. x \in DOMAIN p BY <1>1
<1>7. IsName(p[x].name) BY <1>4, <1>6, OpsApart
<1>8. Scoped(p, x, p[x].name) = p[x].name BY <1>4 DEF Scoped
<1>9. p[x].name \in NamesUpTo(p, l) BY <1>4, <1>8 DEF NamesUpTo
<1>10. QED BY <1>4, <1>5, <1>7, <1>9
-----------------------------------------------------------------------------
(* The sizes after each line.  After(p) is defined by recursion: what a line adds is made
   of what is known after the lines before it, so that there is one such function. *)

LEMMA DefLineIs ==
    ASSUME NEW p, IsSource(p), NEW n, Defined(p, n)
    PROVE  /\ DefLine(p, n) \in DOMAIN p /\ DefLine(p, n) \in 1 .. Len(p)
           /\ p[DefLine(p, n)].op \in Defining
           /\ Scoped(p, DefLine(p, n), p[DefLine(p, n)].name) = n
<1>1. DefLine(p, n) \in DefLines(p, n) BY DEF Defined, DefLine
<1>2. QED BY <1>1 DEF DefLines, IsSource

LEMMA AfterLineOf ==
    ASSUME NEW p, IsSource(p), NEW l \in 1 .. Len(p), NEW f, NEW g,
           \A k \in 0 .. l - 1 : f[k] = g[k]
    PROVE  AfterLine(p, f, l) = AfterLine(p, g, l)
<1>1. Len(p) \in Nat BY DEF IsSource
<1>2. f[l - 1] = g[l - 1] BY <1>1
<1>3. \A n : ConstIn(p, f, l, n) = ConstIn(p, g, l, n)
  <2>1. TAKE n
  <2>2. IsConst(p, n) /\ DefLine(p, n) < l => DefLine(p, n) \in 0 .. l - 1
    BY <1>1, DefLineIs DEF IsConst
  <2>3. IsConst(p, n) /\ DefLine(p, n) < l => f[DefLine(p, n)].val = g[DefLine(p, n)].val
    BY <2>2
  <2>4. QED BY <2>3 DEF ConstIn
<1>4. \A e, a : ExprIn(p, f, l, e, a) = ExprIn(p, g, l, e, a) BY <1>3 DEF ExprIn
<1>5. \A s, a : SizeIn(p, f, l, s, a) = SizeIn(p, g, l, s, a) BY <1>4 DEF SizeIn
<1>6. \A a : TimesIn(p, f, l, a) = TimesIn(p, g, l, a) BY <1>4 DEF TimesIn
<1>7. QED BY <1>2, <1>4, <1>5, <1>6 DEF AfterLine

LEMMA AfterExists ==
    ASSUME NEW p, IsSource(p)
    PROVE  After(p) = [l \in 0 .. Len(p) |-> IF l = 0 THEN Nothing ELSE AfterLine(p, After(p), l)]
<1> DEFINE F(f, m) == [l \in 0 .. m |-> IF l = 0 THEN Nothing ELSE AfterLine(p, f, l)]
           S == {m \in Nat : m <= Len(p) => \E f : f = F(f, m)}
<1>1. Len(p) \in Nat BY DEF IsSource
<1>2. 0 \in S
  <2> DEFINE h == [l \in 0 .. 0 |-> Nothing]
  <2>1. h = F(h, 0) OBVIOUS
  <2>2. QED BY <2>1
<1>3. ASSUME NEW m \in Nat, m \in S PROVE m + 1 \in S
  <2>1. SUFFICES ASSUME m + 1 <= Len(p) PROVE \E f : f = F(f, m + 1) OBVIOUS
  <2>2. PICK f : f = F(f, m) BY <1>1, <1>3, <2>1
  <2> DEFINE h == [l \in 0 .. m + 1 |-> IF l <= m THEN f[l] ELSE AfterLine(p, f, l)]
  <2> HIDE DEF F
  <2>3. \A k \in 0 .. m : h[k] = f[k] OBVIOUS
  <2>4. \A l \in 1 .. m + 1 : AfterLine(p, h, l) = AfterLine(p, f, l)
    <3>1. TAKE l \in 1 .. m + 1
    <3>2. l \in 1 .. Len(p) /\ \A k \in 0 .. l - 1 : h[k] = f[k] BY <1>1, <2>1, <2>3
    <3> HIDE DEF h
    <3>3. QED BY <3>2, AfterLineOf
  <2>5. \A l \in 0 .. m : f[l] = IF l = 0 THEN Nothing ELSE AfterLine(p, f, l)
    BY <2>2 DEF F
  <2>6. \A l \in 0 .. m + 1 : h[l] = IF l = 0 THEN Nothing ELSE AfterLine(p, h, l)
    <3>1. TAKE l \in 0 .. m + 1
    <3>2. CASE l <= m
      <4>1. l \in 0 .. m /\ h[l] = f[l] BY <3>2
      <4>2. l # 0 => AfterLine(p, h, l) = AfterLine(p, f, l) BY <2>4
      <4> HIDE DEF h
      <4>3. QED BY <2>5, <4>1, <4>2
    <3>3. CASE l = m + 1
      <4>1. h[l] = AfterLine(p, f, l) /\ l # 0 BY <3>3
      <4>2. AfterLine(p, h, l) = AfterLine(p, f, l) BY <2>4, <3>3
      <4> HIDE DEF h
      <4>3. QED BY <4>1, <4>2
    <3>4. QED BY <3>2, <3>3
  <2>7. h = F(h, m + 1)
    <3>1. h = [l \in 0 .. m + 1 |-> h[l]] OBVIOUS
    <3> HIDE DEF h
    <3>2. QED BY <2>6, <3>1 DEF F
  <2>8. QED BY <2>7
<1>4. Nat \subseteq S
  <2> HIDE DEF S
  <2>1. QED BY <1>2, <1>3, NatIndSet
<1>5. \E f : f = F(f, Len(p)) BY <1>1, <1>4
<1>6. QED BY <1>5 DEF After

\* One line after the other, and the types of what they add up.
LEMMA AfterStep ==
    ASSUME NEW p, IsSource(p), NEW l \in 1 .. Len(p)
    PROVE  After(p)[l] = AfterLine(p, After(p), l) /\ After(p)[0] = Nothing
<1>1. Len(p) \in Nat BY DEF IsSource
<1>2. l \in 0 .. Len(p) /\ 0 \in 0 .. Len(p) /\ l # 0 BY <1>1
<1> DEFINE G(f) == [k \in 0 .. Len(p) |-> IF k = 0 THEN Nothing ELSE AfterLine(p, f, k)]
<1>3. After(p) = G(After(p)) BY AfterExists
<1> DEFINE A == After(p)
<1>4. A = G(A) BY <1>3
<1> HIDE DEF A
<1>5. A[l] = AfterLine(p, A, l) /\ A[0] = Nothing BY <1>2, <1>4
<1>6. QED BY <1>5 DEF A
LEMMA ConstExpr ==
    ASSUME NEW p, IsSource(p), NEW n, IsConst(p, n)
    PROVE  /\ p[DefLine(p, n)].op \in {"equ", "labelequ"}
           /\ IsExpr(p[DefLine(p, n)].e)
           /\ DefLine(p, n) \in 1 .. Len(p)
<1>1. DefLine(p, n) \in DOMAIN p /\ p[DefLine(p, n)].op \in Defining /\ DefLine(p, n) \in 1 .. Len(p)
  BY DefLineIs DEF IsConst
<1>2. p[DefLine(p, n)].op \in {"equ", "labelequ"} BY <1>1 DEF IsConst, Defining
<1>3. QED BY <1>1, <1>2, OpsApart

LEMMA ConstInt ==
    ASSUME NEW p, IsSource(p), NEW l \in 1 .. Len(p), NEW f, \A k \in 0 .. l - 1 : f[k].val \in Int,
           NEW n
    PROVE  ConstIn(p, f, l, n) \in Int
<1>1. Len(p) \in Nat BY DEF IsSource
<1>2. CASE IsNumber(p, n)
  <2>1. p[DefLine(p, n)].e.k \in Int BY <1>2, ConstExpr DEF IsNumber, IsExpr
  <2>2. QED BY <1>2, <2>1 DEF ConstIn
<1>3. CASE ~IsNumber(p, n) /\ IsConst(p, n) /\ DefLine(p, n) < l
  <2>1. DefLine(p, n) \in 0 .. l - 1 BY <1>1, <1>3, ConstExpr
  <2>2. QED BY <1>3, <2>1 DEF ConstIn
<1>4. QED BY <1>2, <1>3 DEF ConstIn

LEMMA ProductInt ==
    ASSUME NEW a \in Int, NEW b \in Int
    PROVE  a * b \in Int
OBVIOUS

LEMMA ExprInt ==
    ASSUME NEW p, IsSource(p), NEW l \in 1 .. Len(p), NEW f, \A k \in 0 .. l - 1 : f[k].val \in Int,
           NEW e, IsExpr(e), NEW a \in Int
    PROVE  ExprIn(p, f, l, e, a) \in Int
<1>1. ConstIn(p, f, l, e.name) \in Int BY ConstInt
<1>2. e.by \in Int /\ e.here \in Int /\ e.k \in Int BY DEF IsExpr
<1>3. e.by * ConstIn(p, f, l, e.name) \in Int /\ e.here * a \in Int BY <1>1, <1>2, ProductInt
<1>4. QED BY SMTT(40), <1>2, <1>3 DEF ExprIn

LEMMA PlainFields ==
    ASSUME NEW s, IsPlain(s)
    PROVE  /\ s.op # "times"
           /\ s.op \in {"res", "emit", "equ", "labelequ"} => IsExpr(s.e)
           /\ s.op = "res" => s.unit \in {1, 2}
           /\ s.op = "emit" => /\ s.lead \in Nat /\ s.w \in Nat /\ s.mode \in 0..3 /\ s.disp \in Int
                               /\ s.e.name # NoName => s.w >= 1
                               /\ s.mode = 2 => s.w = 1 /\ s.disp = -1
                               /\ s.mode = 3 => s.w = 2 /\ s.disp = -2
BY DEF IsPlain

LEMMA SizeInt ==
    ASSUME NEW p, IsSource(p), NEW l \in 1 .. Len(p), NEW f, \A k \in 0 .. l - 1 : f[k].val \in Int,
           NEW a \in Int
    PROVE  /\ SizeIn(p, f, l, Body(p[l]), a) \in Int
           /\ TimesIn(p, f, l, a) \in Int
<1> DEFINE s == Body(p[l])
<1>1. l \in DOMAIN p BY DEF IsSource
<1>2. IsPlain(s) BY <1>1, BodyPlain
<1>3. p[l].op = "times" => IsExpr(p[l].e) BY <1>1, OpsApart
<1> HIDE DEF s
<1>9. \A e : IsExpr(e) => ExprIn(p, f, l, e, a) \in Int BY ExprInt
<1>4. TimesIn(p, f, l, a) \in Int BY <1>3, <1>9 DEF TimesIn
<1>5. s.op = "res" => ExprIn(p, f, l, s.e, a) \in Int /\ s.unit \in Int BY <1>2, <1>9, PlainFields
<1>6. s.op = "emit" => s.lead + s.w \in Int BY <1>2, PlainFields
<1>7. SizeIn(p, f, l, s, a) \in Int BY <1>5, <1>6 DEF SizeIn
<1>8. QED BY <1>4, <1>7 DEF s

LEMMA AfterTyped ==
    ASSUME NEW p, IsSource(p), NEW l \in 0 .. Len(p)
    PROVE  /\ After(p)[l].size \in [Segments -> Int]
           /\ After(p)[l].val \in Int /\ After(p)[l].syms \in Int
<1> DEFINE A == After(p)
           T(k) == A[k].size \in [Segments -> Int] /\ A[k].val \in Int /\ A[k].syms \in Int
           S == {m \in Nat : m <= Len(p) => \A k \in 0 .. m : T(k)}
<1>1. Len(p) \in Nat BY DEF IsSource
<1>2. 0 \in S
  <2>1. A = [k \in 0 .. Len(p) |-> IF k = 0 THEN Nothing ELSE AfterLine(p, A, k)] BY AfterExists
  <2>2. 0 \in 0 .. Len(p) BY <1>1
  <2> HIDE DEF A
  <2>3. A[0] = Nothing BY <2>1, <2>2
  <2>4. T(0) BY <2>3 DEF Nothing
  <2>5. QED BY <2>4
<1>3. ASSUME NEW m \in Nat, m \in S PROVE m + 1 \in S
  <2>1. SUFFICES ASSUME m + 1 <= Len(p) PROVE T(m + 1)
    <3> HIDE DEF T
    <3>1. \A k \in 0 .. m : m + 1 <= Len(p) => T(k) BY <1>1, <1>3
    <3>2. QED BY <3>1
  <2> DEFINE k == m + 1
  <2>2. k \in 1 .. Len(p) /\ k - 1 = m /\ k \in 0 .. Len(p) BY <1>1, <2>1
  <2>3. A[k] = AfterLine(p, A, k) BY <2>2, AfterStep
  <2>4. \A j \in 0 .. k - 1 : T(j)
    <3> HIDE DEF T
    <3>1. QED BY <1>1, <1>3, <2>1
  <2>5. SegAt(p, k) \in Segments \cup {"none"} BY <2>2, SegIs
  <2> HIDE DEF k, A
  <2> DEFINE g == SegAt(p, k)
             a == IF g = "none" THEN 0 ELSE A[k - 1].size[g]
  <2>6. T(k - 1) BY <2>2, <2>4
  <2>7. a \in Int BY <2>5, <2>6
  <2>8. \A j \in 0 .. k - 1 : A[j].val \in Int BY <2>4
  <2> HIDE DEF a, g
  <2>9. SizeIn(p, A, k, Body(p[k]), a) \in Int /\ TimesIn(p, A, k, a) \in Int
    BY <2>2, <2>7, <2>8, SizeInt
  <2>10. TimesIn(p, A, k, a) * SizeIn(p, A, k, Body(p[k]), a) \in Int BY <2>9, ProductInt
  <2>11. k \in DOMAIN p BY <2>2 DEF IsSource
  <2>12. p[k].op \in {"equ", "labelequ"} => ExprIn(p, A, k, p[k].e, a) \in Int
    BY <2>2, <2>7, <2>8, <2>11, OpsApart, ExprInt
  <2>13. A[k].size = IF g = "none" THEN A[k - 1].size
              ELSE [A[k - 1].size EXCEPT ![g] = a + TimesIn(p, A, k, a) * SizeIn(p, A, k, Body(p[k]), a)]
    BY <2>3 DEF AfterLine, a, g
  <2>14. A[k].size \in [Segments -> Int]
    <3> DEFINE d == a + TimesIn(p, A, k, a) * SizeIn(p, A, k, Body(p[k]), a)
    <3>1. d \in Int BY <2>7, <2>10
    <3>2. A[k].size = IF g = "none" THEN A[k - 1].size ELSE [A[k - 1].size EXCEPT ![g] = d] BY <2>13
    <3>3. A[k - 1].size \in [Segments -> Int] BY <2>6
    <3> HIDE DEF d
    <3>4. QED BY <3>1, <3>2, <3>3
  <2>15. A[k].val \in Int BY <2>3, <2>12 DEF AfterLine, a, g
  <2>16. A[k].syms \in Int BY <2>3, <2>6, <2>9 DEF AfterLine, a, g
  <2>17. QED BY <2>14, <2>15, <2>16 DEF k
<1>4. Nat \subseteq S
  <2> HIDE DEF S
  <2>1. QED BY <1>2, <1>3, NatIndSet
<1>5. T(l)
  <2> HIDE DEF T
  <2>1. QED BY <1>1, <1>4
<1>6. QED BY <1>5
-----------------------------------------------------------------------------
(* What a line of an orderly source makes, and what names there are. *)

LEMMA LineAdds ==
    ASSUME NEW p, IsSource(p), Orderly(p), NEW l \in 1 .. Len(p)
    PROVE  /\ SegAt(p, l) \in Segments
           /\ Start(p, l) \in Int /\ TimesOf(p, l) \in Int /\ SizeOf(p, l) \in Nat
           /\ \A g \in Segments :
                 /\ After(p)[l].size[g] = IF g = SegAt(p, l) THEN Start(p, l) + TimesOf(p, l) * SizeOf(p, l)
                                                             ELSE After(p)[l - 1].size[g]
                 /\ After(p)[l].size[g] \in Int /\ After(p)[l].size[g] <= 65535
           /\ After(p)[l].syms = After(p)[l - 1].syms
                                 + (IF Recorded(p, l, Body(p[l])) THEN TimesOf(p, l) ELSE 0)
           /\ After(p)[l].syms <= 65535 /\ After(p)[l].syms \in Int /\ After(p)[l - 1].syms \in Int
           /\ p[l].op \in {"equ", "labelequ"} =>
                 After(p)[l].val = ExprIn(p, After(p), l, p[l].e, Start(p, l))
           /\ p[l].op # "times" => TimesOf(p, l) = 1
<1> DEFINE A == After(p)
           g == SegAt(p, l)
           a == A[l - 1].size[g]
<1>1. Len(p) \in Nat /\ l \in 0 .. Len(p) /\ l - 1 \in 0 .. Len(p) /\ l \in DOMAIN p BY DEF IsSource
<1>2. g \in Segments BY <1>1, SegIs DEF Orderly
<1>3. g # "none" BY <1>2 DEF Segments
<1>4. A[l] = AfterLine(p, A, l) BY AfterStep
<1>5. \A k \in 0 .. Len(p) : A[k].size \in [Segments -> Int] /\ A[k].val \in Int /\ A[k].syms \in Int
  BY AfterTyped
<1>6. \A k \in 0 .. Len(p) : A[k].syms <= 65535 /\ \A x \in Segments : A[k].size[x] <= 65535
  BY DEF Orderly, Fits
<1>7. a \in Int BY <1>1, <1>2, <1>5
<1>8. \A k \in 0 .. l - 1 : A[k].val \in Int BY <1>1, <1>5
<1>9. Body(p[l]).op = "res" => ExprIn(p, A, l, Body(p[l]).e, a) >= 0 BY <1>1 DEF Orderly, Fits
<1>10. IsPlain(Body(p[l])) BY <1>1, BodyPlain
<1> HIDE DEF A, a, g
<1>11. SizeIn(p, A, l, Body(p[l]), a) \in Int /\ TimesIn(p, A, l, a) \in Int BY <1>7, <1>8, SizeInt
<1>12. \A e : IsExpr(e) => ExprIn(p, A, l, e, a) \in Int BY <1>7, <1>8, ExprInt
<1>13. SizeIn(p, A, l, Body(p[l]), a) \in Nat
  <2>1. CASE Body(p[l]).op = "res" BY <1>9, <1>10, <1>11, <1>12, <2>1, PlainFields DEF SizeIn
  <2>2. CASE Body(p[l]).op = "emit" BY <1>10, <2>2, PlainFields DEF SizeIn
  <2>3. QED BY <2>1, <2>2 DEF SizeIn
<1>14. Start(p, l) = a /\ TimesOf(p, l) = TimesIn(p, A, l, a) /\ SizeOf(p, l) = SizeIn(p, A, l, Body(p[l]), a)
  BY DEF A, a, g, Start, TimesOf, SizeOf
<1> DEFINE t == TimesOf(p, l)
           z == SizeOf(p, l)
           d == a + t * z
<1>15. A[l].size = [A[l - 1].size EXCEPT ![g] = d] BY <1>3, <1>4, <1>14 DEF AfterLine, a, g
<1>16. A[l].syms = A[l - 1].syms + (IF Recorded(p, l, Body(p[l])) THEN t ELSE 0)
  BY <1>3, <1>4, <1>14 DEF AfterLine, a, g
<1>17. p[l].op \in {"equ", "labelequ"} => A[l].val = ExprIn(p, A, l, p[l].e, a)
  BY <1>3, <1>4 DEF AfterLine, a, g
<1>18. p[l].op # "times" => TimesOf(p, l) = 1 BY <1>14 DEF TimesIn
<1> HIDE DEF t, z, d
<1>19. \A x \in Segments : A[l].size[x] = IF x = g THEN d ELSE A[l - 1].size[x] BY <1>1, <1>2, <1>5, <1>15
<1>20. d = Start(p, l) + TimesOf(p, l) * SizeOf(p, l) BY <1>14 DEF d, t, z
<1>21. A[l].syms = A[l - 1].syms + (IF Recorded(p, l, Body(p[l])) THEN TimesOf(p, l) ELSE 0)
  BY <1>16 DEF t
<1>22. \A x \in Segments : A[l].size[x] \in Int /\ A[l].size[x] <= 65535 BY <1>1, <1>5, <1>6
<1>23. A[l].syms <= 65535 /\ A[l].syms \in Int /\ A[l - 1].syms \in Int BY <1>1, <1>5, <1>6
<1>24. Start(p, l) \in Int /\ TimesOf(p, l) \in Int /\ SizeOf(p, l) \in Nat BY <1>7, <1>11, <1>13, <1>14
<1>25. p[l].op \in {"equ", "labelequ"} => A[l].val = ExprIn(p, A, l, p[l].e, Start(p, l)) BY <1>14, <1>17
<1>26. QED BY <1>2, <1>18, <1>19, <1>20, <1>21, <1>22, <1>23, <1>24, <1>25 DEF A, g

\* The same, one fact at a time.
LEMMA LineSize ==
    ASSUME NEW p, IsSource(p), Orderly(p), NEW l \in 1 .. Len(p), NEW g \in Segments
    PROVE  /\ After(p)[l].size[g] = IF g = SegAt(p, l) THEN Start(p, l) + TimesOf(p, l) * SizeOf(p, l)
                                                       ELSE After(p)[l - 1].size[g]
           /\ After(p)[l].size[g] \in Int
           /\ After(p)[l].size[g] <= 65535
BY SMTT(40), LineAdds

LEMMA LineSyms ==
    ASSUME NEW p, IsSource(p), Orderly(p), NEW l \in 1 .. Len(p)
    PROVE  /\ After(p)[l].syms = After(p)[l - 1].syms
                                 + (IF Recorded(p, l, Body(p[l])) THEN TimesOf(p, l) ELSE 0)
           /\ After(p)[l].syms <= 65535 /\ After(p)[l].syms \in Int /\ After(p)[l - 1].syms \in Int
BY LineAdds

LEMMA ConcatName ==
    ASSUME NEW a, a \in Seq(STRING), a # NoName, NEW n, IsName(n)
    PROVE  /\ a \o n \in Seq(STRING) /\ a \o n # NoName
           /\ Len(a \o n) = Len(a) + 1 /\ Len(a \o n) >= 2
           /\ (a \o n)[1] = a[1]
<1>1. n \in Seq(STRING) /\ Len(n) = 1 BY DEF IsName
<1>2. Len(a) \in Nat /\ Len(a) >= 1 BY DEF NoName
<1>7. a \o n \in Seq(STRING) /\ Len(a \o n) = Len(a) + Len(n) BY <1>1, ConcatProperties
<1>3. a \o n \in Seq(STRING) /\ Len(a \o n) = Len(a) + 1 BY <1>1, <1>2, <1>7
<1>4. (a \o n)[1] = a[1] BY <1>1, <1>2
<1>5. a \o n # NoName BY <1>2, <1>3 DEF NoName
<1>6. QED BY <1>2, <1>3, <1>4, <1>5

LEMMA NameIs ==
    ASSUME NEW n, IsName(n)
    PROVE  n \in Seq(STRING) /\ n # NoName /\ Len(n) = 1 /\ n = <<n[1]>>
<1>1. n \in Seq(STRING) /\ Len(n) = 1 BY DEF IsName
<1>2. n # NoName
  <2>1. Len(NoName) = 0 BY DEF NoName
  <2>2. Len(n) # Len(NoName) BY <1>1, <2>1
  <2>3. QED BY <2>2, Zenon
<1>3. n = <<n[1]>> BY <1>1
<1>4. QED BY <1>1, <1>2, <1>3

\* Every name of an orderly source starts with a name that is not local, and is it or a
\* local name behind it.
LEMMA NameShape ==
    ASSUME NEW p, IsSource(p), Rooted(p), NEW l \in 0 .. Len(p), NEW n \in NamesUpTo(p, l)
    PROVE  /\ n \in Seq(STRING) /\ n # NoName /\ n[1] \notin Locals
           /\ <<n[1]>> \in NamesUpTo(p, l)
           /\ Len(n) = 1 => IsName(n)
<1>1. Len(p) \in Nat /\ DOMAIN p = 1 .. Len(p) BY DEF IsSource
<1>2. PICK k \in 1 .. l : p[k].op \in Entering /\ n = Scoped(p, k, p[k].name) BY DEF NamesUpTo
<1>3. k \in DOMAIN p BY <1>1
<1>4. IsName(p[k].name) BY <1>2, <1>3, OpsApart
<1>5. CASE ~IsLocal(p[k].name)
  <2>1. n = p[k].name BY <1>2, <1>5 DEF Scoped
  <2>2. n = <<n[1]>> /\ n \in Seq(STRING) /\ n # NoName BY <1>4, <2>1, NameIs
  <2>3. n[1] \notin Locals BY <1>5, <2>1 DEF IsLocal
  <2>4. QED BY <1>4, <2>1, <2>2, <2>3
<1>6. CASE IsLocal(p[k].name)
  <2>1. p[k].name # NoName BY <1>4, NameIs
  <2>2. n = Root(p, k) \o p[k].name BY <1>2, <1>6, <2>1 DEF Scoped
  <2>3. p[k].name \in NamesAt(p, k) BY <1>2 DEF NamesAt
  <2>4. Root(p, k) # NoName BY <1>3, <1>6, <2>3 DEF Rooted
  <2>5. k \in 0 .. Len(p) BY <1>1
  <2>6. IsName(Root(p, k)) /\ ~IsLocal(Root(p, k)) /\ Root(p, k) \in NamesUpTo(p, k)
    BY <2>4, <2>5, RootIs
  <2>7. Root(p, k) \in Seq(STRING) /\ Root(p, k) # NoName /\ Root(p, k) = <<Root(p, k)[1]>>
    BY <2>6, NameIs
  <2>8. n \in Seq(STRING) /\ n # NoName /\ n[1] = Root(p, k)[1] /\ Len(n) >= 2
    BY <1>4, <2>2, <2>7, ConcatName
  <2>9. NamesUpTo(p, k) \subseteq NamesUpTo(p, l) BY <1>1, <1>2 DEF NamesUpTo
  <2>10. <<n[1]>> = Root(p, k) BY <2>7, <2>8
  <2>11. n[1] \notin Locals BY <2>6, <2>8 DEF IsLocal
  <2>12. QED BY <2>6, <2>8, <2>9, <2>10, <2>11
<1>7. QED BY <1>5, <1>6

LEMMA NamesGrow ==
    ASSUME NEW p, IsSource(p), NEW l \in DOMAIN p
    PROVE  /\ NamesUpTo(p, l) = NamesUpTo(p, l - 1)
                 \cup (IF p[l].op \in Entering THEN {Scoped(p, l, p[l].name)} ELSE {})
           /\ NamesUpTo(p, l) \subseteq Names(p)
           /\ NamesUpTo(p, 0) = {}
<1>1. l \in 1 .. Len(p) /\ Len(p) \in Nat BY OpsApart
<1>2. 1 .. l = (1 .. l - 1) \cup {l} /\ 1 .. l \subseteq 1 .. Len(p) /\ l \notin 1 .. l - 1 BY <1>1
<1>3. {j \in 1 .. l : p[j].op \in Entering}
        = {j \in 1 .. l - 1 : p[j].op \in Entering} \cup (IF p[l].op \in Entering THEN {l} ELSE {})
  BY <1>2
<1>4. NamesUpTo(p, l) = NamesUpTo(p, l - 1)
                 \cup (IF p[l].op \in Entering THEN {Scoped(p, l, p[l].name)} ELSE {})
  BY <1>3 DEF NamesUpTo
<1>5. NamesUpTo(p, l) \subseteq Names(p) BY <1>2 DEF NamesUpTo, Names
<1>6. NamesUpTo(p, 0) = {} BY DEF NamesUpTo
<1>7. QED BY <1>4, <1>5, <1>6
LEMMA EnteredAs ==
    ASSUME NEW p, IsSource(p), Orderly(p), NEW l \in DOMAIN p, p[l].op \in Entering,
           NEW n, n = Scoped(p, l, p[l].name)
    PROVE  /\ n \in Names(p)
           /\ p[l].op \in Defining => Defined(p, n) /\ DefLine(p, n) = l
           /\ p[l].op = "label" =>
                 /\ ~IsConst(p, n)
                 /\ Kind(p, n) = IF \E g \in GlobalLines(p, n) : g < l THEN "global" ELSE "label"
           /\ p[l].op \in {"equ", "labelequ"} =>
                 IsConst(p, n) /\ Kind(p, n) = "const" /\ GlobalLines(p, n) = {}
           /\ p[l].op = "extern" =>
                 /\ n = p[l].name /\ ~IsLocal(n)
                 /\ ~Defined(p, n) /\ GlobalLines(p, n) = {} /\ Kind(p, n) = "extern"
           /\ p[l].op = "global" =>
                 /\ n = p[l].name /\ ~IsLocal(n)
                 /\ ~IsConst(p, n) /\ GlobalLines(p, n) = {l}
                 /\ Kind(p, n) = IF Defined(p, n) /\ DefLine(p, n) < l THEN "label" ELSE "global"
<1>1. l \in 1 .. Len(p) /\ DOMAIN p = 1 .. Len(p) /\ Len(p) \in Nat BY DEF IsSource
<1>2. n \in Names(p) BY <1>1 DEF Names, NamesUpTo
<1>3. ASSUME p[l].op \in Defining PROVE Defined(p, n) /\ DefLine(p, n) = l
  <2>1. l \in DefLines(p, n) BY <1>3 DEF DefLines
  <2>2. Defined(p, n) BY <2>1 DEF Defined
  <2>3. DefLine(p, n) \in DOMAIN p /\ p[DefLine(p, n)].op \in Defining
        /\ Scoped(p, DefLine(p, n), p[DefLine(p, n)].name) = n
    BY <2>2, DefLineIs
  <2>4. QED BY <1>3, <2>2, <2>3 DEF Orderly, DefinedOnce
<1>4. \A g \in GlobalLines(p, n) : g \in 1 .. Len(p) /\ p[g].op = "global" /\ ~IsConst(p, n)
  BY <1>1 DEF GlobalLines, Orderly, GlobalsHere
<1>5. ASSUME p[l].op = "label"
      PROVE  /\ ~IsConst(p, n)
             /\ Kind(p, n) = IF \E g \in GlobalLines(p, n) : g < l THEN "global" ELSE "label"
  <2>1. Defined(p, n) /\ DefLine(p, n) = l BY <1>3, <1>5 DEF Defining
  <2>2. ~IsConst(p, n) BY <1>5, <2>1 DEF IsConst
  <2>3. \A g \in GlobalLines(p, n) : g < l \/ g > l BY <1>1, <1>4, <1>5
  <2>4. CASE \E g \in GlobalLines(p, n) : g < l
    <3>1. ~(\A g \in GlobalLines(p, n) : g > l) BY <1>1, <1>4, <2>4
    <3>2. QED BY <2>1, <2>2, <2>4, <3>1 DEF Kind
  <2>5. CASE ~(\E g \in GlobalLines(p, n) : g < l)
    <3>1. \A g \in GlobalLines(p, n) : g > l BY <2>3, <2>5
    <3>2. QED BY <1>5, <2>1, <2>2, <2>5, <3>1 DEF Kind
  <2>6. QED BY <2>2, <2>4, <2>5
<1>6. ASSUME p[l].op \in {"equ", "labelequ"}
      PROVE  IsConst(p, n) /\ Kind(p, n) = "const" /\ GlobalLines(p, n) = {}
  <2>1. IsConst(p, n) BY <1>3, <1>6 DEF Defining, IsConst
  <2>2. QED BY <1>4, <2>1 DEF Kind
<1>7. ASSUME p[l].op = "extern"
      PROVE  /\ n = p[l].name /\ ~IsLocal(n)
             /\ ~Defined(p, n) /\ GlobalLines(p, n) = {} /\ Kind(p, n) = "extern"
  <2>1. ~IsLocal(p[l].name) /\ ~Defined(p, p[l].name) /\ GlobalLines(p, p[l].name) = {}
    BY <1>7 DEF Orderly, ExternsElsewhere
  <2>2. n = p[l].name BY <2>1 DEF Scoped
  <2>3. ~IsConst(p, n) BY <2>1, <2>2 DEF IsConst
  <2>4. QED BY <2>1, <2>2, <2>3 DEF Kind
<1>8. ASSUME p[l].op = "global"
      PROVE  /\ n = p[l].name /\ ~IsLocal(n)
             /\ ~IsConst(p, n) /\ GlobalLines(p, n) = {l}
             /\ Kind(p, n) = IF Defined(p, n) /\ DefLine(p, n) < l THEN "label" ELSE "global"
  <2>1. /\ ~IsLocal(p[l].name) /\ ~IsConst(p, p[l].name) /\ GlobalLines(p, p[l].name) = {l}
    BY <1>8 DEF Orderly, GlobalsHere
  <2>2. n = p[l].name BY <2>1 DEF Scoped
  <2>3. CASE Defined(p, n) /\ DefLine(p, n) < l
    <3>1. p[DefLine(p, n)].op = "label" BY <2>1, <2>2, <2>3 DEF IsConst
    <3>2. QED BY <2>1, <2>2, <2>3, <3>1 DEF Kind
  <2>4. CASE Defined(p, n) /\ ~(DefLine(p, n) < l)
    <3>1. DefLine(p, n) \in 1 .. Len(p) /\ DefLine(p, n) # l
      BY <1>8, <2>4, DefLineIs DEF Defining
    <3>2. l < DefLine(p, n) BY <1>1, <2>4, <3>1
    <3>3. ~(l > DefLine(p, n)) BY <1>1, <3>1, <3>2
    <3>4. l \in GlobalLines(p, n) BY <2>1, <2>2
    <3>5. Kind(p, n) = "global" BY <2>1, <2>2, <3>3, <3>4 DEF Kind
    <3>6. QED BY <2>1, <2>2, <2>4, <3>5
  <2>5. CASE ~Defined(p, n)
    <3>1. GlobalLines(p, n) # {} BY <2>1, <2>2
    <3>2. Kind(p, n) = "global" BY <2>1, <2>2, <2>5, <3>1 DEF Kind
    <3>3. QED BY <2>1, <2>2, <2>5, <3>2
  <2>6. QED BY <2>3, <2>4, <2>5
<1>9. QED BY <1>2, <1>3, <1>5, <1>6, <1>7, <1>8

\* A name that no line enters is left to the linker.
LEMMA OtherKind ==
    ASSUME NEW p, IsSource(p), Orderly(p), NEW n, n \notin Names(p)
    PROVE  ~Defined(p, n) /\ GlobalLines(p, n) = {} /\ Kind(p, n) = "extern"
<1>1. DOMAIN p = 1 .. Len(p) BY DEF IsSource
<1>2. \A l \in DOMAIN p : p[l].op \in Entering => Scoped(p, l, p[l].name) \in Names(p)
  BY <1>1 DEF Names, NamesUpTo
<1>3. DefLines(p, n) = {} BY <1>2 DEF DefLines, Defining, Entering
<1>4. GlobalLines(p, n) = {}
  <2>1. SUFFICES ASSUME NEW g \in GlobalLines(p, n) PROVE FALSE OBVIOUS
  <2>2. g \in DOMAIN p /\ p[g].op = "global" /\ p[g].name = n BY DEF GlobalLines
  <2>3. ~IsLocal(n) BY <2>2 DEF Orderly, GlobalsHere
  <2>4. Scoped(p, g, p[g].name) = n BY <2>2, <2>3 DEF Scoped
  <2>5. QED BY <1>2, <2>2, <2>4 DEF Entering
<1>5. QED BY <1>3, <1>4 DEF Defined, IsConst, Kind

LEMMA DefinedNames ==
    ASSUME NEW p, IsSource(p), Orderly(p), NEW n, Defined(p, n) \/ GlobalLines(p, n) # {}
    PROVE  n \in Names(p)
BY OtherKind

\* The kinds, and what they say.
LEMMA KindSays ==
    ASSUME NEW p, IsSource(p), NEW n
    PROVE  /\ Kind(p, n) \in {"const", "label", "global", "extern"}
           /\ Kind(p, n) = "const" <=> IsConst(p, n)
           /\ Kind(p, n) = "label" => Defined(p, n) /\ ~IsConst(p, n)
BY DEF Kind
-----------------------------------------------------------------------------
(* Types. *)

LEMMA SrcIs == ASSUME src \in Sources PROVE IsSource(src)
BY AssemblerAssumption

LEMMA StmtIs ==
    ASSUME Types, Reading
    PROVE  /\ IsSource(src) /\ line \in DOMAIN src /\ line \in 1 .. Len(src)
           /\ Stmt.op # "times" => IsPlain(Stmt) /\ Stmt = Body(src[line])
           /\ Stmt.op = "times" => rep = 0 /\ IsExpr(Stmt.e)
           /\ rep = 0 => Stmt = src[line]
           /\ rep > 0 => src[line].op = "times" /\ Stmt = src[line].body /\ IsPlain(Stmt)
<1>1. IsSource(src) /\ Len(src) \in Nat /\ DOMAIN src = 1 .. Len(src) BY SrcIs DEF Types, IsSource
<1>2. line \in DOMAIN src /\ rep \in Nat /\ (rep > 0 => src[line].op = "times")
  BY <1>1 DEF Types, TypeOK, Reading
<1>3. CASE rep > 0
  <2>1. src[line].op = "times" /\ Stmt = src[line].body BY <1>2, <1>3 DEF Stmt
  <2>2. IsPlain(src[line].body) BY <1>1, <1>2, <2>1, OpsApart
  <2>3. QED BY <1>1, <1>2, <1>3, <2>1, <2>2, PlainFields DEF Body
<1>4. CASE rep = 0
  <2>1. Stmt = src[line] BY <1>4 DEF Stmt
  <2>2. QED BY <1>1, <1>2, <1>4, <2>1, OpsApart DEF Body
<1>5. QED BY <1>2, <1>3, <1>4

LEMMA FullTyped ==
    ASSUME NEW t, TabOK(t), NEW n \in Seq(STRING), n # NoName
    PROVE  Full(t, n) \in Seq(STRING) /\ Full(t, n) # NoName
<1>1. t.last \in Seq(STRING)
  <2>1. NoName \in Seq(STRING) BY DEF NoName
  <2>2. QED BY <2>1 DEF TabOK
<1>2. t.last \o n \in Seq(STRING) /\ Len(t.last \o n) = Len(t.last) + Len(n) BY <1>1, ConcatProperties
<1>3. Len(n) \in Nat /\ Len(n) > 0 /\ Len(t.last) \in Nat BY <1>1 DEF NoName
<1>4. Len(t.last \o n) > 0 BY <1>2, <1>3
<1>5. t.last \o n # NoName BY <1>2, <1>4 DEF NoName
<1>6. QED BY <1>2, <1>5 DEF Full

LEMMA AddTyped ==
    ASSUME NEW t, TabOK(t), NEW kind \in Kinds, NEW n \in Seq(STRING), n # NoName, NEW v \in Int,
           seg \in Segments \cup {"none"},
           Full(t, n) \in DOMAIN t.sym \/ Cardinality(DOMAIN t.sym) < SYMBOLS_MAX
    PROVE  TabOK(Add(t, kind, n, v))
<1> DEFINE f == Full(t, n)
           u == Add(t, kind, n, v)
<1>1. f \in Seq(STRING) /\ f # NoName BY FullTyped
<1>2. /\ DOMAIN u.sym = DOMAIN t.sym \cup {f}
      /\ u.sym[f] = [kind |-> IF f \in DOMAIN t.sym THEN t.sym[f].kind ELSE kind,
                     value |-> v, seg |-> seg]
      /\ \A x \in DOMAIN t.sym : x # f => u.sym[x] = t.sym[x]
      /\ u.last = IF IsLocal(n) /\ t.last # NoName THEN t.last ELSE f
  BY DEF Add, Known
<1>3. u = [sym |-> u.sym, last |-> u.last, grew |-> u.grew] /\ u.grew \in BOOLEAN BY DEF Add, TabOK
<1>4. u.sym = [x \in DOMAIN u.sym |-> u.sym[x]] BY DEF Add
<1>5. IsFiniteSet(DOMAIN t.sym) /\ Cardinality(DOMAIN t.sym) <= SYMBOLS_MAX /\ t.last \in DOMAIN t.sym \cup {NoName}
      /\ t.sym \in [DOMAIN t.sym -> Symbol] /\ \A x \in DOMAIN t.sym : x \in Seq(STRING) /\ x # NoName
  BY DEF TabOK
<1> HIDE DEF f, u
<1>6. u.sym[f] \in Symbol BY <1>2, <1>5 DEF Symbol
<1>7. \A x \in DOMAIN u.sym : u.sym[x] \in Symbol BY <1>2, <1>5, <1>6
<1>8. u.sym \in [DOMAIN u.sym -> Symbol] BY <1>4, <1>7
<1>9. IsFiniteSet(DOMAIN u.sym) /\ Cardinality(DOMAIN u.sym) =
        IF f \in DOMAIN t.sym THEN Cardinality(DOMAIN t.sym) ELSE Cardinality(DOMAIN t.sym) + 1
  <2>1. IsFiniteSet(DOMAIN t.sym) BY <1>5
  <2>2. /\ IsFiniteSet(DOMAIN t.sym \cup {f})
        /\ Cardinality(DOMAIN t.sym \cup {f}) =
              IF f \in DOMAIN t.sym THEN Cardinality(DOMAIN t.sym) ELSE Cardinality(DOMAIN t.sym) + 1
    BY <2>1, FS_AddElement, Zenon
  <2>3. DOMAIN u.sym = DOMAIN t.sym \cup {f} BY <1>2
  <2>4. QED BY <2>2, <2>3, Zenon
<1>10. Cardinality(DOMAIN u.sym) <= SYMBOLS_MAX
  <2>1. SYMBOLS_MAX \in Nat BY AssemblerAssumption
  <2>2. Cardinality(DOMAIN t.sym) \in Nat BY <1>5, FS_CardinalityType
  <2>3. f \in DOMAIN t.sym \/ Cardinality(DOMAIN t.sym) < SYMBOLS_MAX BY DEF f
  <2>4. QED BY <1>5, <1>9, <2>1, <2>2, <2>3
<1>11. u.last = NoName \/ u.last \in DOMAIN u.sym BY <1>2, <1>5
<1>12. \A x \in DOMAIN u.sym : x \in Seq(STRING) /\ x # NoName BY <1>1, <1>2, <1>5
<1>13. TabOK(u) BY <1>3, <1>8, <1>9, <1>10, <1>11, <1>12 DEF TabOK
<1>14. QED BY <1>13 DEF u

LEMMA GetTyped ==
    ASSUME NEW t, TabOK(t), NEW n, n = NoName \/ IsName(n), seg \in Segments \cup {"none"},
           ~(Missing(t, n) /\ Overflows(t, n))
    PROVE  TabOK(Get(t, n))
<1>1. CASE ~Missing(t, n) BY <1>1 DEF Get
<1>2. CASE Missing(t, n)
  <2>1. IsName(n) /\ n # NoName /\ n \in Seq(STRING) BY <1>2, NameIs DEF Missing
  <2>2. Full(t, n) \in Seq(STRING) /\ Full(t, n) # NoName BY <2>1, FullTyped
  <2>3. Cardinality(DOMAIN t.sym) < SYMBOLS_MAX
    BY <1>2, FS_CardinalityType, AssemblerAssumption DEF Overflows, Missing, TabOK
  <2>4. TabOK(Add(t, "extern", Full(t, n), 0)) BY <2>2, <2>3, AddTyped DEF Kinds
  <2>5. QED BY <1>2, <2>4 DEF Get
<1>3. QED BY <1>1, <1>2
LEMMA SymbolTyped ==
    ASSUME NEW t, TabOK(t), NEW x \in DOMAIN t.sym
    PROVE  t.sym[x].kind \in Kinds /\ t.sym[x].value \in Int /\ t.sym[x].seg \in Segments \cup {"none"}
BY DEF TabOK, Symbol

LEMMA KindKnown ==
    ASSUME NEW t, NEW n, KindOf(t, n) \in Kinds
    PROVE  Full(t, n) \in DOMAIN t.sym /\ n # NoName /\ KindOf(t, n) = t.sym[Full(t, n)].kind
BY DEF KindOf, Known, Kinds

LEMMA NameValueIs ==
    ASSUME NEW t, NEW e, NEW mode, NEW disp, NEW off
    PROVE  LET k == KindOf(t, e.name)
               v == t.sym[Full(t, e.name)].value
           IN /\ k = "const" => NameValue(t, e, mode, disp, off) = e.by * v
              /\ k = "label" /\ mode = 1 => NameValue(t, e, mode, disp, off) = v
              /\ k = "label" /\ mode \in {2, 3} => NameValue(t, e, mode, disp, off) = v - off + disp
              /\ k # "const" /\ ~(k = "label" /\ mode \in {1, 2, 3}) => NameValue(t, e, mode, disp, off) = 0
BY DEF NameValue

LEMMA ValueTyped ==
    ASSUME NEW t, TabOK(t), NEW e, IsExpr(e), NEW mode, NEW disp \in Int, NEW off \in Int
    PROVE  Value(t, e, mode, disp, off) \in Int
<1> DEFINE k == KindOf(t, e.name)
           v == t.sym[Full(t, e.name)].value
           w == NameValue(t, e, mode, disp, off)
<1>1. k \in Kinds => v \in Int
  <2>1. SUFFICES ASSUME k \in Kinds PROVE v \in Int OBVIOUS
  <2>2. Full(t, e.name) \in DOMAIN t.sym BY <2>1, KindKnown
  <2>3. QED BY <2>2, SymbolTyped
<1>2. e.by \in Int /\ e.here \in Int /\ e.k \in Int BY DEF IsExpr
<1>3. /\ k = "const" => w = e.by * v
      /\ k = "label" /\ mode = 1 => w = v
      /\ k = "label" /\ mode \in {2, 3} => w = v - off + disp
      /\ k # "const" /\ ~(k = "label" /\ mode \in {1, 2, 3}) => w = 0
  BY NameValueIs
<1>4. "const" \in Kinds /\ "label" \in Kinds BY DEF Kinds
<1>5. Value(t, e, mode, disp, off) = w + e.here * off + e.k BY DEF Value
<1> HIDE DEF w, k, v
<1>6. k = "const" => e.by * v \in Int BY <1>1, <1>2, <1>4, ProductInt
<1>7. w \in Int BY <1>1, <1>3, <1>4, <1>6
<1>8. e.here * off \in Int BY <1>2, ProductInt
<1>9. QED BY <1>2, <1>5, <1>7, <1>8

\* The fields of the header.
LEMMA WordIs ==
    ASSUME NEW n \in 0 .. MaxWord
    PROVE  n \in Nat /\ n <= 65535
BY SMTT(40) DEF MaxWord

LEMMA WordMod ==
    ASSUME NEW n \in Int
    PROVE  /\ n % 65536 \in 0 .. MaxWord /\ n % 256 \in 0 .. MaxWord
           /\ 0 <= n /\ n <= 65535 => n % 65536 = n
<1> DEFINE d == n % 65536
           c == n % 256
<1>1. /\ d \in Int /\ 0 <= d /\ d <= 65535
      /\ c \in Int /\ 0 <= c /\ c <= 65535
      /\ 0 <= n /\ n <= 65535 => d = n
  OBVIOUS
<1> HIDE DEF d, c
<1>2. MaxWord = 65535 BY SMTT(40) DEF MaxWord
<1>3. MaxWord \in Int BY <1>2
<1>4. d <= MaxWord /\ c <= MaxWord BY <1>1, <1>2
<1>5. d \in 0 .. MaxWord /\ c \in 0 .. MaxWord BY <1>1, <1>3, <1>4
<1>6. QED BY <1>1, <1>5 DEF d, c

LEMMA SizesIs ==
    ASSUME NEW h \in Sizes
    PROVE  /\ \A g \in {"text", "data", "bss", "syms"} : h[g] \in Nat /\ h[g] <= 65535
           /\ h.syms \in Nat /\ h.syms <= 65535
           /\ DOMAIN h = {"text", "data", "bss", "syms"}
<1>1. \A g \in {"text", "data", "bss", "syms"} : h[g] \in 0 .. MaxWord BY DEF Sizes
<1>2. \A g \in {"text", "data", "bss", "syms"} : h[g] \in Nat /\ h[g] <= 65535
  <2>1. TAKE g \in {"text", "data", "bss", "syms"}
  <2> DEFINE n == h[g]
  <2>2. n \in 0 .. MaxWord BY <1>1
  <2> HIDE DEF n
  <2>3. n \in Nat /\ n <= 65535 BY <2>2, WordIs
  <2>4. QED BY <2>3 DEF n
<1>3. DOMAIN h = {"text", "data", "bss", "syms"} BY DEF Sizes
<1>4. QED BY <1>2, <1>3

LEMMA HereTyped ==
    ASSUME NEW h \in Sizes, seg \in Segments \cup {"none"}
    PROVE  Here(h) \in Nat
<1>1. CASE seg = "none" BY <1>1 DEF Here
<1>2. CASE seg \in Segments
  <2>1. seg \in {"text", "data", "bss", "syms"} /\ seg # "none" BY <1>2 DEF Segments
  <2>2. QED BY <2>1, SizesIs DEF Here
<1>3. QED BY <1>1, <1>2

LEMMA SizesExcept ==
    ASSUME NEW h \in Sizes, NEW g \in {"text", "data", "bss", "syms"}, NEW d \in 0 .. MaxWord
    PROVE  [h EXCEPT ![g] = d] \in Sizes
BY DEF Sizes

LEMMA GrowTyped ==
    ASSUME NEW h \in Sizes, seg \in Segments \cup {"none"}, NEW n \in Int
    PROVE  Grow(h, n) \in Sizes
<1>1. CASE seg = "none"
  <2>1. Grow(h, n) = h BY <1>1 DEF Grow
  <2>2. QED BY <2>1
<1>2. CASE seg \in Segments
  <2>5. seg \in {"text", "data", "bss", "syms"} /\ seg # "none" BY <1>2 DEF Segments
  <2>1. h[seg] \in Int BY <2>5, SizesIs
  <2>6. h[seg] + n \in Int BY <2>1
  <2> DEFINE d == (h[seg] + n) % 65536
  <2>3. Grow(h, n) = [h EXCEPT ![seg] = d] BY <2>5 DEF Grow
  <2>2. d \in 0 .. MaxWord BY <2>6, WordMod
  <2> HIDE DEF d
  <2>7. [h EXCEPT ![seg] = d] \in Sizes BY <2>2, <2>5, SizesExcept
  <2>4. QED BY <2>3, <2>7
<1>3. QED BY <1>1, <1>2

LEMMA SymsTyped ==
    ASSUME NEW h \in Sizes, NEW n \in Int
    PROVE  [h EXCEPT !.syms = (@ + n) % 65536] \in Sizes
<1>1. h.syms \in Int BY SizesIs
<1> DEFINE d == (h.syms + n) % 65536
<1>5. h.syms + n \in Int BY <1>1
<1>2. d \in 0 .. MaxWord BY <1>5, WordMod
<1>3. [h EXCEPT !.syms = (@ + n) % 65536] = [h EXCEPT !["syms"] = d] OBVIOUS
<1> HIDE DEF d
<1>4. QED BY <1>2, <1>3, SizesExcept

LEMMA MaxZero ==
    ASSUME NEW n \in Int
    PROVE  Max({n, 0}) = IF n >= 0 THEN n ELSE 0
<1> DEFINE m == IF n >= 0 THEN n ELSE 0
<1>1. m \in {n, 0} /\ \A y \in {n, 0} : m >= y OBVIOUS
<1>2. \A x \in {n, 0} : (\A y \in {n, 0} : x >= y) => x = m OBVIOUS
<1> HIDE DEF m
<1>3. Max({n, 0}) = m BY <1>1, <1>2 DEF Max
<1>4. QED BY <1>3 DEF m

\* The record an operand leaves: none or one.
LEMMA RefsAre ==
    ASSUME NEW t, NEW e, NEW mode, NEW disp, NEW off
    PROVE  LET k == KindOf(t, e.name)
               Ref(n, r) == [kind |-> "ref", name |-> n, seg |-> seg, off |-> off,
                             disp |-> disp, rel |-> r]
           IN Refs(t, e, mode, disp, off) =
                 IF k = "label" /\ mode = 1
                 THEN <<Ref(<<SegName[t.sym[Full(t, e.name)].seg]>>, "abs")>>
                 ELSE IF k \in {"extern", "global"} THEN <<Ref(Full(t, e.name), Rel[mode])>>
                 ELSE <<>>
BY DEF Refs

LEMMA RefsTyped ==
    ASSUME NEW t, TabOK(t), NEW e, IsExpr(e), NEW mode \in 0 .. 3, NEW disp \in Int, NEW off \in Int,
           seg \in Segments \cup {"none"},
           KindOf(t, e.name) \in {"label", "extern", "global"} => mode # 0
    PROVE  /\ Refs(t, e, mode, disp, off) \in Seq(Record)
           /\ Len(Refs(t, e, mode, disp, off)) \in {0, 1}
<1> DEFINE k == KindOf(t, e.name)
           f == Full(t, e.name)
           rr == Refs(t, e, mode, disp, off)
           Ref(n, r) == [kind |-> "ref", name |-> n, seg |-> seg, off |-> off, disp |-> disp, rel |-> r]
<1>1. \A n \in Seq(STRING) \cup SegNames, r \in {"abs", "rel8", "rel16"} : Ref(n, r) \in Record
  BY DEF Record
<1>2. CASE k = "label" /\ mode = 1
  <2>1. f \in DOMAIN t.sym BY <1>2, KindKnown DEF Kinds
  <2>9. t.sym[f].seg \in Segments \cup {"none"} BY <2>1, SymbolTyped
  <2>3. <<SegName[t.sym[f].seg]>> \in SegNames BY <2>9 DEF SegNames
  <2>4. rr = <<Ref(<<SegName[t.sym[f].seg]>>, "abs")>> BY <1>2, RefsAre
  <2> DEFINE x == Ref(<<SegName[t.sym[f].seg]>>, "abs")
  <2>5. x \in Record BY <1>1, <2>3
  <2> HIDE DEF x, rr
  <2>6. rr = <<x>> BY <2>4 DEF x
  <2>7. QED BY <2>5, <2>6 DEF rr
<1>3. CASE k \in {"extern", "global"}
  <2>1. f \in DOMAIN t.sym BY <1>3, KindKnown DEF Kinds
  <2>2. f \in Seq(STRING) BY <2>1 DEF TabOK
  <2>3. mode \in {1, 2, 3} BY <1>3
  <2>4. Rel[mode] \in {"abs", "rel8", "rel16"} BY <2>3 DEF Rel
  <2>5. rr = <<Ref(f, Rel[mode])>> BY <1>3, RefsAre
  <2> DEFINE x == Ref(f, Rel[mode])
  <2>6. x \in Record BY <1>1, <2>2, <2>4
  <2> HIDE DEF x, rr
  <2>7. rr = <<x>> BY <2>5 DEF x
  <2>8. QED BY <2>6, <2>7 DEF rr
<1>4. CASE (k # "label" /\ k \notin {"extern", "global"}) \/ (k = "label" /\ mode # 1)
  <2>1. rr = <<>> BY <1>4, RefsAre
  <2> HIDE DEF rr
  <2>2. QED BY <2>1 DEF rr
<1>5. QED BY <1>2, <1>3, <1>4
-----------------------------------------------------------------------------
(* Every action preserves the types. *)

LEMMA LineTyped ==
    ASSUME Types, Reading, NextLine, src' = src
    PROVE  /\ line' \in 1 .. Len(src') + 1 /\ rep' \in Nat
           /\ rep' > 0 => line' <= Len(src') /\ src'[line'].op = "times"
           /\ src' \in Sources
<1>1. /\ line \in 1 .. Len(src) + 1 /\ rep \in Nat /\ line <= Len(src) /\ src \in Sources
      /\ rep > 0 => line <= Len(src) /\ src[line].op = "times"
  BY DEF Types, TypeOK, Reading
<1>2. Len(src) \in Nat BY StmtIs DEF IsSource
<1>3. CASE rep > 1 BY <1>1, <1>2, <1>3 DEF NextLine
<1>4. CASE ~(rep > 1) BY <1>1, <1>2, <1>4 DEF NextLine
<1>5. QED BY <1>3, <1>4

LEMMA SectionTyped == ASSUME Types, Section PROVE Types'
<1>1. /\ Reading /\ NextLine /\ src' = src /\ seg' = Stmt.seg /\ Stmt.op = "section"
      /\ UNCHANGED <<pc, pass, tab, header, written, bytes, recs, out>>
  BY DEF Section, At, output
<1>2. seg' \in Segments \cup {"none"} BY <1>1, StmtIs DEF IsPlain
<1>3. QED BY <1>1, <1>2, LineTyped DEF Types, TypeOK, TabOK

LEMMA RoomIs ==
    ASSUME NEW t, TabOK(t), NEW n, n # NoName, ~Overflows(t, n)
    PROVE  Full(t, n) \in DOMAIN t.sym \/ Cardinality(DOMAIN t.sym) < SYMBOLS_MAX
BY FS_CardinalityType, AssemblerAssumption DEF Overflows, Known, TabOK

\* What stays when the table is all a statement changes.
LEMMA TabTyped ==
    ASSUME Types, Reading, NextLine, TabOK(tab'),
           UNCHANGED <<src, pc, pass, seg, header, output, error, out>>
    PROVE  Types'
<1>1. UNCHANGED <<src, pc, pass, seg, header, written, bytes, recs, out>> BY DEF output
<1>2. QED BY <1>1, LineTyped DEF Types, TypeOK, TabOK

LEMMA LabelTyped == ASSUME Types, Label PROVE Types'
<1>1. /\ Reading /\ NextLine /\ Stmt.op = "label" /\ ~Overflows(tab, Stmt.name)
      /\ tab' = Add(tab, "label", Stmt.name, Here(header))
      /\ UNCHANGED <<src, pc, pass, seg, header, output, error, out>>
  BY DEF Label, At
<1>2. TabOK(tab) /\ seg \in Segments \cup {"none"} /\ header \in Sizes BY DEF Types, TypeOK
<1>3. IsName(Stmt.name) BY <1>1, StmtIs DEF IsPlain
<1>4. Stmt.name \in Seq(STRING) /\ Stmt.name # NoName BY <1>3, NameIs
<1>5. Here(header) \in Int BY <1>2, HereTyped
<1>6. TabOK(tab') BY <1>1, <1>2, <1>4, <1>5, RoomIs, AddTyped DEF Kinds
<1>7. QED BY <1>1, <1>6, TabTyped

LEMMA ExternTyped == ASSUME Types, Extern PROVE Types'
<1>1. /\ Reading /\ NextLine /\ Stmt.op = "extern" /\ ~Overflows(tab, Stmt.name)
      /\ tab' = Add(tab, "extern", Stmt.name, 0)
      /\ UNCHANGED <<src, pc, pass, seg, header, output, error, out>>
  BY DEF Extern, At
<1>2. TabOK(tab) /\ seg \in Segments \cup {"none"} BY DEF Types, TypeOK
<1>3. IsName(Stmt.name) BY <1>1, StmtIs DEF IsPlain
<1>4. Stmt.name \in Seq(STRING) /\ Stmt.name # NoName BY <1>3, NameIs
<1>6. TabOK(tab') BY SMTT(40), <1>1, <1>2, <1>4, RoomIs, AddTyped DEF Kinds
<1>7. QED BY <1>1, <1>6, TabTyped

\* What equ does to the table: it enters the name, looks the expression up, and sets the value.
LEMMA EquIs ==
    ASSUME Types, Equ
    PROVE  LET n == Stmt.name
               t == Entered(tab)
               e == Stmt.e
               u == Get(t, e.name)
               f == Full(tab, n)
           IN /\ Reading /\ NextLine /\ Stmt.op \in {"equ", "labelequ"}
              /\ ~Overflows(tab, n) /\ ~(Missing(t, e.name) /\ Overflows(t, e.name))
              /\ IsName(n) /\ IsExpr(e)
              /\ TabOK(t) /\ TabOK(u) /\ f \in DOMAIN t.sym /\ f \in DOMAIN u.sym
              /\ tab'.last = u.last /\ tab'.grew = u.grew
              /\ DOMAIN tab'.sym = DOMAIN u.sym
              /\ \A x \in DOMAIN u.sym : x # f => tab'.sym[x] = u.sym[x]
              /\ tab'.sym[f] = [kind |-> IF Stmt.op = "labelequ" THEN "const" ELSE u.sym[f].kind,
                                value |-> Value(t, e, 0, 0, Here(header)), seg |-> u.sym[f].seg]
              /\ ~Misused(t, e, 0)
              /\ TabOK(tab')
              /\ UNCHANGED <<src, pc, pass, seg, header, output, error, out>>
<1> DEFINE n == Stmt.name
           t == Entered(tab)
           e == Stmt.e
           u == Get(t, e.name)
           f == Full(tab, n)
           V == Value(t, e, 0, 0, Here(header))
           K == IF Stmt.op = "labelequ" THEN "const" ELSE u.sym[f].kind
           r == [kind |-> K, value |-> V, seg |-> u.sym[f].seg]
<1>1. /\ Reading /\ NextLine /\ Stmt.op \in {"equ", "labelequ"}
      /\ ~Overflows(tab, n) /\ ~(Missing(t, e.name) /\ Overflows(t, e.name))
      /\ ~Misused(t, e, 0)
      /\ tab' = [u EXCEPT !.sym[f].value = V,
                          !.sym[f].kind = IF Stmt.op = "labelequ" THEN "const" ELSE @]
      /\ UNCHANGED <<src, pc, pass, seg, header, output, error, out>>
  BY DEF Equ, At
<1>2. TabOK(tab) /\ seg \in Segments \cup {"none"} /\ header \in Sizes BY DEF Types, TypeOK
<1>3. IsName(n) /\ IsExpr(e) BY <1>1, StmtIs DEF IsPlain
<1>4. n \in Seq(STRING) /\ n # NoName BY <1>3, NameIs
<1>5. Here(header) \in Int BY <1>2, HereTyped
<1>6. t = Add(tab, "const", n, 0) \/ t = Add(tab, "label", n, Here(header)) BY DEF Entered
<1>7. TabOK(t)
  <2>1. f \in DOMAIN tab.sym \/ Cardinality(DOMAIN tab.sym) < SYMBOLS_MAX BY <1>1, <1>2, <1>4, RoomIs
  <2>2. TabOK(Add(tab, "const", n, 0)) BY <1>2, <1>4, <2>1, AddTyped DEF Kinds
  <2>3. TabOK(Add(tab, "label", n, Here(header))) BY <1>2, <1>4, <1>5, <2>1, AddTyped DEF Kinds
  <2>4. QED BY <1>6, <2>2, <2>3
<1>8. f \in DOMAIN t.sym BY <1>6 DEF Add
<1>9. e.name = NoName \/ IsName(e.name) BY <1>3 DEF IsExpr
<1>10. TabOK(u) BY <1>1, <1>2, <1>7, <1>9, GetTyped
<1>11. f \in DOMAIN u.sym
  <2>1. u = t \/ u = Add(t, "extern", Full(t, e.name), 0) BY DEF Get
  <2>2. DOMAIN t.sym \subseteq DOMAIN u.sym BY <2>1 DEF Add
  <2>3. QED BY <1>8, <2>2
<1>12. V \in Int BY <1>3, <1>5, <1>7, ValueTyped
<1> HIDE DEF n, t, e, u, f, V
<1>13. tab' = [u EXCEPT !.sym = [u.sym EXCEPT ![f] = r]]
  <2>1. u.sym[f] \in Symbol /\ u.sym \in [DOMAIN u.sym -> Symbol] BY <1>10, <1>11 DEF TabOK
  <2> DEFINE s == u.sym[f]
             w == [s EXCEPT !.value = V]
  <2>6. w = [kind |-> s.kind, value |-> V, seg |-> s.seg] BY <2>1 DEF Symbol
  <2> HIDE DEF w, K, s
  <2>7. [w EXCEPT !.kind = K] = [kind |-> K, value |-> V, seg |-> s.seg] BY <2>6
  <2>2. [u.sym[f] EXCEPT !.value = V, !.kind = K] = r BY <2>7 DEF r, w, s
  <2>3. u = [sym |-> u.sym, last |-> u.last, grew |-> u.grew] BY <1>10 DEF TabOK
  <2>4. tab' = [u EXCEPT !.sym = [u.sym EXCEPT ![f] = [u.sym[f] EXCEPT !.value = V, !.kind = K]]]
    BY <1>1, <1>11, <2>1, <2>3 DEF Symbol, K
  <2>5. QED BY <2>2, <2>4
<1>14. K \in Kinds BY <1>10, <1>11, SymbolTyped DEF Kinds
<1>15. r \in Symbol BY <1>10, <1>11, <1>12, <1>14, SymbolTyped DEF Symbol
<1> HIDE DEF r
<1>16. /\ tab' = [sym |-> [u.sym EXCEPT ![f] = r], last |-> u.last, grew |-> u.grew]
       /\ u.sym \in [DOMAIN u.sym -> Symbol]
  BY <1>10, <1>13 DEF TabOK
<1>17. /\ DOMAIN tab'.sym = DOMAIN u.sym /\ tab'.sym[f] = r
       /\ tab'.last = u.last /\ tab'.grew = u.grew
       /\ \A x \in DOMAIN u.sym : x # f => tab'.sym[x] = u.sym[x]
       /\ tab' = [sym |-> tab'.sym, last |-> tab'.last, grew |-> tab'.grew]
       /\ tab'.sym \in [DOMAIN tab'.sym -> Symbol]
  BY <1>11, <1>15, <1>16
<1>18. TabOK(tab') BY <1>10, <1>17 DEF TabOK
<1>19. QED BY Zenon, <1>1, <1>3, <1>7, <1>8, <1>10, <1>11, <1>17, <1>18 DEF n, t, e, u, f, V, r

LEMMA EquTyped == ASSUME Types, Equ PROVE Types'
<1>1. Reading /\ NextLine /\ TabOK(tab') /\ UNCHANGED <<src, pc, pass, seg, header, output, error, out>>
  BY EquIs
<1>2. QED BY <1>1, TabTyped

\* What stays when a statement also counts or writes.
LEMMA OutTyped ==
    ASSUME Types, Reading, NextLine, TabOK(tab'), header' \in Sizes,
           bytes' \in Seq(Piece), recs' \in Seq(Record),
           UNCHANGED <<src, pc, pass, seg, written, error, out>>
    PROVE  Types'
BY LineTyped DEF Types, TypeOK, TabOK

LEMMA WriteTyped ==
    ASSUME Types, NEW lead \in Nat, NEW w \in Nat, NEW val \in 0 .. MaxWord, Write(lead, w, val)
    PROVE  bytes' \in Seq(Piece)
<1> DEFINE b == [seg |-> seg, line |-> line, lead |-> lead, w |-> w, val |-> val]
<1>1. seg \in Segments \cup {"none"} /\ bytes \in Seq(Piece) /\ line \in 1 .. Len(src) + 1
      /\ pc \in {"size", "text", "data", "symbols", "done", "failed"} /\ src \in Sources
  BY DEF Types, TypeOK
<1>2. line \in Nat BY <1>1, SrcIs DEF IsSource
<1>3. bytes' = IF seg = pc THEN Append(bytes, b) ELSE bytes BY DEF Write
<1>4. seg = pc => seg \in {"text", "data"} BY <1>1 DEF Segments
<1>5. seg = pc => b \in Piece BY <1>2, <1>4 DEF Piece
<1> HIDE DEF b
<1>6. QED BY <1>1, <1>3, <1>5

LEMMA GlobalIs ==
    ASSUME Types, Global
    PROVE  LET n == Stmt.name
               t == Get(tab, n)
               f == Full(t, n)
               v == IF Known(tab, n) THEN tab.sym[f].value ELSE 0
           IN /\ Reading /\ NextLine /\ Stmt.op = "global" /\ IsName(n)
              /\ ~Overflows(tab, n) /\ ~Overflows(t, n)
              /\ TabOK(t) /\ f \in Seq(STRING) /\ f # NoName /\ v \in Int
              /\ tab' = Add(t, "global", n, v) /\ TabOK(tab')
              /\ header' = [header EXCEPT !.syms = (@ + 1) % 65536] /\ header' \in Sizes
              /\ recs' = IF pc = "symbols"
                         THEN Append(recs, [kind |-> "global", name |-> f, seg |-> seg, off |-> v])
                         ELSE recs
              /\ UNCHANGED <<src, pc, pass, seg, written, bytes, error, out>>
<1> DEFINE n == Stmt.name
           t == Get(tab, n)
           f == Full(t, n)
           v == IF Known(tab, n) THEN tab.sym[f].value ELSE 0
<1>1. /\ Reading /\ NextLine /\ Stmt.op = "global" /\ ~Overflows(tab, n) /\ ~Overflows(t, n)
      /\ tab' = Add(t, "global", n, v)
      /\ header' = [header EXCEPT !.syms = (@ + 1) % 65536]
      /\ recs' = IF pc = "symbols"
                 THEN Append(recs, [kind |-> "global", name |-> f, seg |-> seg, off |-> v])
                 ELSE recs
      /\ UNCHANGED <<src, pc, pass, seg, written, bytes, error, out>>
  BY DEF Global, At
<1>2. TabOK(tab) /\ seg \in Segments \cup {"none"} /\ header \in Sizes BY DEF Types, TypeOK
<1>3. IsName(n) BY <1>1, StmtIs DEF IsPlain
<1>4. n \in Seq(STRING) /\ n # NoName BY <1>3, NameIs
<1>5. TabOK(t) BY <1>1, <1>2, <1>3, GetTyped
<1>6. f \in Seq(STRING) /\ f # NoName BY <1>4, <1>5, FullTyped
<1>7. Known(tab, n) => t = tab BY DEF Get, Missing
<1>8. Known(tab, n) => f \in DOMAIN tab.sym BY <1>7 DEF Known
<1>9. v \in Int BY <1>2, <1>8, SymbolTyped
<1>10. f \in DOMAIN t.sym \/ Cardinality(DOMAIN t.sym) < SYMBOLS_MAX BY <1>1, <1>4, <1>5, RoomIs
<1>11. TabOK(tab')
  <2> HIDE DEF t, v
  <2>1. TabOK(Add(t, "global", n, v)) BY <1>2, <1>4, <1>5, <1>9, <1>10, AddTyped DEF Kinds
  <2>2. QED BY <1>1, <2>1
<1>14. [header EXCEPT !.syms = (@ + 1) % 65536] \in Sizes BY <1>2, SymsTyped
<1> DEFINE x == [header EXCEPT !.syms = (@ + 1) % 65536]
<1>15. header' = x /\ x \in Sizes BY <1>1, <1>14
<1> HIDE DEF t, f, v, x
<1>12. header' \in Sizes BY <1>15
<1>13. QED BY <1>1, <1>3, <1>5, <1>6, <1>9, <1>11, <1>12 DEF t, f, v

LEMMA GlobalTyped == ASSUME Types, Global PROVE Types'
<1> DEFINE f == Full(Get(tab, Stmt.name), Stmt.name)
           v == IF Known(tab, Stmt.name) THEN tab.sym[f].value ELSE 0
           r == [kind |-> "global", name |-> f, seg |-> seg, off |-> v]
<1>1. /\ Reading /\ NextLine /\ f \in Seq(STRING) /\ v \in Int /\ TabOK(tab') /\ header' \in Sizes
      /\ recs' = IF pc = "symbols" THEN Append(recs, r) ELSE recs
      /\ UNCHANGED <<src, pc, pass, seg, written, bytes, error, out>>
  BY GlobalIs
<1>2. bytes \in Seq(Piece) /\ recs \in Seq(Record) /\ seg \in Segments \cup {"none"}
  BY DEF Types, TypeOK
<1> HIDE DEF f, v
<1>3. r \in Record BY <1>1, <1>2 DEF Record
<1> HIDE DEF r
<1>4. bytes' \in Seq(Piece) /\ recs' \in Seq(Record) BY <1>1, <1>2, <1>3
<1>5. QED BY <1>1, <1>4, OutTyped

LEMMA UsableTyped ==
    ASSUME Types, NEW e, IsExpr(e), ~(Missing(tab, e.name) /\ Overflows(tab, e.name))
    PROVE  /\ TabOK(Get(tab, e.name)) /\ TabOK(tab) /\ seg \in Segments \cup {"none"}
           /\ Here(header) \in Nat /\ Value(tab, e, 0, 0, Here(header)) \in Int
<1>1. TabOK(tab) /\ seg \in Segments \cup {"none"} /\ header \in Sizes BY DEF Types, TypeOK
<1>2. e.name = NoName \/ IsName(e.name) BY DEF IsExpr
<1>3. TabOK(Get(tab, e.name)) BY <1>1, <1>2, GetTyped
<1>4. Here(header) \in Nat BY <1>1, HereTyped
<1>5. Here(header) \in Int BY <1>4
<1>6. Value(tab, e, 0, 0, Here(header)) \in Int BY <1>1, <1>5, ValueTyped
<1>7. QED BY <1>1, <1>3, <1>4, <1>6

LEMMA ReserveIs ==
    ASSUME Types, Reserve
    PROVE  LET e == Stmt.e
               n == Value(tab, e, 0, 0, Here(header)) * Stmt.unit
           IN /\ Reading /\ NextLine /\ Stmt.op = "res" /\ IsExpr(e) /\ Stmt.unit \in {1, 2}
              /\ n \in Int /\ Max({n, 0}) = (IF n >= 0 THEN n ELSE 0)
              /\ ~Misused(tab, e, 0) /\ ~(Missing(tab, e.name) /\ Overflows(tab, e.name))
              /\ tab' = Get(tab, e.name) /\ TabOK(tab')
              /\ header' = Grow(header, n) /\ header' \in Sizes
              /\ Write(Max({n, 0}), 0, 0)
              /\ UNCHANGED <<src, pc, pass, seg, written, recs, error, out>>
<1> DEFINE e == Stmt.e
           n == Value(tab, e, 0, 0, Here(header)) * Stmt.unit
<1>1. /\ Reading /\ NextLine /\ Stmt.op = "res"
      /\ ~Misused(tab, e, 0) /\ ~(Missing(tab, e.name) /\ Overflows(tab, e.name))
      /\ tab' = Get(tab, e.name)
      /\ header' = Grow(header, n)
      /\ Write(Max({n, 0}), 0, 0)
      /\ UNCHANGED <<src, pc, pass, seg, written, recs, error, out>>
  BY DEF Reserve, At, Usable
<1>2. IsExpr(e) /\ Stmt.unit \in {1, 2} BY <1>1, StmtIs DEF IsPlain
<1>3. TabOK(tab') /\ Value(tab, e, 0, 0, Here(header)) \in Int /\ seg \in Segments \cup {"none"}
  BY <1>1, <1>2, UsableTyped
<1>4. n \in Int BY <1>2, <1>3
<1> HIDE DEF n
<1>5. Max({n, 0}) = IF n >= 0 THEN n ELSE 0 BY <1>4, MaxZero
<1>6. header' \in Sizes BY <1>1, <1>3, <1>4, GrowTyped DEF Types, TypeOK
<1>7. QED BY <1>1, <1>2, <1>3, <1>4, <1>5, <1>6 DEF n

LEMMA ReserveTyped == ASSUME Types, Reserve PROVE Types'
<1> DEFINE n == Value(tab, Stmt.e, 0, 0, Here(header)) * Stmt.unit
<1>1. /\ Reading /\ NextLine /\ n \in Int /\ Max({n, 0}) = (IF n >= 0 THEN n ELSE 0)
      /\ TabOK(tab') /\ header' \in Sizes /\ Write(Max({n, 0}), 0, 0)
      /\ UNCHANGED <<src, pc, pass, seg, written, recs, error, out>>
  BY ReserveIs
<1> HIDE DEF n
<1>2. Max({n, 0}) \in Nat BY <1>1
<1>3. 0 \in Int /\ 0 \in 0 .. MaxWord BY DEF MaxWord
<1>4. bytes' \in Seq(Piece) BY <1>1, <1>2, <1>3, WriteTyped
<1>5. recs' \in Seq(Record) BY <1>1 DEF Types, TypeOK
<1>6. QED BY <1>1, <1>4, <1>5, OutTyped

LEMMA EmitIs ==
    ASSUME Types, Emit
    PROVE  LET e == Stmt.e
               m == ModeOf(e, Stmt.mode)
               h == Grow(header, Stmt.lead)
               rr == Refs(tab, e, m, Stmt.disp, Here(h))
               v == Value(tab, e, m, Stmt.disp, Here(h))
           IN /\ Reading /\ NextLine /\ Stmt.op = "emit" /\ IsPlain(Stmt) /\ seg # "bss"
              /\ m \in 0 .. 3 /\ h \in Sizes /\ Here(h) \in Nat /\ v \in Int
              /\ ~Misused(tab, e, Stmt.mode) /\ ~(Missing(tab, e.name) /\ Overflows(tab, e.name))
              /\ Stmt.mode = 2 => v \in -128 .. 127
              /\ rr \in Seq(Record) /\ Len(rr) \in {0, 1}
              /\ tab' = Get(tab, e.name) /\ TabOK(tab')
              /\ header' = [Grow(h, Stmt.w) EXCEPT !.syms = (@ + Len(rr)) % 65536]
              /\ Grow(h, Stmt.w) \in Sizes /\ header' \in Sizes
              /\ recs' = IF pc = "symbols" THEN recs \o rr ELSE recs
              /\ Write(Stmt.lead, Stmt.w, v % (IF Stmt.w = 1 THEN 256 ELSE 65536))
              /\ v % (IF Stmt.w = 1 THEN 256 ELSE 65536) \in 0 .. MaxWord
              /\ UNCHANGED <<src, pc, pass, seg, written, error, out>>
<1> DEFINE e == Stmt.e
           m == ModeOf(e, Stmt.mode)
           h == Grow(header, Stmt.lead)
           rr == Refs(tab, e, m, Stmt.disp, Here(h))
           v == Value(tab, e, m, Stmt.disp, Here(h))
<1>1. /\ Reading /\ NextLine /\ Stmt.op = "emit" /\ seg # "bss"
      /\ ~Misused(tab, e, Stmt.mode) /\ ~(Missing(tab, e.name) /\ Overflows(tab, e.name))
      /\ Stmt.mode = 2 => v \in -128 .. 127
      /\ tab' = Get(tab, e.name)
      /\ header' = [Grow(h, Stmt.w) EXCEPT !.syms = (@ + Len(rr)) % 65536]
      /\ recs' = IF pc = "symbols" THEN recs \o rr ELSE recs
      /\ Write(Stmt.lead, Stmt.w, v % (IF Stmt.w = 1 THEN 256 ELSE 65536))
      /\ UNCHANGED <<src, pc, pass, seg, written, error, out>>
  BY SMTT(40) DEF Emit, At
<1>2. TabOK(tab) /\ seg \in Segments \cup {"none"} /\ header \in Sizes BY DEF Types, TypeOK
<1>3. IsPlain(Stmt) BY <1>1, StmtIs
<1>4. IsExpr(e) /\ Stmt.lead \in Nat /\ Stmt.w \in Nat /\ Stmt.mode \in 0 .. 3 /\ Stmt.disp \in Int
  BY <1>1, <1>3, PlainFields
<1>5. Stmt.lead \in Int /\ Stmt.w \in Int BY <1>4
<1>6. m \in 0 .. 3 BY <1>4 DEF ModeOf
<1>7. h \in Sizes BY <1>2, <1>5, GrowTyped
<1>8. Grow(h, Stmt.w) \in Sizes BY <1>2, <1>5, <1>7, GrowTyped
<1>9. Here(h) \in Nat /\ Here(h) \in Int BY <1>2, <1>7, HereTyped
<1>10. TabOK(tab') BY <1>1, <1>4, UsableTyped
<1>11. KindOf(tab, e.name) \in {"label", "extern", "global"} => m # 0 BY <1>1 DEF Misused
<1> HIDE DEF h, m, e
<1>12. rr \in Seq(Record) /\ Len(rr) \in {0, 1} BY <1>2, <1>4, <1>6, <1>9, <1>11, RefsTyped
<1>13. v \in Int BY <1>2, <1>4, <1>9, ValueTyped
<1> HIDE DEF rr, v
<1>14. v % (IF Stmt.w = 1 THEN 256 ELSE 65536) \in 0 .. MaxWord BY <1>13, WordMod
<1>15. Len(rr) \in Int BY <1>12
<1> DEFINE g == Grow(h, Stmt.w)
           c == Len(rr)
<1>16. c \in Int /\ g \in Sizes BY <1>8, <1>15
<1>17. header' = [g EXCEPT !.syms = (@ + c) % 65536] BY <1>1
<1> HIDE DEF g, c
<1>18. [g EXCEPT !.syms = (@ + c) % 65536] \in Sizes BY <1>16, SymsTyped
<1> DEFINE x == [g EXCEPT !.syms = (@ + c) % 65536]
<1>21. header' = x /\ x \in Sizes BY <1>17, <1>18
<1> HIDE DEF x
<1>19. header' \in Sizes BY <1>21
<1>20. QED BY SMTT(40), <1>1, <1>3, <1>6, <1>7, <1>8, <1>9, <1>10, <1>12, <1>13, <1>14, <1>19
        DEF e, m, h, rr, v

LEMMA EmitTyped == ASSUME Types, Emit PROVE Types'
<1> DEFINE m == ModeOf(Stmt.e, Stmt.mode)
           h == Grow(header, Stmt.lead)
           rr == Refs(tab, Stmt.e, m, Stmt.disp, Here(h))
           v == Value(tab, Stmt.e, m, Stmt.disp, Here(h)) % (IF Stmt.w = 1 THEN 256 ELSE 65536)
<1>1. /\ Reading /\ NextLine /\ Stmt.op = "emit" /\ IsPlain(Stmt) /\ rr \in Seq(Record)
      /\ TabOK(tab') /\ header' \in Sizes
      /\ recs' = IF pc = "symbols" THEN recs \o rr ELSE recs
      /\ Write(Stmt.lead, Stmt.w, v) /\ v \in 0 .. MaxWord
      /\ UNCHANGED <<src, pc, pass, seg, written, error, out>>
  BY EmitIs
<1>2. Stmt.lead \in Nat /\ Stmt.w \in Nat BY <1>1, PlainFields
<1> HIDE DEF rr, v
<1>3. bytes' \in Seq(Piece) BY <1>1, <1>2, WriteTyped
<1>4. recs \in Seq(Record) BY DEF Types, TypeOK
<1>5. recs' \in Seq(Record) BY <1>1, <1>4, ConcatProperties
<1>6. QED BY SMTT(40), <1>1, <1>3, <1>5, OutTyped

LEMMA TimesAre ==
    ASSUME Types, Times
    PROVE  LET e == Stmt.e
               n == Value(tab, e, 0, 0, Here(header))
           IN /\ Reading /\ Stmt.op = "times" /\ rep = 0 /\ Stmt = src[line] /\ IsExpr(e)
              /\ ~Misused(tab, e, 0) /\ ~(Missing(tab, e.name) /\ Overflows(tab, e.name))
              /\ n \in Nat
              /\ tab' = Get(tab, e.name) /\ TabOK(tab')
              /\ rep' = n
              /\ line' = IF n = 0 THEN line + 1 ELSE line
              /\ UNCHANGED <<src, pc, pass, seg, header, written, bytes, recs, error, out>>
<1> DEFINE e == Stmt.e
           n == Value(tab, e, 0, 0, Here(header))
<1>1. /\ Reading /\ Stmt.op = "times" /\ n >= 0
      /\ ~Misused(tab, e, 0) /\ ~(Missing(tab, e.name) /\ Overflows(tab, e.name))
      /\ tab' = Get(tab, e.name)
      /\ rep' = n
      /\ line' = IF n = 0 THEN line + 1 ELSE line
      /\ UNCHANGED <<src, pc, pass, seg, header, written, bytes, recs, error, out>>
  BY DEF Times, At, Usable, output
<1>2. rep = 0 /\ IsExpr(e) /\ Stmt = src[line] BY <1>1, StmtIs
<1>3. n \in Int /\ TabOK(tab') BY <1>1, <1>2, UsableTyped
<1> HIDE DEF n
<1>4. n \in Nat BY <1>1, <1>3
<1>5. QED BY <1>1, <1>2, <1>3, <1>4 DEF n

LEMMA TimesTyped == ASSUME Types, Times PROVE Types'
<1> DEFINE n == Value(tab, Stmt.e, 0, 0, Here(header))
<1>1. /\ Reading /\ Stmt.op = "times" /\ rep = 0 /\ Stmt = src[line]
      /\ n \in Nat /\ TabOK(tab') /\ rep' = n
      /\ line' = IF n = 0 THEN line + 1 ELSE line
      /\ UNCHANGED <<src, pc, pass, seg, header, written, bytes, recs, error, out>>
  BY TimesAre
<1> HIDE DEF n
<1>2. line \in 1 .. Len(src) /\ Len(src) \in Nat BY <1>1, StmtIs DEF IsSource
<1>3. /\ line' \in 1 .. Len(src') + 1 /\ rep' \in Nat
      /\ rep' > 0 => line' <= Len(src') /\ src'[line'].op = "times"
  BY <1>1, <1>2
<1>4. QED BY <1>1, <1>3 DEF Types, TypeOK, TabOK

LEMMA RefusedIs ==
    ASSUME Refused
    PROVE  /\ pc' = "failed" /\ out' = "removed"
           /\ UNCHANGED <<src, pass, tab, line, rep, seg, header, written, bytes, recs>>
BY DEF Refused, Fail, output

LEMMA RefusedTyped == ASSUME Types, Refused PROVE Types'
BY RefusedIs DEF Types, TypeOK, TabOK

LEMMA MinPass ==
    ASSUME NEW n \in 1 .. Later
    PROVE  Min({n + 1, Later}) = IF n = 1 THEN 2 ELSE Later
<1> DEFINE m == IF n = 1 THEN 2 ELSE Later
<1>1. n \in {1, 2, 3} /\ Later = 3 BY DEF Later
<1>2. m \in {n + 1, Later} /\ \A y \in {n + 1, Later} : m <= y BY <1>1
<1>3. \A x \in {n + 1, Later} : (\A y \in {n + 1, Later} : x <= y) => x = m BY <1>1
<1> HIDE DEF m
<1>4. Min({n + 1, Later}) = m BY <1>2, <1>3 DEF Min
<1>5. QED BY <1>4 DEF m

LEMMA ZeroTyped == Zero \in Sizes
<1>1. 0 \in 0 .. MaxWord BY DEF MaxWord
<1>2. QED BY <1>1 DEF Zero, Sizes

LEMMA SizingEndsIs ==
    ASSUME Types, SizingEnds
    PROVE  /\ pc = "size" /\ line > Len(src) /\ line' = 1
           /\ UNCHANGED <<src, rep, seg, bytes, recs, error, out>>
           /\ header' = Zero
           /\ tab.grew =>
                 /\ tab'.sym = tab.sym /\ tab'.last = tab.last /\ tab'.grew = FALSE
                 /\ pass' = (IF pass = 1 THEN 2 ELSE Later)
                 /\ UNCHANGED <<pc, written>>
           /\ ~tab.grew => written' = header /\ pc' = "text" /\ UNCHANGED <<pass, tab>>
           /\ TabOK(tab')
<1>1. /\ pc = "size" /\ PassEnds /\ header' = Zero /\ UNCHANGED out
      /\ tab.grew => /\ tab' = [tab EXCEPT !.grew = FALSE] /\ pass' = Min({pass + 1, Later})
                     /\ UNCHANGED <<pc, written>>
      /\ ~tab.grew => written' = header /\ pc' = "text" /\ UNCHANGED <<pass, tab>>
  BY DEF SizingEnds
<1>2. TabOK(tab) /\ pass \in 1 .. Later BY DEF Types, TypeOK
<1>3. Min({pass + 1, Later}) = IF pass = 1 THEN 2 ELSE Later BY <1>2, MinPass
<1>4. tab.grew => /\ tab' = [sym |-> tab.sym, last |-> tab.last, grew |-> FALSE]
  BY <1>1, <1>2 DEF TabOK
<1>5. TabOK(tab') BY <1>1, <1>2, <1>4 DEF TabOK
<1>6. QED BY <1>1, <1>3, <1>4, <1>5 DEF PassEnds

LEMMA SizingEndsTyped == ASSUME Types, SizingEnds PROVE Types'
<1>1. Len(src) \in Nat BY SrcIs DEF Types, IsSource
<1>2. /\ line > Len(src) /\ line' = 1 /\ UNCHANGED <<src, rep, seg, bytes, recs, error, out>>
      /\ header' \in Sizes /\ TabOK(tab')
      /\ pass' \in 1 .. Later /\ written' \in Sizes /\ pc' \in {"size", "text"}
  <2>1. pass \in 1 .. Later /\ header \in Sizes /\ written \in Sizes BY DEF Types, TypeOK
  <2>2. 2 \in 1 .. Later /\ Later \in 1 .. Later BY DEF Later
  <2>3. tab.grew \in BOOLEAN BY DEF Types, TypeOK, TabOK
  <2>4. CASE tab.grew BY <2>1, <2>2, <2>4, SizingEndsIs, ZeroTyped
  <2>5. CASE ~tab.grew BY <2>1, <2>2, <2>5, SizingEndsIs, ZeroTyped
  <2>6. QED BY <2>4, <2>5
<1>3. rep = 0 BY <1>1, <1>2 DEF Types, TypeOK
<1>4. QED BY <1>1, <1>2, <1>3 DEF Types, TypeOK, TabOK

LEMMA OutputEndsIs ==
    ASSUME Types, OutputEnds
    PROVE  /\ pc \in {"text", "data", "symbols"} /\ line > Len(src) /\ line' = 1
           /\ UNCHANGED <<src, pass, tab, rep, seg, written, bytes, recs, error>>
           /\ header' = IF pc = "symbols" THEN header ELSE Zero
           /\ pc = "text" => pc' = "data"
           /\ pc = "data" => pc' = "symbols"
           /\ pc = "symbols" => pc' = "done"
           /\ out' = IF pc = "symbols" THEN "closed" ELSE out
BY DEF OutputEnds, PassEnds

LEMMA OutputEndsTyped == ASSUME Types, OutputEnds PROVE Types'
<1>1. Len(src) \in Nat BY SrcIs DEF Types, IsSource
<1>2. /\ line > Len(src) /\ line' = 1
      /\ UNCHANGED <<src, pass, tab, rep, seg, written, bytes, recs, error>>
      /\ header' \in Sizes /\ pc' \in {"data", "symbols", "done"} /\ out' \in {"closed", out}
  BY OutputEndsIs, ZeroTyped DEF Types, TypeOK
<1>3. rep = 0 BY <1>1, <1>2 DEF Types, TypeOK
<1>4. QED BY <1>1, <1>2, <1>3 DEF Types, TypeOK, TabOK

LEMMA InitTyped == ASSUME Init PROVE Types
<1>1. /\ src \in Sources /\ pc = "size" /\ pass = 1 /\ line = 1 /\ rep = 0
      /\ tab = [sym |-> <<>>, last |-> NoName, grew |-> FALSE]
      /\ seg = "none" /\ header = Zero /\ written = Zero /\ bytes = <<>> /\ recs = <<>>
      /\ out = "open"
  BY DEF Init
<1>2. Len(src) \in Nat BY <1>1, SrcIs DEF IsSource
<1>3. DOMAIN <<>> = {} OBVIOUS
<1>4. IsFiniteSet({}) /\ Cardinality({}) = 0 BY FS_EmptySet
<1>5. TabOK(tab)
  <2>1. tab.sym \in [DOMAIN tab.sym -> Symbol] BY <1>1, <1>3
  <2>2. Cardinality(DOMAIN tab.sym) <= SYMBOLS_MAX BY <1>1, <1>3, <1>4, AssemblerAssumption
  <2>3. QED BY <1>1, <1>3, <1>4, <2>1, <2>2 DEF TabOK
<1>6. header \in Sizes /\ written \in Sizes BY <1>1, ZeroTyped
<1>7. bytes \in Seq(Piece) /\ recs \in Seq(Record) BY <1>1
<1>8. QED BY <1>1, <1>2, <1>5, <1>6, <1>7 DEF Types, TypeOK, Later

LEMMA StepTyped == ASSUME Types, [Next]_vars PROVE Types'
<1>1. CASE UNCHANGED vars BY <1>1 DEF vars, output, Types, TypeOK, TabOK
<1>2. CASE Parse
  BY <1>2, SectionTyped, LabelTyped, ExternTyped, EquTyped, GlobalTyped, ReserveTyped,
     EmitTyped, TimesTyped, RefusedTyped DEF Parse
<1>3. CASE SizingEnds BY <1>3, SizingEndsTyped
<1>4. CASE OutputEnds BY <1>4, OutputEndsTyped
<1>5. QED BY <1>1, <1>2, <1>3, <1>4 DEF Next, Assemble

\* The table stays within its slots, its names and values are names and values, and the
\* fields of the header keep their 16 bits, whatever is assembled.
THEOREM TypeCorrect == Spec => []TypeOK
<1>1. Init => Types BY InitTyped
<1>2. Types /\ [Next]_vars => Types' BY StepTyped
<1>3. Types => TypeOK BY Zenon DEF Types
<1>4. QED BY <1>1, <1>2, <1>3, PTL DEF Spec
-----------------------------------------------------------------------------
(* Where the pieces of the output are. *)

NothingLaid == [text |-> 0, data |-> 0]
LaidAfter(z, b) == [z EXCEPT ![b.seg] = @ + b.lead + b.w]

LEMMA LaidExists ==
    ASSUME NEW bs, Len(bs) \in Nat
    PROVE  Laid(bs) = [i \in 0 .. Len(bs) |->
                          IF i = 0 THEN NothingLaid ELSE LaidAfter(Laid(bs)[i - 1], bs[i])]
<1> DEFINE F(f, m) == [i \in 0 .. m |-> IF i = 0 THEN NothingLaid ELSE LaidAfter(f[i - 1], bs[i])]
           S == {m \in Nat : \E f : f = F(f, m)}
<1>1. 0 \in S
  <2> DEFINE h == [i \in 0 .. 0 |-> NothingLaid]
  <2>1. h = F(h, 0) OBVIOUS
  <2>2. QED BY <2>1
<1>2. ASSUME NEW m \in Nat, m \in S PROVE m + 1 \in S
  <2>1. PICK f : f = F(f, m) BY <1>2
  <2> DEFINE h == [i \in 0 .. m + 1 |-> IF i <= m THEN f[i] ELSE LaidAfter(f[m], bs[m + 1])]
  <2>2. \A i \in 0 .. m : f[i] = IF i = 0 THEN NothingLaid ELSE LaidAfter(f[i - 1], bs[i])
    <3>1. TAKE i \in 0 .. m
    <3>2. F(f, m)[i] = IF i = 0 THEN NothingLaid ELSE LaidAfter(f[i - 1], bs[i]) OBVIOUS
    <3> HIDE DEF F
    <3>3. QED BY <2>1, <3>2
  <2>3. \A i \in 0 .. m : h[i] = f[i] OBVIOUS
  <2>4. h[m + 1] = LaidAfter(f[m], bs[m + 1]) OBVIOUS
  <2>5. h = [i \in 0 .. m + 1 |-> h[i]] OBVIOUS
  <2> HIDE DEF h
  <2>6. \A i \in 0 .. m + 1 : h[i] = IF i = 0 THEN NothingLaid ELSE LaidAfter(h[i - 1], bs[i])
    <3>1. TAKE i \in 0 .. m + 1
    <3>2. CASE i <= m
      <4>1. i \in 0 .. m /\ (i # 0 => i - 1 \in 0 .. m) BY <3>2
      <4>2. h[i] = f[i] /\ (i # 0 => h[i - 1] = f[i - 1]) BY <2>3, <4>1
      <4>3. QED BY <2>2, <4>1, <4>2
    <3>3. CASE i = m + 1
      <4>1. i - 1 = m /\ m \in 0 .. m /\ i # 0 BY <3>3
      <4>2. h[m] = f[m] BY <2>3, <4>1
      <4>3. QED BY <2>4, <3>3, <4>1, <4>2
    <3>4. QED BY <3>2, <3>3
  <2>7. h = F(h, m + 1) BY <2>5, <2>6
  <2> HIDE DEF F
  <2>8. QED BY <2>7
<1>3. Nat \subseteq S
  <2> HIDE DEF S
  <2>1. QED BY <1>1, <1>2, NatIndSet
<1>4. \E f : f = F(f, Len(bs)) BY <1>3
<1>5. QED BY Zenon, <1>4 DEF Laid, LaidAfter, NothingLaid

LEMMA LaidStep ==
    ASSUME NEW bs, Len(bs) \in Nat
    PROVE  /\ Laid(bs)[0] = NothingLaid
           /\ \A i \in 1 .. Len(bs) : Laid(bs)[i] = LaidAfter(Laid(bs)[i - 1], bs[i])
<1> DEFINE G(f) == [i \in 0 .. Len(bs) |-> IF i = 0 THEN NothingLaid ELSE LaidAfter(f[i - 1], bs[i])]
           A == Laid(bs)
<1>1. A = G(A) BY LaidExists
<1> HIDE DEF A
<1>2. A[0] = NothingLaid BY <1>1
<1>3. \A i \in 1 .. Len(bs) : A[i] = LaidAfter(A[i - 1], bs[i])
  <2>1. TAKE i \in 1 .. Len(bs)
  <2>2. i \in 0 .. Len(bs) /\ i # 0 OBVIOUS
  <2>3. QED BY <1>1, <2>2
<1>4. QED BY <1>2, <1>3 DEF A

LEMMA LaidAfterIs ==
    ASSUME NEW z \in [{"text", "data"} -> Nat], NEW b \in Piece
    PROVE  /\ LaidAfter(z, b) \in [{"text", "data"} -> Nat]
           /\ \A g \in {"text", "data"} :
                 LaidAfter(z, b)[g] = IF g = b.seg THEN z[g] + b.lead + b.w ELSE z[g]
<1>1. b.seg \in {"text", "data"} /\ b.lead \in Nat /\ b.w \in Nat BY DEF Piece
<1> DEFINE d == z[b.seg] + b.lead + b.w
<1>2. d \in Nat BY <1>1
<1>3. LaidAfter(z, b) = [z EXCEPT ![b.seg] = d] BY DEF LaidAfter
<1> HIDE DEF d
<1>4. /\ LaidAfter(z, b) \in [{"text", "data"} -> Nat]
      /\ \A g \in {"text", "data"} : LaidAfter(z, b)[g] = IF g = b.seg THEN d ELSE z[g]
  BY <1>1, <1>2, <1>3
<1>5. QED BY <1>4 DEF d

LEMMA LaidTyped ==
    ASSUME NEW bs \in Seq(Piece), NEW i \in 0 .. Len(bs)
    PROVE  Laid(bs)[i] \in [{"text", "data"} -> Nat]
<1> DEFINE S == {m \in Nat : m <= Len(bs) => Laid(bs)[m] \in [{"text", "data"} -> Nat]}
<1>1. Len(bs) \in Nat /\ DOMAIN bs = 1 .. Len(bs) OBVIOUS
<1>2. 0 \in S BY <1>1, LaidStep DEF NothingLaid
<1>3. ASSUME NEW m \in Nat, m \in S PROVE m + 1 \in S
  <2>1. SUFFICES ASSUME m + 1 <= Len(bs) PROVE Laid(bs)[m + 1] \in [{"text", "data"} -> Nat] OBVIOUS
  <2>2. m + 1 \in 1 .. Len(bs) /\ m + 1 - 1 = m BY <1>1, <2>1
  <2>3. Laid(bs)[m] \in [{"text", "data"} -> Nat] BY <1>1, <1>3, <2>1
  <2>4. bs[m + 1] \in Piece BY <1>1, <2>2
  <2>5. Laid(bs)[m + 1] = LaidAfter(Laid(bs)[m], bs[m + 1]) BY <1>1, <2>2, LaidStep
  <2>6. QED BY <2>3, <2>4, <2>5, LaidAfterIs
<1>4. Nat \subseteq S
  <2> HIDE DEF S
  <2>1. QED BY <1>2, <1>3, NatIndSet
<1>5. QED BY <1>1, <1>4

\* A piece that is appended leaves the others where they are.
LEMMA LaidAppend ==
    ASSUME NEW bs \in Seq(Piece), NEW b \in Piece
    PROVE  /\ \A i \in 0 .. Len(bs) : Laid(Append(bs, b))[i] = Laid(bs)[i]
           /\ Laid(Append(bs, b))[Len(bs) + 1] = LaidAfter(Laid(bs)[Len(bs)], b)
<1> DEFINE bb == Append(bs, b)
           S == {m \in Nat : m <= Len(bs) => Laid(bb)[m] = Laid(bs)[m]}
<1>1. /\ Len(bs) \in Nat /\ Len(bb) = Len(bs) + 1 /\ Len(bb) \in Nat
      /\ \A i \in 1 .. Len(bs) : bb[i] = bs[i]
      /\ bb[Len(bs) + 1] = b
  OBVIOUS
<1> HIDE DEF bb
<1>2. 0 \in S BY <1>1, LaidStep
<1>3. ASSUME NEW m \in Nat, m \in S PROVE m + 1 \in S
  <2>1. SUFFICES ASSUME m + 1 <= Len(bs) PROVE Laid(bb)[m + 1] = Laid(bs)[m + 1] OBVIOUS
  <2>2. m + 1 \in 1 .. Len(bs) /\ m + 1 \in 1 .. Len(bb) /\ m + 1 - 1 = m BY <1>1, <2>1
  <2>3. Laid(bb)[m] = Laid(bs)[m] BY <1>1, <1>3, <2>1
  <2>4. Laid(bb)[m + 1] = LaidAfter(Laid(bb)[m], bb[m + 1]) BY <1>1, <2>2, LaidStep
  <2>5. Laid(bs)[m + 1] = LaidAfter(Laid(bs)[m], bs[m + 1]) BY <1>1, <2>2, LaidStep
  <2>6. QED BY <1>1, <2>2, <2>3, <2>4, <2>5
<1>4. Nat \subseteq S
  <2> HIDE DEF S
  <2>1. QED BY <1>2, <1>3, NatIndSet
<1>5. \A i \in 0 .. Len(bs) : Laid(bb)[i] = Laid(bs)[i] BY <1>1, <1>4
<1>6. Laid(bb)[Len(bs) + 1] = LaidAfter(Laid(bb)[Len(bs)], b)
  <2>1. Len(bs) + 1 \in 1 .. Len(bb) /\ Len(bs) + 1 - 1 = Len(bs) BY <1>1
  <2>2. QED BY <1>1, <2>1, LaidStep
<1>7. Laid(bb)[Len(bs)] = Laid(bs)[Len(bs)] BY <1>1, <1>5
<1>8. QED BY <1>5, <1>6, <1>7 DEF bb
-----------------------------------------------------------------------------
(* Names at the line that is read. *)

\* as keeps a name as the source means it, unless a pass has gone astray: then a local name
\* is kept as one that no other line means.
LEMMA Lookup ==
    ASSUME Types, Live, LastOK, Reading, NEW n, IsName(n), n \in NamesAt(src, line),
           src[line].op \in Entering /\ IsLocal(n) => n = src[line].name,
           NEW f, f = Full(tab, n), NEW s, s = Scoped(src, line, n)
    PROVE  /\ \/ f = s
              \/ /\ Astray /\ IsLocal(n) /\ f \notin Names(src) /\ Len(f) # 1
                 /\ <<f[1]>> \notin Names(src) /\ f[1] \notin Locals
           /\ f \in Seq(STRING) /\ f # NoName
           /\ ~IsLocal(n) => f = n /\ s = n /\ Len(n) = 1
           /\ IsLocal(n) => tab.last # NoName /\ Len(s) # 1
<1>1. IsSource(src) /\ line \in DOMAIN src /\ line \in 1 .. Len(src) BY StmtIs
<1>2. Len(src) \in Nat BY <1>1 DEF IsSource
<1>3. n \in Seq(STRING) /\ n # NoName /\ Len(n) = 1 BY NameIs
<1>4. TabOK(tab) BY DEF Types, TypeOK
<1>5. f \in Seq(STRING) /\ f # NoName BY <1>3, <1>4, FullTyped
<1>6. CASE ~IsLocal(n)
  <2>1. f = n /\ s = n BY <1>6 DEF Full, Scoped
  <2>2. QED BY <1>3, <1>5, <1>6, <2>1
<1>7. CASE IsLocal(n)
  <2> DEFINE r == Root(src, line)
  <2>1. r # NoName BY <1>1, <1>7 DEF Live, Orderly, Rooted
  <2>2. r = Root(src, line - 1) BY <1>1, <1>7, RootStays
  <2>3. line \in 0 .. Len(src) BY <1>1, <1>2
  <2>4. IsName(r) BY <2>1, <2>3, <1>1, RootIs
  <2>5. s = r \o n /\ f = tab.last \o n BY <1>3, <1>7 DEF Scoped, Full
  <2>6. tab.last = r \/ Astray BY <2>1, <2>2 DEF LastOK
  <2> HIDE DEF r
  <2>7. r \in Seq(STRING) /\ r # NoName BY <2>4, NameIs
  <2>8. Len(s) # 1 BY <2>5, <2>7, ConcatName
  <2>9. CASE tab.last = r BY <1>5, <1>7, <2>5, <2>7, <2>8, <2>9
  <2>10. CASE Astray
    <3>1. tab.last # NoName /\ <<tab.last[1]>> \notin Names(src) /\ tab.last[1] \notin Locals
      BY <2>10 DEF Astray
    <3>2. tab.last \in Seq(STRING) BY <1>4, <3>1 DEF TabOK
    <3>3. Len(f) # 1 /\ f[1] = tab.last[1] BY <2>5, <3>1, <3>2, ConcatName
    <3>4. Len(src) \in 0 .. Len(src) /\ Rooted(src) BY <1>2 DEF Live, Orderly
    <3>5. \A m \in Names(src) : <<m[1]>> \in Names(src) BY <1>1, <3>4, NameShape DEF Names
    <3>6. f \notin Names(src) BY <3>1, <3>3, <3>5
    <3>7. QED BY <1>5, <1>7, <2>8, <2>10, <3>1, <3>3, <3>6
  <2>11. QED BY <2>6, <2>9, <2>10
<1>8. QED BY <1>6, <1>7

\* The statement at hand and its names.
LEMMA StmtNames ==
    ASSUME Types, Live, Reading
    PROVE  /\ Stmt.op \in Entering \cup {"section", "times", "unknown"} => rep = 0 /\ Stmt = src[line]
           /\ Stmt.op \in Entering => Stmt.name \in NamesAt(src, line) /\ IsName(Stmt.name)
           /\ Stmt.op = "emit" => /\ Stmt.e \in Operand(src, line) /\ IsExpr(Stmt.e)
                                  /\ src[line].op \notin Entering
           /\ Stmt.op \in {"equ", "labelequ", "res", "times"} =>
                 /\ Stmt.e \in Sizing(src, line) /\ IsExpr(Stmt.e)
                 /\ Stmt.op = "res" /\ rep > 0 => Stmt.e.here = 0
           /\ \A e \in Sizing(src, line) \cup Operand(src, line) :
                 e.name # NoName => e.name \in NamesAt(src, line)
           /\ Stmt.op # "times" => Stmt = Body(src[line])
           /\ rep = 0 /\ Stmt.op # "times" => src[line].op # "times"
           /\ rep > 0 => src[line].op = "times" /\ Stmt.op \in {"emit", "res"}
<1>1. /\ IsSource(src) /\ line \in DOMAIN src
      /\ Stmt.op # "times" => IsPlain(Stmt) /\ Stmt = Body(src[line])
      /\ Stmt.op = "times" => rep = 0 /\ IsExpr(Stmt.e)
      /\ rep = 0 => Stmt = src[line]
      /\ rep > 0 => src[line].op = "times" /\ Stmt = src[line].body /\ IsPlain(Stmt)
      /\ rep \in Nat
  BY StmtIs DEF Types, TypeOK
<1>2. rep > 0 => \/ Stmt.op = "emit"
                 \/ Stmt.op = "res" /\ Stmt.e.here = 0
  BY <1>1 DEF Live, Orderly, Repeats
<1>3. ASSUME Stmt.op \in Entering \cup {"section", "times", "unknown"} PROVE rep = 0 /\ Stmt = src[line]
  BY <1>1, <1>2, <1>3 DEF Entering
<1>4. ASSUME Stmt.op \in Entering PROVE Stmt.name \in NamesAt(src, line) /\ IsName(Stmt.name)
  BY <1>1, <1>3, <1>4, OpsApart DEF NamesAt
<1>5. ASSUME Stmt.op = "emit"
      PROVE  Stmt.e \in Operand(src, line) /\ IsExpr(Stmt.e) /\ src[line].op \notin Entering
  <2>1. Stmt.e \in Operand(src, line) /\ IsExpr(Stmt.e) BY <1>1, <1>5, PlainFields DEF Operand
  <2>2. src[line].op \in {"emit", "times"} BY <1>1, <1>5
  <2>3. QED BY <2>1, <2>2 DEF Entering
<1>6. ASSUME Stmt.op \in {"equ", "labelequ", "res", "times"}
      PROVE  Stmt.e \in Sizing(src, line) /\ IsExpr(Stmt.e)
  <2>1. IsExpr(Stmt.e) BY <1>1, <1>6, PlainFields
  <2>2. CASE rep > 0
    <3>1. src[line].op = "times" /\ Stmt = src[line].body /\ Stmt.op = "res" BY <1>1, <1>2, <1>6, <2>2
    <3>2. QED BY <2>1, <3>1 DEF Sizing
  <2>3. CASE rep = 0
    <3>1. Stmt = src[line] BY <1>1, <2>3
    <3>2. Stmt.e \in Sizing(src, line) BY <1>6, <3>1 DEF Sizing
    <3>3. QED BY <2>1, <3>2
  <2>4. QED BY <1>1, <2>2, <2>3
<1>7. \A e \in Sizing(src, line) \cup Operand(src, line) :
         e.name # NoName => e.name \in NamesAt(src, line)
  BY DEF NamesAt
<1>8. rep = 0 /\ Stmt.op # "times" => src[line].op # "times" BY <1>1
<1>9. QED BY <1>1, <1>2, <1>3, <1>4, <1>5, <1>6, <1>7, <1>8

\* A name a size is made of is a constant, and known from the second pass on.
LEMMA SizingName ==
    ASSUME Types, Live, TableOK, Reading, NEW e \in Sizing(src, line), IsExpr(e), e.name # NoName
    PROVE  LET n == e.name IN
           /\ IsName(n) /\ ~IsLocal(n) /\ Len(n) = 1 /\ n \in Names(src) /\ IsConst(src, n)
           /\ Full(tab, n) = n
           /\ IsNumber(src, n) \/ DefLine(src, n) < line
           /\ pass >= 2 => /\ n \in DOMAIN tab.sym /\ Known(tab, n) /\ KindOf(tab, n) = "const"
                           /\ tab.sym[n].value = ConstIn(src, After(src), line, n)
           /\ ~Missing(tab, n)
<1> DEFINE n == e.name
<1>1. IsSource(src) /\ line \in DOMAIN src BY StmtIs
<1>2. Orderly(src) BY DEF Live
<1>3. IsName(n) /\ Len(n) = 1 BY NameIs DEF IsExpr
<1>4. ~IsLocal(n) /\ IsConst(src, n) /\ (IsNumber(src, n) \/ DefLine(src, n) < line)
  BY <1>1, <1>2 DEF Orderly, SizesKnown
<1>5. Defined(src, n) BY <1>4 DEF IsConst
<1>6. n \in Names(src) BY <1>1, <1>2, <1>5, DefinedNames
<1>7. Full(tab, n) = n BY <1>4 DEF Full
<1>8. ASSUME pass >= 2
      PROVE  /\ n \in DOMAIN tab.sym /\ Known(tab, n) /\ KindOf(tab, n) = "const"
             /\ tab.sym[n].value = ConstIn(src, After(src), line, n)
  <2>1. n \in DOMAIN tab.sym BY <1>6, <1>8 DEF TableOK, PassOK
  <2>2. Known(tab, n) BY <1>7, <2>1 DEF Known
  <2>3. Kind(src, n) = "const" BY <1>1, <1>4, KindSays
  <2>4. tab.sym[n].kind = "const" BY <1>3, <2>1, <2>3 DEF TableOK, KindsOK
  <2>5. KindOf(tab, n) = "const" BY <1>7, <2>2, <2>4 DEF KindOf
  <2>6. tab.sym[n].value = ConstIn(src, After(src), line, n)
    <3>1. CASE IsNumber(src, n)
      <4>1. tab.sym[n].value = src[DefLine(src, n)].e.k BY <1>6, <2>1, <3>1 DEF TableOK, NumbersOK
      <4>2. QED BY <3>1, <4>1 DEF ConstIn
    <3>2. CASE ~IsNumber(src, n)
      <4>1. DefLine(src, n) < line BY <1>4, <3>2
      <4>2. tab.sym[n].value = ConstOf(src, n) BY <1>3, <1>4, <1>6, <1>8, <4>1 DEF TableOK, ConstsOK
      <4>3. QED BY <1>4, <3>2, <4>1, <4>2 DEF ConstIn, ConstOf
    <3>3. QED BY <3>1, <3>2
  <2>7. QED BY <2>1, <2>2, <2>5, <2>6
<1>9. ~Missing(tab, n) BY <1>8 DEF Missing
<1>10. QED BY <1>3, <1>4, <1>6, <1>7, <1>8, <1>9

\* Where the line is.
LEMMA HereIs ==
    ASSUME Types, Live, SegOK, SizesOK, Reading, pass >= 2, src[line].op # "section"
    PROVE  /\ seg = SegAt(src, line) /\ seg \in Segments /\ seg # "none"
           /\ \A h : Here(h) = h[seg]
           /\ header[seg] = Start(src, line) + (IF rep > 0 THEN Read * SizeOf(src, line) ELSE 0)
<1>1. IsSource(src) /\ line \in DOMAIN src /\ line \in 1 .. Len(src) BY StmtIs
<1>2. Orderly(src) BY DEF Live
<1>3. SegAt(src, line) = SegAt(src, line - 1) BY <1>1, SegStays
<1>4. seg = SegAt(src, line) BY <1>3 DEF SegOK, Reads, Reading
<1>5. seg \in Segments BY <1>1, <1>2, <1>4, LineAdds
<1>6. seg # "none" BY <1>5 DEF Segments
<1>7. header[seg] = After(src)[line - 1].size[seg] + (IF rep > 0 THEN Read * SizeOf(src, line) ELSE 0)
  BY <1>5 DEF SizesOK, Reads, Reading
<1>8. QED BY <1>4, <1>5, <1>6, <1>7 DEF Start, Here

\* The size of a statement, or the value of a constant, is what the source says.
LEMMA SizingValue ==
    ASSUME Types, Live, TableOK, SegOK, SizesOK, Reading, pass >= 2,
           NEW e \in Sizing(src, line), IsExpr(e), rep > 0 => e.here = 0,
           NEW t,
           e.name # NoName => /\ KindOf(t, e.name) = KindOf(tab, e.name)
                              /\ t.sym[Full(t, e.name)].value = tab.sym[Full(tab, e.name)].value
    PROVE  /\ Value(t, e, 0, 0, Here(header)) = ExprIn(src, After(src), line, e, Start(src, line))
           /\ ExprIn(src, After(src), line, e, Start(src, line)) \in Int
<1> DEFINE c == ConstIn(src, After(src), line, e.name)
           S == Start(src, line)
<1>1. IsSource(src) /\ line \in DOMAIN src /\ line \in 1 .. Len(src) /\ Orderly(src) BY StmtIs DEF Live
<1>2. src[line].op # "section"
  <2>1. src[line].op \in {"equ", "labelequ", "res", "times"} BY DEF Sizing
  <2>2. QED BY <2>1
<1>3. Here(header) = header[seg] /\ (rep = 0 => header[seg] = S)
  <2>1. \A h : Here(h) = h[seg] BY <1>2, HereIs
  <2>2. header[seg] = S + (IF rep > 0 THEN Read * SizeOf(src, line) ELSE 0) BY <1>2, HereIs
  <2>3. S \in Int BY <1>1, LineAdds
  <2>4. QED BY <2>1, <2>2, <2>3
<1>4. S \in Int /\ header[seg] \in Int
  <2>1. header \in Sizes /\ seg \in {"text", "data", "bss", "syms"}
    BY <1>2, HereIs DEF Types, TypeOK, Segments
  <2>2. QED BY SMTT(40), <1>1, <2>1, LineAdds, SizesIs
<1>5. e.here * header[seg] = e.here * S
  <2>1. e.here \in Int /\ rep \in Nat BY DEF IsExpr, Types, TypeOK
  <2>2. CASE rep = 0 BY <1>3, <2>2
  <2>3. CASE rep > 0 BY <1>4, <2>3
  <2>4. QED BY <2>1, <2>2, <2>3
<1>6. NameValue(t, e, 0, 0, Here(header)) = e.by * c
  <2>1. CASE e.name = NoName
    <3>1. c = 0 BY <2>1 DEF ConstIn
    <3>2. KindOf(t, e.name) = "unknown" BY <2>1 DEF KindOf, Known
    <3>3. NameValue(t, e, 0, 0, Here(header)) = 0 BY <3>2, NameValueIs
    <3>4. e.by \in Int BY DEF IsExpr
    <3>5. e.by * 0 = 0 BY <3>4
    <3>6. QED BY <3>1, <3>3, <3>5
  <2>2. CASE e.name # NoName
    <3>1. KindOf(tab, e.name) = "const" /\ tab.sym[e.name].value = c /\ Full(tab, e.name) = e.name
      BY <2>2, SizingName
    <3>2. KindOf(t, e.name) = "const" /\ t.sym[Full(t, e.name)].value = c BY <2>2, <3>1
    <3> HIDE DEF c
    <3>3. NameValue(t, e, 0, 0, Here(header)) = e.by * t.sym[Full(t, e.name)].value
      BY <3>2, NameValueIs
    <3>4. QED BY <3>2, <3>3
  <2>3. QED BY <2>1, <2>2
<1>7. Value(t, e, 0, 0, Here(header)) = e.by * c + e.here * S + e.k
  BY <1>3, <1>5, <1>6 DEF Value
<1>8. ExprIn(src, After(src), line, e, S) \in Int
  <2>1. Len(src) \in Nat BY <1>1 DEF IsSource
  <2>2. \A k \in 0 .. line - 1 : k \in 0 .. Len(src) BY <1>1, <2>1
  <2>3. \A k \in 0 .. line - 1 : After(src)[k].val \in Int BY <1>1, <2>2, AfterTyped
  <2> DEFINE A == After(src)
  <2> HIDE DEF A, S
  <2>4. \A k \in 0 .. line - 1 : A[k].val \in Int BY <2>3 DEF A
  <2>5. ExprIn(src, A, line, e, S) \in Int BY <1>1, <1>4, <2>4, ExprInt
  <2>6. QED BY <2>5 DEF A
<1>9. QED BY <1>7, <1>8 DEF ExprIn

LEMMA TimesValue ==
    ASSUME Types, Live, TableOK, SegOK, SizesOK, Reading, pass >= 2, Stmt.op = "times"
    PROVE  Value(tab, Stmt.e, 0, 0, Here(header)) = TimesOf(src, line)
<1>1. rep = 0 /\ Stmt = src[line] /\ Stmt.e \in Sizing(src, line) /\ IsExpr(Stmt.e) BY StmtNames
<1>2. Value(tab, Stmt.e, 0, 0, Here(header)) = ExprIn(src, After(src), line, Stmt.e, Start(src, line))
  BY <1>1, SizingValue
<1>3. QED BY <1>1, <1>2 DEF TimesOf, TimesIn

LEMMA ReserveValue ==
    ASSUME Types, Live, TableOK, SegOK, SizesOK, Reading, pass >= 2, Stmt.op = "res"
    PROVE  Value(tab, Stmt.e, 0, 0, Here(header)) * Stmt.unit = SizeOf(src, line)
<1>1. Stmt.e \in Sizing(src, line) /\ IsExpr(Stmt.e) /\ (rep > 0 => Stmt.e.here = 0)
      /\ Stmt = Body(src[line])
  BY StmtNames
<1>2. Value(tab, Stmt.e, 0, 0, Here(header)) = ExprIn(src, After(src), line, Stmt.e, Start(src, line))
  BY <1>1, SizingValue
<1>3. QED BY <1>1, <1>2 DEF SizeOf, SizeIn

LEMMA EquValue ==
    ASSUME Types, Live, TableOK, SegOK, SizesOK, Reading, pass >= 2, Stmt.op \in {"equ", "labelequ"},
           NEW t,
           Stmt.e.name # NoName =>
               /\ KindOf(t, Stmt.e.name) = KindOf(tab, Stmt.e.name)
               /\ t.sym[Full(t, Stmt.e.name)].value = tab.sym[Full(tab, Stmt.e.name)].value
    PROVE  Value(t, Stmt.e, 0, 0, Here(header)) = After(src)[line].val
<1>1. rep = 0 /\ Stmt = src[line] /\ Stmt.e \in Sizing(src, line) /\ IsExpr(Stmt.e)
  BY StmtNames DEF Entering
<1>2. Value(t, Stmt.e, 0, 0, Here(header)) = ExprIn(src, After(src), line, Stmt.e, Start(src, line))
  BY <1>1, SizingValue
<1>3. QED BY <1>1, <1>2, StmtIs, LineAdds DEF Live
-----------------------------------------------------------------------------
(* Counting. *)

LEMMA MulStep == ASSUME NEW r \in Int, NEW z \in Int PROVE (r + 1) * z = r * z + z /\ 0 * z = 0 /\ 1 * z = z
OBVIOUS

LEMMA MulMono ==
    ASSUME NEW r \in Int, NEW s \in Int, r <= s, NEW z \in Nat
    PROVE  r * z <= s * z
<1>1. (s - r) * z >= 0 OBVIOUS
<1>2. (s - r) * z = s * z - r * z OBVIOUS
<1>3. r * z \in Int /\ s * z \in Int OBVIOUS
<1>4. QED BY <1>1, <1>2, <1>3

\* One statement further: times has one time less to go, or the line is done.
LEMMA Progress ==
    ASSUME Types, Live, RepOK, Reading, NextLine, Stmt.op # "times", pass >= 2, src' = src
    PROVE  /\ Read \in Nat /\ TimesOf(src, line) \in Int /\ Read + 1 <= TimesOf(src, line)
           /\ \/ rep' > 0 /\ rep > 0 /\ line' = line /\ Read' = Read + 1
              \/ rep' = 0 /\ line' = line + 1 /\ Read + 1 = TimesOf(src, line)
<1> DEFINE T == TimesOf(src, line)
<1>1. IsSource(src) /\ line \in 1 .. Len(src) /\ Orderly(src) BY StmtIs DEF Live
<1>2. T \in Int /\ (src[line].op # "times" => T = 1) BY <1>1, LineAdds
<1>3. rep \in Nat /\ (rep > 0 => rep <= T) BY DEF Types, TypeOK, RepOK
<1>4. rep = 0 => T = 1 BY <1>2, StmtNames
<1>5. Read = IF rep > 0 THEN T - rep ELSE 0 BY DEF Read
<1>6. Read' = IF rep' > 0 THEN TimesOf(src, line') - rep' ELSE 0 BY DEF Read
<1> HIDE DEF T
<1>7. CASE rep > 1
  <2>1. rep' = rep - 1 /\ line' = line BY <1>7 DEF NextLine
  <2>2. Read' = T - rep' BY <1>3, <1>6, <1>7, <2>1 DEF T
  <2>3. QED BY <1>2, <1>3, <1>5, <1>7, <2>1, <2>2 DEF T
<1>8. CASE ~(rep > 1)
  <2>1. rep' = 0 /\ line' = line + 1 BY <1>8 DEF NextLine
  <2>2. Read \in Nat /\ Read + 1 = T BY <1>2, <1>3, <1>4, <1>5, <1>8
  <2>3. QED BY <1>2, <2>1, <2>2 DEF T
<1>9. QED BY <1>7, <1>8

\* What is counted before and after a statement.
LEMMA PlaceIs ==
    ASSUME Types, Live, RepOK, SegOK, SizesOK, Reading, NextLine, Stmt.op # "times", pass >= 2,
           src[line].op # "section", src' = src
    PROVE  /\ header[seg] = Place(src, line, Read)
           /\ header[seg] \in Nat /\ SizeOf(src, line) \in Nat
           /\ header[seg] + SizeOf(src, line) = Place(src, line, Read + 1)
           /\ header[seg] + SizeOf(src, line) <= After(src)[line].size[seg]
           /\ header[seg] + SizeOf(src, line) <= 65535
           /\ Read + 1 = TimesOf(src, line) =>
                 header[seg] + SizeOf(src, line) = After(src)[line].size[seg]
<1> DEFINE T == TimesOf(src, line)
           Z == SizeOf(src, line)
           S == Start(src, line)
           R == Read
<1>1. IsSource(src) /\ line \in 1 .. Len(src) /\ Orderly(src) BY StmtIs DEF Live
<1>2. R \in Nat /\ T \in Int /\ R + 1 <= T BY Progress
<1>3. S \in Int /\ Z \in Nat BY <1>1, LineAdds
<1>4. seg = SegAt(src, line) /\ seg \in Segments /\ header[seg] = S + (IF rep > 0 THEN R * Z ELSE 0)
  BY HereIs
<1>5. After(src)[line].size[seg] = S + T * Z /\ S + T * Z <= 65535
  BY <1>1, <1>4, LineAdds
<1>6. header[seg] \in Nat
  <2>1. header \in Sizes /\ seg \in {"text", "data", "bss", "syms"}
    BY <1>4 DEF Types, TypeOK, Segments
  <2>2. QED BY <2>1, SizesIs
<1>7. ~(rep > 0) => R = 0 BY DEF Read
<1>8. Place(src, line, R) = S + R * Z /\ Place(src, line, R + 1) = S + (R + 1) * Z BY DEF Place
<1> HIDE DEF T, Z, S, R
<1>9. (R + 1) * Z = R * Z + Z /\ 0 * Z = 0 /\ R * Z \in Int /\ T * Z \in Int BY <1>2, <1>3, MulStep
<1>10. (R + 1) * Z <= T * Z
  <2>1. R + 1 \in Int BY <1>2
  <2>2. QED BY <1>2, <1>3, <2>1, MulMono
<1>11. header[seg] = S + R * Z BY <1>3, <1>4, <1>7, <1>9
<1>12. header[seg] + Z = S + (R + 1) * Z BY <1>3, <1>9, <1>11
<1>13. header[seg] + Z <= S + T * Z BY <1>2, <1>3, <1>9, <1>10, <1>12
<1>14. QED BY <1>2, <1>3, <1>5, <1>6, <1>8, <1>11, <1>12, <1>13 DEF T, Z, S, R

LEMMA SizesGo ==
    ASSUME Types, Live, RepOK, SegOK, SizesOK, Reading, NextLine, Stmt.op # "times",
           src[line].op # "section",
           UNCHANGED <<src, pc, pass, seg>>,
           pass >= 2 => /\ header'[seg] = header[seg] + SizeOf(src, line)
                        /\ \A g \in Segments : g # seg => header'[g] = header[g]
    PROVE  SizesOK'
<1>1. SUFFICES ASSUME pass >= 2, NEW g \in Segments
      PROVE  header'[g] = After(src)[line' - 1].size[g]
                          + (IF rep' > 0 /\ g = seg THEN Read' * SizeOf(src, line') ELSE 0)
  BY DEF SizesOK
<1>2. IsSource(src) /\ line \in 1 .. Len(src) /\ Orderly(src) BY StmtIs DEF Live
<1>3. seg = SegAt(src, line) /\ seg \in Segments BY <1>1, HereIs
<1>4. header'[seg] = Place(src, line, Read + 1)
      /\ (Read + 1 = TimesOf(src, line) => header'[seg] = After(src)[line].size[seg])
  BY <1>1, PlaceIs
<1>5. g # seg => header'[g] = After(src)[line - 1].size[g] /\ After(src)[line].size[g] = After(src)[line - 1].size[g]
                 /\ After(src)[line].size[g] \in Int
  <2>1. header[g] = After(src)[line - 1].size[g] + (IF rep > 0 /\ g = seg THEN Read * SizeOf(src, line) ELSE 0)
    BY <1>1 DEF SizesOK, Reads, Reading
  <2>2. SUFFICES ASSUME g # seg
                 PROVE /\ header'[g] = After(src)[line - 1].size[g]
                       /\ After(src)[line].size[g] = After(src)[line - 1].size[g]
                       /\ After(src)[line].size[g] \in Int
    OBVIOUS
  <2>3. After(src)[line].size[g] = After(src)[line - 1].size[g] /\ After(src)[line].size[g] \in Int
    BY <1>2, <1>3, <2>2, LineSize
  <2>4. QED BY <1>1, <2>1, <2>2, <2>3
<1>6. After(src)[line].size[seg] \in Int BY <1>2, <1>3, LineAdds
<1>7. CASE rep' > 0
  <2>1. line' = line /\ Read' = Read + 1 /\ Read \in Nat
    <3>1. rep' # 0
      <4>1. rep' \in Nat BY LineTyped
      <4>2. QED BY <1>7, <4>1
    <3>2. QED BY <1>1, <3>1, Progress
  <2>2. Place(src, line, Read + 1) = After(src)[line - 1].size[seg] + (Read + 1) * SizeOf(src, line)
    BY <1>3 DEF Place, Start
  <2>3. CASE g = seg BY <1>4, <1>7, <2>1, <2>2, <2>3
  <2>4. CASE g # seg BY <1>5, <1>7, <2>1, <2>4
  <2>5. QED BY <2>3, <2>4
<1>8. CASE ~(rep' > 0)
  <2>1. line' = line + 1 /\ Read + 1 = TimesOf(src, line) BY <1>1, <1>8, Progress
  <2>2. line' - 1 = line BY <1>2, <2>1
  <2>3. CASE g = seg BY <1>4, <1>6, <1>8, <2>1, <2>2, <2>3
  <2>4. CASE g # seg BY <1>5, <1>8, <2>2, <2>4
  <2>5. QED BY <2>3, <2>4
<1>9. QED BY <1>7, <1>8

\* A statement that makes no bytes.
LEMMA SizesStay ==
    ASSUME Types, Live, RepOK, SegOK, SizesOK, Reading, NextLine,
           Stmt.op \in Entering \cup {"section"},
           UNCHANGED <<src, pc, pass>>,
           \A g \in Segments : header'[g] = header[g]
    PROVE  SizesOK'
<1>1. SUFFICES ASSUME pass >= 2, NEW g \in Segments
      PROVE  header'[g] = After(src)[line' - 1].size[g]
                          + (IF rep' > 0 /\ g = seg' THEN Read' * SizeOf(src, line') ELSE 0)
  BY DEF SizesOK
<1>2. IsSource(src) /\ line \in 1 .. Len(src) /\ Orderly(src) BY StmtIs DEF Live
<1>3. rep = 0 /\ Stmt = src[line] BY StmtNames
<1>4. line' = line + 1 /\ rep' = 0 BY <1>3 DEF NextLine
<1>5. Body(src[line]) = src[line] /\ SizeOf(src, line) = 0 BY <1>3 DEF Body, SizeOf, SizeIn, Entering
<1>6. TimesOf(src, line) \in Int /\ After(src)[line - 1].size[SegAt(src, line)] \in Int
      /\ Start(src, line) + TimesOf(src, line) * 0 = Start(src, line)
  <2>1. TimesOf(src, line) \in Int /\ Start(src, line) \in Int BY <1>2, LineAdds
  <2>2. QED BY <2>1 DEF Start
<1>7. After(src)[line].size[g] = After(src)[line - 1].size[g] /\ After(src)[line].size[g] \in Int
  <2>1. After(src)[line].size[g] = (IF g = SegAt(src, line)
           THEN Start(src, line) + TimesOf(src, line) * SizeOf(src, line)
           ELSE After(src)[line - 1].size[g]) /\ After(src)[line].size[g] \in Int
    BY SMTT(40), <1>2, LineAdds
  <2>2. QED BY <1>5, <1>6, <2>1 DEF Start
<1>8. header[g] = After(src)[line - 1].size[g] BY <1>1, <1>3, <1>7 DEF SizesOK, Reads, Reading
<1>9. line' - 1 = line BY <1>2, <1>4
<1>10. QED BY <1>1, <1>4, <1>7, <1>8, <1>9

LEMMA SegKept ==
    ASSUME Types, Live, SegOK, Reading, NextLine, src[line].op # "section",
           UNCHANGED <<src, pc, pass, seg>>
    PROVE  SegOK'
<1>1. IsSource(src) /\ line \in DOMAIN src /\ line \in 1 .. Len(src) BY StmtIs
<1>2. SegAt(src, line) = SegAt(src, line - 1) BY <1>1, SegStays
<1>3. Sections(src, line) = Sections(src, line - 1) BY <1>1 DEF Sections
<1>4. line' = line \/ (line' = line + 1 /\ line' - 1 = line) BY <1>1 DEF NextLine
<1>5. Reads /\ (pass >= 2 \/ Sections(src, line - 1) # {}) => seg = SegAt(src, line - 1) BY DEF SegOK
<1>6. CASE line' = line BY <1>5, <1>6 DEF SegOK, Reads
<1>7. CASE line' - 1 = line BY <1>2, <1>3, <1>5, <1>7 DEF SegOK, Reads
<1>8. QED BY <1>4, <1>6, <1>7

\* Symbol records.
LEMMA SymsGo ==
    ASSUME Types, Live, RepOK, SymsOK, Reading, NextLine, Stmt.op # "times",
           UNCHANGED <<src, pc, pass>>, pass >= 2, Settled' => Settled
    PROVE  /\ Settled => /\ header.syms = After(src)[line - 1].syms
                                  + (IF Recorded(src, line, Body(src[line])) THEN Read ELSE 0)
                         /\ Recorded(src, line, Body(src[line])) => header.syms + 1 <= 65535
           /\ header'.syms = header.syms + (IF Recorded(src, line, Body(src[line])) THEN 1 ELSE 0)
                  => SymsOK'
<1> DEFINE T == TimesOf(src, line)
           R == Read
           A == After(src)[line - 1].syms
           B == After(src)[line].syms
           rec == Recorded(src, line, Body(src[line]))
<1>1. IsSource(src) /\ line \in 1 .. Len(src) /\ Orderly(src) BY StmtIs DEF Live
<1>2. B = A + (IF rec THEN T ELSE 0) /\ B <= 65535 /\ B \in Int /\ A \in Int BY <1>1, LineSyms
<1>3. /\ R \in Nat /\ T \in Int /\ R + 1 <= T
      /\ \/ rep' > 0 /\ rep > 0 /\ line' = line /\ Read' = R + 1
         \/ rep' = 0 /\ line' = line + 1 /\ R + 1 = T
  BY Progress
<1>4. rep > 0 => src[line].body = Body(src[line]) BY StmtNames DEF Body
<1>5. ~(rep > 0) => R = 0 BY DEF Read
<1>10. src[line].op = "times" => src[line].body = Body(src[line]) BY DEF Body
<1>11. rep > 0 => src[line].op = "times" BY StmtNames
<1>6. ASSUME Settled PROVE header.syms = A + (IF rec THEN R ELSE 0)
  <2>1. header.syms = A + (IF rep > 0 /\ Recorded(src, line, src[line].body) THEN R ELSE 0)
    BY <1>6 DEF SymsOK, Reads, Reading
  <2>2. QED BY <1>2, <1>3, <1>4, <1>5, <2>1
<1> HIDE DEF T, R, A, B, rec
<1>7. ASSUME Settled, rec PROVE header.syms + 1 <= 65535 BY <1>2, <1>3, <1>6, <1>7
<1>8. ASSUME Settled', header'.syms = header.syms + (IF rec THEN 1 ELSE 0)
      PROVE  header'.syms = After(src)[line' - 1].syms
                      + (IF rep' > 0 /\ Recorded(src, line', src[line'].body) THEN Read' ELSE 0)
  <2>1. header.syms = A + (IF rec THEN R ELSE 0) BY <1>6, <1>8
  <2>2. CASE rep' > 0 /\ rep > 0 /\ line' = line /\ Read' = R + 1
    <3>1. Recorded(src, line', src[line'].body) <=> rec BY <1>4, <2>2 DEF rec
    <3>2. After(src)[line' - 1].syms = A BY <2>2 DEF A
    <3>3. QED BY <1>2, <1>3, <1>8, <2>1, <2>2, <3>1, <3>2
  <2>3. CASE rep' = 0 /\ line' = line + 1 /\ R + 1 = T
    <3>1. line' - 1 = line BY <1>1, <2>3
    <3>2. After(src)[line' - 1].syms = B BY <3>1 DEF B
    <3>3. QED BY <1>2, <1>3, <1>8, <2>1, <2>3, <3>2
  <2>4. QED BY <1>3, <2>2, <2>3
<1>9. QED BY <1>6, <1>7, <1>8 DEF SymsOK, rec, A, R
-----------------------------------------------------------------------------
(* The symbol table. *)

\* The names a source defines are in the table, under the names the source means.
LEMMA KnownNames ==
    ASSUME Types, Live, TableOK, NEW s \in Names(src), pass >= 2
    PROVE  s \in DOMAIN tab.sym
BY DEF TableOK, PassOK

LEMMA EnteredLookup ==
    ASSUME Types, Live, LastOK, Reading, Stmt.op \in Entering,
           NEW f, f = Full(tab, Stmt.name)
    PROVE  LET n == Stmt.name
               s == Scoped(src, line, n)
           IN /\ \/ f = s
                 \/ Astray /\ IsLocal(n) /\ f \notin Names(src) /\ Len(f) # 1
              /\ ~IsLocal(n) => f = n /\ s = n
              /\ IsLocal(n) => tab.last # NoName /\ Len(s) # 1
<1> DEFINE n == Stmt.name
           s == Scoped(src, line, n)
<1>1. rep = 0 /\ Stmt = src[line] /\ n \in NamesAt(src, line) /\ IsName(n) BY StmtNames
<1>2. src[line].op \in Entering /\ IsLocal(n) => n = src[line].name BY <1>1
<1>3. s = Scoped(src, line, n) /\ f = Full(tab, n) OBVIOUS
<1> HIDE DEF s, n
<1>4. /\ \/ f = s
         \/ Astray /\ IsLocal(n) /\ f \notin Names(src) /\ Len(f) # 1
      /\ ~IsLocal(n) => f = n /\ s = n
      /\ IsLocal(n) => tab.last # NoName /\ Len(s) # 1
  BY <1>1, <1>2, <1>3, Lookup
<1>5. QED BY <1>4 DEF s, n

\* A statement that enters its name.
LEMMA EnterTable ==
    ASSUME Types, Live, TableOK, Reading, NextLine, Stmt.op \in Entering,
           UNCHANGED <<src, pc, pass>>,
           NEW f, f = Full(tab, Stmt.name),
           DOMAIN tab'.sym = DOMAIN tab.sym \cup {f},
           \A x \in DOMAIN tab.sym : x # f => tab'.sym[x] = tab.sym[x],
           tab'.last = IF IsLocal(Stmt.name) /\ tab.last # NoName THEN tab.last ELSE f,
           tab'.grew = (tab.grew \/ f \notin DOMAIN tab.sym),
           f = Scoped(src, line, Stmt.name) =>
               /\ tab'.sym[f].kind = Kind(src, f)
               /\ IsNumber(src, f) => tab'.sym[f].value = src[DefLine(src, f)].e.k
               /\ ~Defined(src, f) /\ GlobalLines(src, f) # {} => tab'.sym[f].value = 0
               /\ IsConst(src, f) /\ pass >= 2 => tab'.sym[f].value = ConstOf(src, f)
               /\ Defined(src, f) /\ ~IsConst(src, f) /\ Settled' /\ (DefLine(src, f) <= line \/ pc # "size") =>
                     tab'.sym[f].value = Address(src, f) /\ tab'.sym[f].seg = SegAt(src, DefLine(src, f))
    PROVE  TableOK'
<1> DEFINE n == Stmt.name
           s == Scoped(src, line, n)
<1>1. /\ IsSource(src) /\ line \in DOMAIN src /\ line \in 1 .. Len(src) /\ Orderly(src)
      /\ LastOK /\ tab.grew \in BOOLEAN
  BY StmtIs DEF Live, TableOK, Types, TypeOK, TabOK
<1>2. rep = 0 /\ Stmt = src[line] /\ n \in NamesAt(src, line) /\ IsName(n) BY StmtNames
<1>3. line' = line + 1 /\ line' - 1 = line BY <1>1, <1>2 DEF NextLine
<1>4. /\ \/ f = s
         \/ Astray /\ IsLocal(n) /\ f \notin Names(src) /\ Len(f) # 1
      /\ ~IsLocal(n) => f = n /\ s = n
      /\ IsLocal(n) => tab.last # NoName /\ Len(s) # 1
  BY <1>1, EnteredLookup
<1>5. s \in Names(src) BY <1>1, <1>2, EnteredAs
<1>6. pass >= 2 => Names(src) \subseteq DOMAIN tab.sym BY DEF TableOK, PassOK
<1>7. Astray => pass = 2 /\ tab.grew BY DEF Astray
<1>8. Settled' => Settled /\ f = s /\ f \in DOMAIN tab.sym /\ tab'.grew = tab.grew
  BY <1>1, <1>4, <1>7 DEF Settled
<1>9. NamesUpTo(src, line) = NamesUpTo(src, line - 1) \cup {s} BY <1>1, <1>2, NamesGrow
<1>10. \A x \in Names(src) : Defined(src, x) /\ DefLine(src, x) = line => x = s
  BY <1>1, <1>2, DefLineIs
<1>11. \A x : Defined(src, x) => DefLine(src, x) \in 1 .. Len(src) BY <1>1, DefLineIs
<1> HIDE DEF s
<1>12. PassOK'
  <2>1. pc # "size" => pass >= 2 /\ ~tab.grew /\ ~tab'.grew
    <3>1. pc # "size" => pass >= 2 /\ ~tab.grew BY DEF TableOK, PassOK
    <3>2. pc # "size" => f = s BY <1>4, <1>7, <3>1
    <3>3. QED BY <1>5, <1>6, <3>1, <3>2
  <2>2. pass = Later => ~tab'.grew
    <3>1. pass = Later => pass >= 2 /\ pass # 2 /\ ~tab.grew BY DEF TableOK, PassOK, Later
    <3>2. QED BY <1>4, <1>5, <1>6, <1>7, <3>1
  <2>3. pass = 1 => DOMAIN tab'.sym = NamesUpTo(src, line) /\ (DOMAIN tab'.sym # {} => tab'.grew)
    <3>1. pass = 1 => DOMAIN tab.sym = NamesUpTo(src, line - 1) /\ (DOMAIN tab.sym # {} => tab.grew)
      BY DEF TableOK, PassOK
    <3>2. pass = 1 => f = s BY <1>4, <1>7
    <3>3. QED BY <1>9, <3>1, <3>2
  <2>4. QED BY <1>3, <1>6, <2>1, <2>2, <2>3 DEF PassOK
<1>13. KindsOK'
  <2>1. SUFFICES ASSUME NEW x \in DOMAIN tab'.sym, Len(x) = 1 \/ x \in Names(src)
                 PROVE  tab'.sym[x].kind = Kind(src, x)
    BY DEF KindsOK
  <2>2. CASE x = f
    <3>1. f = s BY <1>4, <2>1, <2>2
    <3>2. QED BY <2>2, <3>1 DEF s
  <2>3. CASE x # f
    <3>1. x \in DOMAIN tab.sym /\ tab'.sym[x] = tab.sym[x] BY <2>3
    <3>2. QED BY <2>1, <3>1 DEF TableOK, KindsOK
  <2>4. QED BY <2>2, <2>3
<1>14. LastOK'
  <2>1. SUFFICES ASSUME Root(src, line) # NoName PROVE tab'.last = Root(src, line) \/ Astray'
    BY <1>3 DEF LastOK
  <2>2. CASE ~IsLocal(n)
    <3>1. Root(src, line) = n BY <1>1, <1>2, <2>2, RootStays
    <3>2. QED BY <1>4, <2>2, <3>1
  <2>3. CASE IsLocal(n)
    <3>1. Root(src, line) = Root(src, line - 1) BY <1>1, <1>2, <2>3, RootStays
    <3>2. tab'.last = tab.last BY <1>4, <2>3
    <3>3. tab.last = Root(src, line) \/ Astray BY <1>1, <2>1, <3>1 DEF LastOK
    <3>4. Astray => Astray' BY <3>2 DEF Astray
    <3>5. QED BY <3>2, <3>3, <3>4
  <2>4. QED BY <2>2, <2>3
<1>15. SeenOK'
  <2>1. Referred(src, line) = {} BY <1>2 DEF Referred, Operand, Body, Entering
  <2>2. SUFFICES ASSUME NEW l \in DOMAIN src, pass = Later \/ pc # "size" \/ (pass = 2 /\ l < line'),
                        NEW m \in Referred(src, l), ~IsLocal(m)
                 PROVE  m \in DOMAIN tab'.sym
    BY DEF SeenOK
  <2>3. l \in Int /\ l # line BY <1>1, <2>1, <2>2 DEF IsSource
  <2>4. l < line' => l < line BY <1>1, <1>3, <2>3
  <2>5. m \in DOMAIN tab.sym BY <2>2, <2>4 DEF TableOK, SeenOK
  <2>6. QED BY <2>5
<1>16. NumbersOK'
  <2>1. SUFFICES ASSUME NEW x \in DOMAIN tab'.sym, x \in Names(src)
                 PROVE  /\ IsNumber(src, x) => tab'.sym[x].value = src[DefLine(src, x)].e.k
                        /\ ~Defined(src, x) /\ GlobalLines(src, x) # {} => tab'.sym[x].value = 0
    BY DEF NumbersOK
  <2>2. CASE x = f
    <3>1. f = s BY <1>4, <2>1, <2>2
    <3>2. QED BY <2>2, <3>1 DEF s
  <2>3. CASE x # f
    <3>1. x \in DOMAIN tab.sym /\ tab'.sym[x] = tab.sym[x] BY <2>3
    <3>2. QED BY <2>1, <3>1 DEF TableOK, NumbersOK
  <2>4. QED BY <2>2, <2>3
<1>17. ConstsOK'
  <2>1. SUFFICES ASSUME pass >= 2, NEW x \in Names(src), Len(x) = 1, IsConst(src, x),
                        DefLine(src, x) < line' \/ pc # "size"
                 PROVE  tab'.sym[x].value = ConstOf(src, x)
    BY DEF ConstsOK
  <2>2. CASE x = f
    <3>1. f = s BY <1>4, <2>1, <2>2
    <3>2. QED BY <2>1, <2>2, <3>1 DEF s
  <2>3. CASE x # f
    <3>1. tab'.sym[x] = tab.sym[x] BY <1>6, <2>1, <2>3
    <3>2. Defined(src, x) /\ DefLine(src, x) \in 1 .. Len(src) BY <1>11, <2>1 DEF IsConst
    <3>3. DefLine(src, x) # line BY <1>4, <1>10, <2>1, <2>3, <3>2
    <3>4. DefLine(src, x) < line \/ pc # "size" BY <1>1, <1>3, <2>1, <3>2, <3>3
    <3>5. QED BY <2>1, <3>1, <3>4 DEF TableOK, ConstsOK
  <2>4. QED BY <2>2, <2>3
<1>18. ValuesOK'
  <2>1. SUFFICES ASSUME Settled', NEW x \in Names(src), Defined(src, x),
                        DefLine(src, x) < line' \/ pc # "size"
                 PROVE  IF IsConst(src, x) THEN tab'.sym[x].value = ConstOf(src, x)
                        ELSE /\ tab'.sym[x].value = Address(src, x)
                             /\ tab'.sym[x].seg = SegAt(src, DefLine(src, x))
    BY DEF ValuesOK
  <2>2. Settled /\ f = s /\ pass >= 2 BY <1>8, <2>1 DEF Settled
  <2>3. DefLine(src, x) \in 1 .. Len(src) BY <1>11, <2>1
  <2>4. CASE x = f
    <3>1. DefLine(src, f) <= line \/ pc # "size" BY <1>1, <1>3, <2>1, <2>3, <2>4
    <3>2. f = Scoped(src, line, Stmt.name) BY <2>2 DEF s
    <3>3. IsConst(src, f) => tab'.sym[f].value = ConstOf(src, f) BY <2>2, <3>2
    <3>4. ~IsConst(src, f) => /\ tab'.sym[f].value = Address(src, f)
                              /\ tab'.sym[f].seg = SegAt(src, DefLine(src, f))
      BY <2>1, <2>4, <3>1, <3>2
    <3>5. QED BY <2>4, <3>3, <3>4
  <2>5. CASE x # f
    <3>1. tab'.sym[x] = tab.sym[x] BY <1>6, <2>1, <2>2, <2>5
    <3>3. DefLine(src, x) # line BY <1>10, <2>1, <2>2, <2>5
    <3>4. DefLine(src, x) < line \/ pc # "size" BY <1>1, <1>3, <2>1, <2>3, <3>3
    <3>5. IF IsConst(src, x) THEN tab.sym[x].value = ConstOf(src, x)
          ELSE /\ tab.sym[x].value = Address(src, x)
               /\ tab.sym[x].seg = SegAt(src, DefLine(src, x))
      BY <2>1, <2>2, <3>4 DEF TableOK, ValuesOK
    <3>6. QED BY <3>1, <3>5
  <2>6. QED BY <2>4, <2>5
<1>19. QED BY <1>12, <1>13, <1>14, <1>15, <1>16, <1>17, <1>18 DEF TableOK

LEMMA LabelTable ==
    ASSUME Types, Live, TableOK, CountOK, Label
    PROVE  TableOK'
<1> DEFINE f == Full(tab, Stmt.name)
<1>1. /\ Reading /\ NextLine /\ Stmt.op = "label"
      /\ tab' = Add(tab, "label", Stmt.name, Here(header))
      /\ UNCHANGED <<src, pc, pass, seg, header>>
  BY DEF Label, At
<1>2. Stmt.op \in Entering /\ Stmt.op \in Defining BY <1>1 DEF Entering, Defining
<1>3. rep = 0 /\ Stmt = src[line] /\ IsName(Stmt.name) BY <1>1, <1>2, StmtNames
<1>4. Stmt.name # NoName /\ TabOK(tab) BY <1>3, NameIs DEF Types, TypeOK
<1>5. IsSource(src) /\ Orderly(src) /\ line \in DOMAIN src /\ line \in 1 .. Len(src)
  BY <1>1, StmtIs DEF Live
<1>6. /\ DOMAIN tab'.sym = DOMAIN tab.sym \cup {f}
      /\ tab'.sym[f] = [kind |-> IF f \in DOMAIN tab.sym THEN tab.sym[f].kind ELSE "label",
                        value |-> Here(header), seg |-> seg]
      /\ \A x \in DOMAIN tab.sym : x # f => tab'.sym[x] = tab.sym[x]
      /\ tab'.last = IF IsLocal(Stmt.name) /\ tab.last # NoName THEN tab.last ELSE f
      /\ tab'.grew = (tab.grew \/ f \notin DOMAIN tab.sym)
  BY <1>1, <1>4 DEF Add, Known
<1> HIDE DEF f
<1>7. ASSUME f = Scoped(src, line, Stmt.name)
      PROVE  /\ tab'.sym[f].kind = Kind(src, f)
             /\ ~IsConst(src, f) /\ Defined(src, f) /\ DefLine(src, f) = line
             /\ Settled' => tab'.sym[f].value = Address(src, f) /\ tab'.sym[f].seg = SegAt(src, line)
  <2>1. /\ f \in Names(src) /\ Defined(src, f) /\ DefLine(src, f) = line /\ ~IsConst(src, f)
        /\ Kind(src, f) = IF \E g \in GlobalLines(src, f) : g < line THEN "global" ELSE "label"
    BY <1>1, <1>2, <1>3, <1>5, <1>7, EnteredAs
  <2>2. tab'.sym[f].kind = Kind(src, f)
    <3>1. CASE f \in DOMAIN tab.sym
      <4>1. tab.sym[f].kind = Kind(src, f) BY <2>1, <3>1 DEF TableOK, KindsOK
      <4>2. QED BY <1>6, <3>1, <4>1
    <3>2. CASE f \notin DOMAIN tab.sym
      <4>1. pass = 1
        <5>1. pass \in 1 .. Later BY DEF Types, TypeOK
        <5>2. pass >= 2 => f \in DOMAIN tab.sym BY <2>1, KnownNames
        <5>3. QED BY <3>2, <5>1, <5>2 DEF Later
      <4>2. DOMAIN tab.sym = NamesUpTo(src, line - 1) BY <4>1 DEF TableOK, PassOK
      <4>3. \A g \in GlobalLines(src, f) : ~(g < line)
        <5>1. SUFFICES ASSUME NEW g \in GlobalLines(src, f), g < line PROVE FALSE OBVIOUS
        <5>2. g \in DOMAIN src /\ src[g].op = "global" /\ src[g].name = f BY DEF GlobalLines
        <5>3. ~IsLocal(f) BY <1>5, <5>2 DEF Orderly, GlobalsHere
        <5>4. Scoped(src, g, src[g].name) = f BY <5>2, <5>3 DEF Scoped
        <5>5. g \in 1 .. line - 1 BY <1>5, <5>1, <5>2 DEF IsSource
        <5>6. f \in NamesUpTo(src, line - 1) BY <5>2, <5>4, <5>5 DEF NamesUpTo, Entering
        <5>7. QED BY <3>2, <4>2, <5>6
      <4>4. Kind(src, f) = "label" BY <2>1, <4>3
      <4>5. QED BY <1>6, <3>2, <4>4
    <3>3. QED BY <3>1, <3>2
  <2>3. ASSUME Settled' PROVE tab'.sym[f].value = Address(src, f) /\ tab'.sym[f].seg = SegAt(src, line)
    <3>1. pass >= 2 BY <1>1, <2>3 DEF Settled
    <3>2. src[line].op # "section" BY <1>1, <1>3
    <3>3. seg = SegAt(src, line) /\ header[seg] = Start(src, line) + (IF rep > 0 THEN Read * SizeOf(src, line) ELSE 0)
          /\ Here(header) = header[seg]
      <4>1. SegOK /\ SizesOK BY DEF CountOK
      <4>2. \A h : Here(h) = h[seg] BY <1>1, <3>1, <3>2, <4>1, HereIs
      <4>3. QED BY <1>1, <3>1, <3>2, <4>1, <4>2, HereIs
    <3>4. Start(src, line) \in Int BY <1>5, LineAdds
    <3>5. Here(header) = Start(src, line) BY <1>3, <3>3, <3>4
    <3>6. Address(src, f) = Start(src, line) BY <2>1 DEF Address, Start
    <3>7. QED BY <1>6, <3>3, <3>5, <3>6
  <2>4. QED BY <2>1, <2>2, <2>3
<1>8. f = Scoped(src, line, Stmt.name) =>
               /\ tab'.sym[f].kind = Kind(src, f)
               /\ IsNumber(src, f) => tab'.sym[f].value = src[DefLine(src, f)].e.k
               /\ ~Defined(src, f) /\ GlobalLines(src, f) # {} => tab'.sym[f].value = 0
               /\ IsConst(src, f) /\ pass >= 2 => tab'.sym[f].value = ConstOf(src, f)
               /\ Defined(src, f) /\ ~IsConst(src, f) /\ Settled' /\ (DefLine(src, f) <= line \/ pc # "size") =>
                     tab'.sym[f].value = Address(src, f) /\ tab'.sym[f].seg = SegAt(src, DefLine(src, f))
  BY <1>7 DEF IsNumber
<1>9. f = Full(tab, Stmt.name) /\ UNCHANGED <<src, pc, pass>> BY <1>1 DEF f
<1>10. QED BY <1>1, <1>2, <1>6, <1>8, <1>9, EnterTable

LEMMA ExternTable ==
    ASSUME Types, Live, TableOK, Extern
    PROVE  TableOK'
<1> DEFINE f == Full(tab, Stmt.name)
<1>1. /\ Reading /\ NextLine /\ Stmt.op = "extern"
      /\ tab' = Add(tab, "extern", Stmt.name, 0)
      /\ UNCHANGED <<src, pc, pass, seg, header>>
  BY DEF Extern, At
<1>2. Stmt.op \in Entering BY <1>1 DEF Entering
<1>3. rep = 0 /\ Stmt = src[line] /\ IsName(Stmt.name) BY <1>1, <1>2, StmtNames
<1>4. Stmt.name # NoName /\ TabOK(tab) BY <1>3, NameIs DEF Types, TypeOK
<1>5. IsSource(src) /\ Orderly(src) /\ line \in DOMAIN src BY <1>1, StmtIs DEF Live
<1>6. /\ DOMAIN tab'.sym = DOMAIN tab.sym \cup {f}
      /\ tab'.sym[f] = [kind |-> IF f \in DOMAIN tab.sym THEN tab.sym[f].kind ELSE "extern",
                        value |-> 0, seg |-> seg]
      /\ \A x \in DOMAIN tab.sym : x # f => tab'.sym[x] = tab.sym[x]
      /\ tab'.last = IF IsLocal(Stmt.name) /\ tab.last # NoName THEN tab.last ELSE f
      /\ tab'.grew = (tab.grew \/ f \notin DOMAIN tab.sym)
  BY <1>1, <1>4 DEF Add, Known
<1> HIDE DEF f
<1>7. ASSUME f = Scoped(src, line, Stmt.name)
      PROVE  /\ tab'.sym[f].kind = Kind(src, f)
             /\ ~IsConst(src, f) /\ ~Defined(src, f) /\ GlobalLines(src, f) = {}
  <2>1. /\ f \in Names(src) /\ ~Defined(src, f) /\ GlobalLines(src, f) = {} /\ Kind(src, f) = "extern"
    BY <1>1, <1>2, <1>3, <1>5, <1>7, EnteredAs
  <2>2. f \in DOMAIN tab.sym => tab.sym[f].kind = "extern" BY <2>1 DEF TableOK, KindsOK
  <2>3. QED BY <1>6, <2>1, <2>2 DEF IsConst
<1>8. f = Scoped(src, line, Stmt.name) =>
               /\ tab'.sym[f].kind = Kind(src, f)
               /\ IsNumber(src, f) => tab'.sym[f].value = src[DefLine(src, f)].e.k
               /\ ~Defined(src, f) /\ GlobalLines(src, f) # {} => tab'.sym[f].value = 0
               /\ IsConst(src, f) /\ pass >= 2 => tab'.sym[f].value = ConstOf(src, f)
               /\ Defined(src, f) /\ ~IsConst(src, f) /\ Settled' /\ (DefLine(src, f) <= line \/ pc # "size") =>
                     tab'.sym[f].value = Address(src, f) /\ tab'.sym[f].seg = SegAt(src, DefLine(src, f))
  BY <1>7 DEF IsNumber
<1>9. f = Full(tab, Stmt.name) /\ UNCHANGED <<src, pc, pass>> BY <1>1 DEF f
<1>10. QED BY <1>1, <1>2, <1>6, <1>8, <1>9, EnterTable

LEMMA GlobalTable ==
    ASSUME Types, Live, TableOK, SegOK, Global
    PROVE  /\ TableOK'
           /\ Get(tab, Stmt.name) = tab /\ Full(tab, Stmt.name) = Stmt.name
<1> DEFINE f == Stmt.name
           v == IF Known(tab, f) THEN tab.sym[Full(Get(tab, f), f)].value ELSE 0
<1>1. /\ Reading /\ NextLine /\ Stmt.op = "global"
      /\ tab' = Add(Get(tab, f), "global", f, v)
      /\ UNCHANGED <<src, pc, pass, seg>>
  BY DEF Global, At
<1>2. Stmt.op \in Entering BY <1>1 DEF Entering
<1>3. rep = 0 /\ Stmt = src[line] /\ IsName(f) BY <1>1, <1>2, StmtNames
<1>4. f # NoName /\ TabOK(tab) BY <1>3, NameIs DEF Types, TypeOK
<1>5. IsSource(src) /\ Orderly(src) /\ line \in DOMAIN src /\ line \in 1 .. Len(src)
  BY <1>1, StmtIs DEF Live
<1>6. ~IsLocal(f) BY <1>1, <1>3, <1>5 DEF Orderly, GlobalsHere
<1>7. Full(tab, f) = f /\ Scoped(src, line, f) = f BY <1>6 DEF Full, Scoped
<1>8. /\ f \in Names(src) /\ ~IsConst(src, f) /\ GlobalLines(src, f) = {line}
      /\ Kind(src, f) = IF Defined(src, f) /\ DefLine(src, f) < line THEN "label" ELSE "global"
  BY SMTT(40), <1>1, <1>2, <1>3, <1>5, <1>7, EnteredAs
<1>9. pass >= 2 => f \in DOMAIN tab.sym /\ Known(tab, f) BY <1>4, <1>7, <1>8, KnownNames DEF Known
<1>10. Get(tab, f) = tab BY <1>9 DEF Get, Missing
<1>11. v = IF f \in DOMAIN tab.sym THEN tab.sym[f].value ELSE 0 BY <1>4, <1>7, <1>10 DEF Known
<1> HIDE DEF v
<1>12. /\ DOMAIN tab'.sym = DOMAIN tab.sym \cup {f}
       /\ tab'.sym[f] = [kind |-> IF f \in DOMAIN tab.sym THEN tab.sym[f].kind ELSE "global",
                         value |-> v, seg |-> seg]
       /\ \A x \in DOMAIN tab.sym : x # f => tab'.sym[x] = tab.sym[x]
       /\ tab'.last = IF IsLocal(f) /\ tab.last # NoName THEN tab.last ELSE f
       /\ tab'.grew = (tab.grew \/ f \notin DOMAIN tab.sym)
  BY <1>1, <1>4, <1>7, <1>10 DEF Add, Known
<1> HIDE DEF f
<1>13. pass \in 1 .. Later BY DEF Types, TypeOK
<1>14. tab'.sym[f].kind = Kind(src, f)
  <2>1. CASE f \in DOMAIN tab.sym BY <1>8, <1>12, <2>1 DEF TableOK, KindsOK
  <2>2. CASE f \notin DOMAIN tab.sym
    <3>1. pass = 1 BY <1>9, <1>13, <2>2 DEF Later
    <3>2. DOMAIN tab.sym = NamesUpTo(src, line - 1) BY <3>1 DEF TableOK, PassOK
    <3>3. ~(Defined(src, f) /\ DefLine(src, f) < line)
      <4>1. SUFFICES ASSUME Defined(src, f), DefLine(src, f) < line PROVE FALSE OBVIOUS
      <4>2. /\ DefLine(src, f) \in 1 .. Len(src) /\ src[DefLine(src, f)].op \in Defining
            /\ Scoped(src, DefLine(src, f), src[DefLine(src, f)].name) = f
        BY <1>5, <4>1, DefLineIs
      <4>3. DefLine(src, f) \in 1 .. line - 1 BY <1>5, <4>1, <4>2
      <4>4. f \in NamesUpTo(src, line - 1) BY <4>2, <4>3 DEF NamesUpTo, Entering, Defining
      <4>5. QED BY <2>2, <3>2, <4>4
    <3>4. QED BY <1>8, <1>12, <2>2, <3>3
  <2>3. QED BY <2>1, <2>2
<1>15. ASSUME ~Defined(src, f) PROVE tab'.sym[f].value = 0
  <2>1. f \in DOMAIN tab.sym => tab.sym[f].value = 0 BY <1>8, <1>15 DEF TableOK, NumbersOK
  <2>2. QED BY <1>11, <1>12, <2>1
<1>16. ASSUME Defined(src, f), Settled', DefLine(src, f) <= line \/ pc # "size"
       PROVE  tab'.sym[f].value = Address(src, f) /\ tab'.sym[f].seg = SegAt(src, DefLine(src, f))
  <2>1. pass >= 2 /\ f \in DOMAIN tab.sym /\ Settled BY <1>1, <1>9, <1>12, <1>16 DEF Settled, TabOK
  <2>2. DefLine(src, f) # line /\ DefLine(src, f) \in 1 .. Len(src)
    BY <1>1, <1>3, <1>5, <1>16, DefLineIs DEF Defining
  <2>3. DefLine(src, f) < line \/ pc # "size" BY <1>5, <1>16, <2>2
  <2>4. tab.sym[f].value = Address(src, f) BY <1>8, <1>16, <2>1, <2>3 DEF TableOK, ValuesOK
  <2>5. SegAt(src, DefLine(src, f)) = SegAt(src, line)
    BY <1>1, <1>3, <1>5, <1>16 DEF Orderly, GlobalsHere, f
  <2>6. SegAt(src, line) = SegAt(src, line - 1) BY <1>1, <1>3, <1>5, SegStays
  <2>7. seg = SegAt(src, line - 1) BY <1>1, <2>1 DEF SegOK, Reads, Reading
  <2>8. QED BY <1>11, <1>12, <2>1, <2>4, <2>5, <2>6, <2>7
<1>17. /\ tab'.sym[f].kind = Kind(src, f)
       /\ IsNumber(src, f) => tab'.sym[f].value = src[DefLine(src, f)].e.k
       /\ ~Defined(src, f) /\ GlobalLines(src, f) # {} => tab'.sym[f].value = 0
       /\ IsConst(src, f) /\ pass >= 2 => tab'.sym[f].value = ConstOf(src, f)
       /\ Defined(src, f) /\ ~IsConst(src, f) /\ Settled' /\ (DefLine(src, f) <= line \/ pc # "size") =>
             tab'.sym[f].value = Address(src, f) /\ tab'.sym[f].seg = SegAt(src, DefLine(src, f))
  BY <1>8, <1>14, <1>15, <1>16 DEF IsNumber
<1>18. f = Full(tab, Stmt.name) /\ UNCHANGED <<src, pc, pass>>
       /\ tab'.last = IF IsLocal(Stmt.name) /\ tab.last # NoName THEN tab.last ELSE f
  BY SMTT(40), <1>1, <1>7, <1>12 DEF f
<1>19. TableOK' BY <1>1, <1>2, <1>12, <1>17, <1>18, EnterTable
<1>20. QED BY <1>7, <1>10, <1>19 DEF f

LEMMA EquTable ==
    ASSUME Types, Live, TableOK, CountOK, Equ
    PROVE  TableOK'
<1> DEFINE n == Stmt.name
           e == Stmt.e
           f == Full(tab, n)
           t == Entered(tab)
           V == Value(t, e, 0, 0, Here(header))
<1>1. /\ Reading /\ NextLine /\ Stmt.op \in {"equ", "labelequ"} /\ IsName(n) /\ IsExpr(e)
      /\ tab'.last = Get(t, e.name).last /\ tab'.grew = Get(t, e.name).grew
      /\ DOMAIN tab'.sym = DOMAIN Get(t, e.name).sym
      /\ \A x \in DOMAIN Get(t, e.name).sym : x # f => tab'.sym[x] = Get(t, e.name).sym[x]
      /\ tab'.sym[f] = [kind |-> IF Stmt.op = "labelequ" THEN "const" ELSE Get(t, e.name).sym[f].kind,
                        value |-> V, seg |-> Get(t, e.name).sym[f].seg]
      /\ UNCHANGED <<src, pc, pass, seg, header>>
  BY EquIs
<1>2. Stmt.op \in Entering /\ Stmt.op \in Defining BY <1>1 DEF Entering, Defining
<1>3. rep = 0 /\ Stmt = src[line] /\ e \in Sizing(src, line) BY <1>1, <1>2, StmtNames
<1>4. n # NoName /\ TabOK(tab) BY <1>1, NameIs DEF Types, TypeOK
<1>5. IsSource(src) /\ Orderly(src) /\ line \in DOMAIN src /\ line \in 1 .. Len(src)
  BY <1>1, StmtIs DEF Live
<1>6. /\ DOMAIN t.sym = DOMAIN tab.sym \cup {f}
      /\ t.sym[f].kind = IF f \in DOMAIN tab.sym THEN tab.sym[f].kind
                         ELSE IF Stmt.op = "equ" THEN "const" ELSE "label"
      /\ \A x \in DOMAIN tab.sym : x # f => t.sym[x] = tab.sym[x]
      /\ t.last = IF IsLocal(n) /\ tab.last # NoName THEN tab.last ELSE f
      /\ t.grew = (tab.grew \/ f \notin DOMAIN tab.sym)
  BY SMTT(40), <1>4 DEF Entered, Add, Known
<1>7. ASSUME e.name # NoName
      PROVE  /\ ~IsLocal(e.name) /\ e.name \in Names(src) /\ IsConst(src, e.name)
             /\ IsNumber(src, e.name) \/ DefLine(src, e.name) < line
             /\ Full(tab, e.name) = e.name /\ Full(t, e.name) = e.name
  BY <1>1, <1>3, <1>7, SizingName DEF Full
<1>8. Get(t, e.name) = t
  <2>1. SUFFICES ASSUME e.name # NoName, pass = 2 PROVE Known(t, e.name) BY DEF Get, Missing
  <2>2. e.name \in DOMAIN tab.sym BY <1>7, <2>1, KnownNames
  <2>3. QED BY <1>6, <1>7, <2>1, <2>2 DEF Known
<1> HIDE DEF f, t, V
<1>9. /\ f = Scoped(src, line, n) \/ (Astray /\ f \notin Names(src)) BY <1>1, <1>2, EnteredLookup DEF TableOK, f
<1>10. ASSUME f = Scoped(src, line, n)
       PROVE  /\ f \in Names(src) /\ Defined(src, f) /\ DefLine(src, f) = line
              /\ IsConst(src, f) /\ Kind(src, f) = "const"
  BY <1>1, <1>2, <1>3, <1>5, <1>10, EnteredAs
<1>11. e.name # NoName => e.name # f
  <2>1. SUFFICES ASSUME e.name # NoName, e.name = f PROVE FALSE OBVIOUS
  <2>2. f = Scoped(src, line, n) BY <1>7, <1>9, <2>1
  <2>3. DefLine(src, f) = line BY <1>10, <2>2
  <2>4. ~IsNumber(src, f) BY <1>3, <2>1, <2>3 DEF IsNumber
  <2>5. line < line BY <1>7, <2>1, <2>3, <2>4
  <2>6. QED BY <1>5, <2>5
<1>12. ASSUME f = Scoped(src, line, n), pass >= 2 PROVE V = ConstOf(src, f)
  <2>1. ASSUME e.name # NoName
        PROVE  /\ KindOf(t, e.name) = KindOf(tab, e.name)
               /\ t.sym[Full(t, e.name)].value = tab.sym[Full(tab, e.name)].value
    <3>1. e.name \in DOMAIN tab.sym BY <1>7, <1>12, <2>1, KnownNames
    <3>2. e.name \in DOMAIN t.sym /\ t.sym[e.name] = tab.sym[e.name] BY <1>6, <1>11, <2>1, <3>1
    <3>3. QED BY <1>7, <2>1, <3>1, <3>2 DEF KindOf, Known
  <2>2. V = After(src)[line].val BY <1>1, <1>12, <2>1, EquValue DEF CountOK, V
  <2>3. QED BY <1>10, <1>12, <2>2 DEF ConstOf
<1>13. ASSUME f = Scoped(src, line, n), IsNumber(src, f) PROVE V = src[DefLine(src, f)].e.k
  <2>1. e.name = NoName /\ e.here = 0 /\ e = src[DefLine(src, f)].e
    BY <1>3, <1>10, <1>13 DEF IsNumber
  <2>2. KindOf(t, e.name) = "unknown" BY <2>1 DEF KindOf, Known
  <2>3. NameValue(t, e, 0, 0, Here(header)) = 0 BY <2>2, NameValueIs
  <2>4. Here(header) \in Int /\ e.k \in Int BY <1>1, HereTyped DEF Types, TypeOK, IsExpr
  <2>5. V = e.k BY <2>1, <2>3, <2>4 DEF Value, V
  <2>6. QED BY <2>1, <2>5
<1>14. ASSUME f = Scoped(src, line, n) PROVE tab'.sym[f].kind = Kind(src, f)
  <2>1. f \in DOMAIN tab.sym => tab.sym[f].kind = "const" BY <1>10, <1>14 DEF TableOK, KindsOK
  <2>2. QED BY <1>1, <1>6, <1>8, <1>10, <1>14, <2>1
<1>15. f = Scoped(src, line, n) =>
               /\ tab'.sym[f].kind = Kind(src, f)
               /\ IsNumber(src, f) => tab'.sym[f].value = src[DefLine(src, f)].e.k
               /\ ~Defined(src, f) /\ GlobalLines(src, f) # {} => tab'.sym[f].value = 0
               /\ IsConst(src, f) /\ pass >= 2 => tab'.sym[f].value = ConstOf(src, f)
               /\ Defined(src, f) /\ ~IsConst(src, f) /\ Settled' /\ (DefLine(src, f) <= line \/ pc # "size") =>
                     tab'.sym[f].value = Address(src, f) /\ tab'.sym[f].seg = SegAt(src, DefLine(src, f))
  BY <1>1, <1>10, <1>12, <1>13, <1>14
<1>16. /\ f = Full(tab, Stmt.name) /\ UNCHANGED <<src, pc, pass>>
       /\ DOMAIN tab'.sym = DOMAIN tab.sym \cup {f}
       /\ \A x \in DOMAIN tab.sym : x # f => tab'.sym[x] = tab.sym[x]
       /\ tab'.last = IF IsLocal(Stmt.name) /\ tab.last # NoName THEN tab.last ELSE f
       /\ tab'.grew = (tab.grew \/ f \notin DOMAIN tab.sym)
  BY <1>1, <1>6, <1>8 DEF f
<1>17. QED BY <1>1, <1>2, <1>15, <1>16, EnterTable

\* The name of an operand.
LEMMA OperandName ==
    ASSUME Types, Live, TableOK, Reading, NEW e \in Operand(src, line), IsExpr(e), e.name # NoName,
           src[line].op \notin Entering
    PROVE  LET n == e.name
               f == Full(tab, n)
               s == Scoped(src, line, n)
           IN /\ IsName(n)
              /\ \/ f = s
                 \/ /\ Astray /\ IsLocal(n) /\ f \notin Names(src) /\ Len(f) # 1
                    /\ <<f[1]>> \notin Names(src) /\ f[1] \notin Locals
              /\ f \in Seq(STRING) /\ f # NoName
              /\ ~IsLocal(n) => f = n /\ s = n /\ Len(n) = 1
              /\ IsLocal(n) => Defined(src, s) /\ s \in Names(src)
<1> DEFINE n == e.name
           f == Full(tab, n)
           s == Scoped(src, line, n)
<1>1. IsSource(src) /\ Orderly(src) /\ line \in DOMAIN src BY StmtIs DEF Live
<1>2. IsName(n) BY DEF IsExpr
<1>3. n \in NamesAt(src, line) BY StmtNames
<1>4. IsLocal(n) => Defined(src, s) BY <1>1 DEF Orderly, LocalsDefined
<1>5. IsLocal(n) => s \in Names(src) BY <1>1, <1>4, DefinedNames
<1>6. s = Scoped(src, line, n) /\ f = Full(tab, n) /\ LastOK BY DEF TableOK
<1> HIDE DEF n, f, s
<1>7. /\ \/ f = s
         \/ /\ Astray /\ IsLocal(n) /\ f \notin Names(src) /\ Len(f) # 1
            /\ <<f[1]>> \notin Names(src) /\ f[1] \notin Locals
      /\ f \in Seq(STRING) /\ f # NoName
      /\ ~IsLocal(n) => f = n /\ s = n /\ Len(n) = 1
  BY <1>2, <1>3, <1>6, Lookup
<1>8. QED BY <1>2, <1>4, <1>5, <1>7 DEF n, f, s

LEMMA AddedExtern ==
    ASSUME NEW f, f # NoName, ~IsLocal(f), f \notin DOMAIN tab.sym, tab' = Add(tab, "extern", f, 0)
    PROVE  /\ DOMAIN tab'.sym = DOMAIN tab.sym \cup {f}
           /\ tab'.sym[f].kind = "extern"
           /\ \A x \in DOMAIN tab.sym : x # f => tab'.sym[x] = tab.sym[x]
           /\ tab'.last = f /\ tab'.grew = TRUE
BY DEF Add, Known, Full

\* A statement that looks a name up.
LEMMA GetTable ==
    ASSUME Types, Live, TableOK, Reading, NEW n, tab' = Get(tab, n), UNCHANGED <<src, pc, pass>>,
           src[line].op \notin Entering, line' = line \/ line' = line + 1,
           Missing(tab, n) => /\ n \in {e.name : e \in Operand(src, line)}
                              /\ TimesOf(src, line) # 0,
           line' # line => \A m \in Referred(src, line) : ~IsLocal(m) /\ pass = 2 => m \in DOMAIN tab'.sym
    PROVE  TableOK'
<1>1. IsSource(src) /\ Orderly(src) /\ line \in DOMAIN src /\ line \in 1 .. Len(src) BY StmtIs DEF Live
<1>2. Root(src, line) = Root(src, line - 1) BY <1>1, RootStays
<1>3. line' # line => line' - 1 = line BY <1>1
<1>4. NamesUpTo(src, line) = NamesUpTo(src, line - 1)
  <2>1. NamesUpTo(src, line) = NamesUpTo(src, line - 1)
          \cup (IF src[line].op \in Entering THEN {Scoped(src, line, src[line].name)} ELSE {})
    BY <1>1, NamesGrow
  <2>2. QED BY <2>1
<1>5. \A x : Defined(src, x) => DefLine(src, x) # line /\ DefLine(src, x) \in 1 .. Len(src)
  BY <1>1, DefLineIs DEF Defining, Entering
<1>6. \A x : Defined(src, x) /\ DefLine(src, x) < line' => DefLine(src, x) < line
  BY <1>1, <1>5
<1>7. DOMAIN tab.sym \subseteq DOMAIN tab'.sym BY DEF Get, Add
<1>8. SeenOK'
  <2>1. SUFFICES ASSUME NEW l \in DOMAIN src, pass = Later \/ pc # "size" \/ (pass = 2 /\ l < line'),
                        NEW m \in Referred(src, l), ~IsLocal(m)
                 PROVE  m \in DOMAIN tab'.sym
    BY DEF SeenOK
  <2>2. l \in Int BY <1>1 DEF IsSource
  <2>3. CASE pass = Later \/ pc # "size" \/ (pass = 2 /\ l < line)
    <3>1. m \in DOMAIN tab.sym BY <2>1, <2>3 DEF TableOK, SeenOK
    <3>2. QED BY <1>7, <3>1
  <2>4. CASE ~(pass = Later \/ pc # "size" \/ (pass = 2 /\ l < line))
    <3>1. l = line /\ line' # line /\ pass = 2 BY <1>1, <2>1, <2>2, <2>4
    <3>2. QED BY <2>1, <3>1
  <2>5. QED BY <2>3, <2>4
<1>9. CASE ~Missing(tab, n)
  <2>1. tab' = tab BY <1>9 DEF Get
  <2>2. PassOK' BY <1>3, <1>4, <2>1 DEF TableOK, PassOK
  <2>3. KindsOK' /\ NumbersOK' BY <2>1 DEF TableOK, KindsOK, NumbersOK
  <2>4. LastOK'
    <3>1. Astray' <=> Astray BY <2>1 DEF Astray
    <3>2. QED BY <1>2, <1>3, <2>1, <3>1 DEF TableOK, LastOK
  <2>5. ConstsOK'
    <3>1. SUFFICES ASSUME pass >= 2, NEW x \in Names(src), Len(x) = 1, IsConst(src, x),
                          DefLine(src, x) < line' \/ pc # "size"
                   PROVE  tab.sym[x].value = ConstOf(src, x)
      BY <2>1 DEF ConstsOK
    <3>2. DefLine(src, x) < line \/ pc # "size" BY <1>6, <3>1 DEF IsConst
    <3>3. QED BY <3>1, <3>2 DEF TableOK, ConstsOK
  <2>6. ValuesOK'
    <3>1. SUFFICES ASSUME Settled, NEW x \in Names(src), Defined(src, x),
                          DefLine(src, x) < line' \/ pc # "size"
                   PROVE  IF IsConst(src, x) THEN tab.sym[x].value = ConstOf(src, x)
                          ELSE /\ tab.sym[x].value = Address(src, x)
                               /\ tab.sym[x].seg = SegAt(src, DefLine(src, x))
      BY <2>1 DEF ValuesOK, Settled
    <3>2. DefLine(src, x) < line \/ pc # "size" BY <1>6, <3>1
    <3>3. QED BY <3>1, <3>2 DEF TableOK, ValuesOK
  <2>7. QED BY <1>8, <2>2, <2>3, <2>4, <2>5, <2>6 DEF TableOK
<1>10. CASE Missing(tab, n)
  <2> DEFINE f == Full(tab, n)
  <2>1. n # NoName /\ ~Known(tab, n) /\ pass = 2 /\ f \notin DOMAIN tab.sym
    BY <1>10 DEF Missing, Known
  <2>2. PICK e \in Operand(src, line) : e.name = n BY <1>10
  <2>3. IsExpr(e)
    <3>1. e = Body(src[line]).e /\ Body(src[line]).op = "emit" BY DEF Operand
    <3>2. QED BY <1>1, <3>1, BodyPlain, PlainFields
  <2>4. /\ \/ f = Scoped(src, line, n)
           \/ /\ Astray /\ IsLocal(n) /\ f \notin Names(src) /\ Len(f) # 1
              /\ <<f[1]>> \notin Names(src) /\ f[1] \notin Locals
        /\ f \in Seq(STRING) /\ f # NoName
        /\ ~IsLocal(n) => f = n /\ Len(n) = 1
        /\ IsLocal(n) => Scoped(src, line, n) \in Names(src)
        /\ IsName(n)
    BY <2>1, <2>2, <2>3, OperandName
  <2>5. Names(src) \subseteq DOMAIN tab.sym BY <2>1 DEF TableOK, PassOK
  <2>6. f \notin Names(src) BY <2>1, <2>5
  <2>7. f[1] \notin Locals /\ <<f[1]>> \notin Names(src) /\ (Len(f) = 1 => ~IsLocal(n))
    <3>1. CASE IsLocal(n) BY <2>4, <2>6, <3>1
    <3>2. CASE ~IsLocal(n)
      <4>1. f = n /\ n = <<n[1]>> BY <2>4, <3>2, NameIs
      <4>2. n[1] \notin Locals BY <3>2 DEF IsLocal
      <4>3. QED BY <2>6, <3>2, <4>1, <4>2
    <3>3. QED BY <3>1, <3>2
  <2>8. ~IsLocal(f) BY <2>7 DEF IsLocal
  <2>9. Full(tab, f) = f BY <2>8 DEF Full
  <2>10. tab' = Add(tab, "extern", f, 0) BY <1>10 DEF Get
  <2> HIDE DEF f
  <2>11. /\ DOMAIN tab'.sym = DOMAIN tab.sym \cup {f}
         /\ tab'.sym[f].kind = "extern"
         /\ \A x \in DOMAIN tab.sym : x # f => tab'.sym[x] = tab.sym[x]
         /\ tab'.last = f /\ tab'.grew = TRUE
    BY <2>1, <2>4, <2>8, <2>10, AddedExtern
  <2>12. pc = "size"
    <3>1. SUFFICES ASSUME pc # "size" PROVE FALSE OBVIOUS
    <3>2. ~Astray BY <3>1 DEF TableOK, PassOK, Astray
    <3>3. ~IsLocal(n) BY <2>4, <2>6, <3>2
    <3>4. n \in Referred(src, line) BY <1>10, <2>1 DEF Referred
    <3>5. n \in DOMAIN tab.sym BY <1>1, <3>1, <3>3, <3>4 DEF TableOK, SeenOK
    <3>6. QED BY <2>1, <2>4, <3>3, <3>5
  <2>13. PassOK' BY <2>1, <2>5, <2>11, <2>12 DEF PassOK, Later
  <2>14. KindsOK'
    <3>1. SUFFICES ASSUME NEW x \in DOMAIN tab'.sym, Len(x) = 1 \/ x \in Names(src)
                   PROVE  tab'.sym[x].kind = Kind(src, x)
      BY DEF KindsOK
    <3>2. CASE x = f
      <4>1. Kind(src, f) = "extern" BY <1>1, <2>6, OtherKind
      <4>2. QED BY <2>11, <3>2, <4>1
    <3>3. CASE x # f BY <2>11, <3>1, <3>3 DEF TableOK, KindsOK
    <3>4. QED BY <3>2, <3>3
  <2>15. Astray' BY <2>1, <2>4, <2>7, <2>11 DEF Astray
  <2>16. LastOK' BY <2>15 DEF LastOK
  <2>17. NumbersOK'
    <3>1. SUFFICES ASSUME NEW x \in DOMAIN tab'.sym, x \in Names(src)
                   PROVE  /\ IsNumber(src, x) => tab'.sym[x].value = src[DefLine(src, x)].e.k
                          /\ ~Defined(src, x) /\ GlobalLines(src, x) # {} => tab'.sym[x].value = 0
      BY DEF NumbersOK
    <3>2. x \in DOMAIN tab.sym /\ tab'.sym[x] = tab.sym[x] BY <2>5, <2>6, <2>11, <3>1
    <3>3. QED BY <3>1, <3>2 DEF TableOK, NumbersOK
  <2>18. ConstsOK'
    <3>1. SUFFICES ASSUME pass >= 2, NEW x \in Names(src), Len(x) = 1, IsConst(src, x),
                          DefLine(src, x) < line' \/ pc # "size"
                   PROVE  tab'.sym[x].value = ConstOf(src, x)
      BY DEF ConstsOK
    <3>2. DefLine(src, x) < line \/ pc # "size" BY <1>6, <3>1 DEF IsConst
    <3>3. tab'.sym[x] = tab.sym[x] BY <2>5, <2>6, <2>11, <3>1
    <3>4. QED BY <3>1, <3>2, <3>3 DEF TableOK, ConstsOK
  <2>19. ValuesOK' BY <2>11 DEF ValuesOK, Settled
  <2>20. QED BY <1>8, <2>13, <2>14, <2>16, <2>17, <2>18, <2>19 DEF TableOK
<1>11. QED BY <1>9, <1>10

LEMMA ReserveTable ==
    ASSUME Types, Live, TableOK, Reserve
    PROVE  TableOK'
<1>1. Reading /\ NextLine /\ Stmt.op = "res" /\ tab' = Get(tab, Stmt.e.name)
      /\ UNCHANGED <<src, pc, pass>>
  BY ReserveIs
<1>2. Stmt.e \in Sizing(src, line) /\ IsExpr(Stmt.e) /\ Stmt = Body(src[line]) BY <1>1, StmtNames
<1>3. ~Missing(tab, Stmt.e.name) BY <1>1, <1>2, SizingName DEF Missing
<1>4. src[line].op \notin Entering BY <1>1, <1>2 DEF Body, Entering
<1>5. line' = line \/ line' = line + 1 BY <1>1 DEF NextLine
<1>6. Referred(src, line) = {} BY <1>1, <1>2 DEF Referred, Operand
<1>7. QED BY <1>1, <1>3, <1>4, <1>5, <1>6, GetTable

LEMMA TimesTable ==
    ASSUME Types, Live, TableOK, CountOK, Times
    PROVE  TableOK'
<1>1. /\ Reading /\ Stmt.op = "times" /\ Stmt = src[line] /\ tab' = Get(tab, Stmt.e.name)
      /\ line' = IF Value(tab, Stmt.e, 0, 0, Here(header)) = 0 THEN line + 1 ELSE line
      /\ UNCHANGED <<src, pc, pass>>
  BY TimesAre
<1>2. Stmt.e \in Sizing(src, line) /\ IsExpr(Stmt.e) BY <1>1, StmtNames
<1>3. ~Missing(tab, Stmt.e.name) BY <1>1, <1>2, SizingName DEF Missing
<1>4. src[line].op \notin Entering BY <1>1, <1>2 DEF Entering
<1>5. line' = line \/ line' = line + 1 BY <1>1
<1>6. line' # line /\ pass = 2 => Referred(src, line) = {}
  <2>1. SUFFICES ASSUME line' # line, pass = 2 PROVE TimesOf(src, line) = 0 BY DEF Referred
  <2>2. Value(tab, Stmt.e, 0, 0, Here(header)) = TimesOf(src, line)
    BY <1>1, <2>1, TimesValue DEF CountOK
  <2>3. QED BY <1>1, <2>1, <2>2
<1>7. QED BY <1>1, <1>3, <1>4, <1>5, <1>6, GetTable

LEMMA EmitTable ==
    ASSUME Types, Live, TableOK, CountOK, Emit
    PROVE  TableOK'
<1> DEFINE n == Stmt.e.name
<1>1. Reading /\ NextLine /\ Stmt.op = "emit" /\ tab' = Get(tab, n) /\ UNCHANGED <<src, pc, pass>>
  BY EmitIs
<1>2. /\ Stmt.e \in Operand(src, line) /\ IsExpr(Stmt.e) /\ Stmt = Body(src[line])
      /\ src[line].op \notin Entering
  BY <1>1, StmtNames
<1>3. Operand(src, line) = {Stmt.e} BY <1>1, <1>2 DEF Operand
<1>4. Missing(tab, n) => n \in {e.name : e \in Operand(src, line)} /\ TimesOf(src, line) # 0
  <2>1. SUFFICES ASSUME pass = 2 PROVE TimesOf(src, line) # 0 BY <1>2 DEF Missing
  <2>2. Read \in Nat /\ TimesOf(src, line) \in Int /\ Read + 1 <= TimesOf(src, line)
    BY <1>1, <2>1, Progress DEF CountOK
  <2>3. QED BY <2>2
<1>5. line' = line \/ line' = line + 1 BY <1>1 DEF NextLine
<1>6. \A m \in Referred(src, line) : ~IsLocal(m) /\ pass = 2 => m \in DOMAIN tab'.sym
  <2>1. SUFFICES ASSUME n # NoName, ~IsLocal(n), pass = 2 PROVE n \in DOMAIN tab'.sym
    BY <1>3 DEF Referred
  <2>2. Full(tab, n) = n BY <2>1 DEF Full
  <2>3. CASE Known(tab, n) BY <1>1, <2>2, <2>3 DEF Known, Get, Missing
  <2>4. CASE ~Known(tab, n)
    <3>1. tab' = Add(tab, "extern", n, 0) BY <1>1, <2>1, <2>2, <2>4 DEF Get, Missing
    <3>2. QED BY <2>2, <3>1 DEF Add
  <2>5. QED BY <2>3, <2>4
<1>7. QED BY SMTT(40), <1>1, <1>2, <1>4, <1>5, <1>6, GetTable

LEMMA SectionTable ==
    ASSUME Types, Live, TableOK, Section
    PROVE  TableOK'
<1>1. Reading /\ NextLine /\ Stmt.op = "section" /\ tab' = tab /\ UNCHANGED <<src, pc, pass>>
  BY DEF Section, At
<1>2. Stmt = src[line] /\ rep = 0 BY <1>1, StmtNames
<1>3. src[line].op \notin Entering BY <1>1, <1>2 DEF Entering
<1>4. line' = line \/ line' = line + 1 BY <1>1 DEF NextLine
<1>5. Get(tab, NoName) = tab /\ ~Missing(tab, NoName) BY DEF Get, Missing
<1>6. Referred(src, line) = {} BY <1>1, <1>2 DEF Referred, Operand, Body
<1>7. QED BY <1>1, <1>3, <1>4, <1>5, <1>6, GetTable

\* The end of a pass: the next one starts with what this one left in the table.
LEMMA SizingTable ==
    ASSUME Types, Live, TableOK, SizingEnds
    PROVE  TableOK'
<1>1. /\ pc = "size" /\ line > Len(src) /\ line' = 1
      /\ UNCHANGED <<src>>
      /\ tab.grew => /\ tab'.sym = tab.sym /\ tab'.last = tab.last /\ tab'.grew = FALSE
                     /\ pass' = (IF pass = 1 THEN 2 ELSE Later) /\ pc' = pc
      /\ ~tab.grew => pc' = "text" /\ pass' = pass /\ tab' = tab
  BY SizingEndsIs
<1>2. IsSource(src) /\ Orderly(src) /\ Len(src) \in Nat BY SrcIs DEF Live, Types, IsSource
<1>3. line = Len(src) + 1 /\ pass \in 1 .. Later /\ tab.grew \in BOOLEAN
  BY <1>1, <1>2 DEF Types, TypeOK, TabOK
<1>4. line - 1 = Len(src) BY <1>2, <1>3
<1>5. tab'.sym = tab.sym BY <1>1, <1>3
<1>6. pass = 1 => tab.grew
  <2>1. SUFFICES ASSUME pass = 1 PROVE DOMAIN tab.sym # {} BY DEF TableOK, PassOK
  <2>2. DOMAIN tab.sym = Names(src) BY <1>4, <2>1 DEF TableOK, PassOK, Names
  <2>3. PICK l \in DOMAIN src : src[l].op \in Entering BY <1>2 DEF Orderly, Named
  <2>4. Scoped(src, l, src[l].name) \in Names(src) BY <1>2, <2>3, EnteredAs
  <2>5. QED BY <2>2, <2>4
<1>7. pass' >= 2 /\ (pc' # "size" => ~tab'.grew) /\ (pass' = Later => ~tab'.grew)
  BY <1>1, <1>3, <1>6 DEF Later, TableOK, PassOK
<1>8. Names(src) \subseteq DOMAIN tab.sym
  <2>1. CASE pass = 1 BY <1>4, <2>1 DEF TableOK, PassOK, Names
  <2>2. CASE pass >= 2 BY <2>2 DEF TableOK, PassOK
  <2>3. QED BY <1>3, <2>1, <2>2 DEF Later
<1>9. PassOK' BY <1>1, <1>3, <1>5, <1>7, <1>8 DEF PassOK, Later
<1>10. KindsOK' BY <1>1, <1>5 DEF TableOK, KindsOK
<1>11. Root(src, 0) = NoName BY DEF Root, Roots
<1>12. LastOK' BY <1>1, <1>11 DEF LastOK
<1>13. \A l \in DOMAIN src : l >= 1 /\ l < line BY <1>2, <1>3 DEF IsSource
<1>14. SeenOK'
  <2>1. SUFFICES ASSUME NEW l \in DOMAIN src, pass' = Later \/ pc' # "size" \/ (pass' = 2 /\ l < 1),
                        NEW m \in Referred(src, l), ~IsLocal(m)
                 PROVE  m \in DOMAIN tab.sym
    BY <1>1, <1>5 DEF SeenOK
  <2>2. ~(l < 1)
    <3>1. l >= 1 /\ l \in Int BY <1>2, <1>13 DEF IsSource
    <3>2. QED BY <3>1
  <2>3. pass # 1
    <3>1. SUFFICES ASSUME pass = 1 PROVE FALSE OBVIOUS
    <3>2. pass' = 2 /\ pc' = "size" BY <1>1, <1>6, <3>1
    <3>3. QED BY <2>1, <2>2, <3>2 DEF Later
  <2>4. pass = Later \/ pass = 2 BY <1>3, <2>3 DEF Later
  <2>5. QED BY <1>13, <2>1, <2>4 DEF TableOK, SeenOK
<1>15. NumbersOK' BY <1>1, <1>5 DEF TableOK, NumbersOK
<1>16. \A n : Defined(src, n) => DefLine(src, n) < line /\ ~(DefLine(src, n) < 1)
  <2>1. \A n : Defined(src, n) => DefLine(src, n) \in 1 .. Len(src) BY <1>2, DefLineIs
  <2>2. QED BY <1>2, <1>3, <2>1
<1>17. ConstsOK'
  <2>1. SUFFICES ASSUME NEW n \in Names(src), Len(n) = 1, IsConst(src, n), pc' # "size"
                 PROVE  tab.sym[n].value = ConstOf(src, n)
    BY <1>1, <1>5, <1>16 DEF ConstsOK, IsConst
  <2>2. ~tab.grew /\ pass >= 2 BY <1>1, <1>3, <1>6, <2>1 DEF Later
  <2>3. DefLine(src, n) < line BY <1>16, <2>1 DEF IsConst
  <2>4. QED BY <2>1, <2>2, <2>3 DEF TableOK, ConstsOK
<1>18. ValuesOK'
  <2>1. SUFFICES ASSUME NEW n \in Names(src), Defined(src, n), pc' # "size"
                 PROVE  IF IsConst(src, n) THEN tab.sym[n].value = ConstOf(src, n)
                        ELSE /\ tab.sym[n].value = Address(src, n)
                             /\ tab.sym[n].seg = SegAt(src, DefLine(src, n))
    BY <1>1, <1>5, <1>16 DEF ValuesOK
  <2>2. Settled BY <1>1, <1>3, <1>6, <2>1 DEF Later, Settled
  <2>3. DefLine(src, n) < line BY <1>16, <2>1
  <2>4. QED BY <2>1, <2>2, <2>3 DEF TableOK, ValuesOK
<1>19. QED BY <1>9, <1>10, <1>12, <1>14, <1>15, <1>17, <1>18 DEF TableOK

LEMMA OutputTable ==
    ASSUME Types, Live, TableOK, OutputEnds
    PROVE  TableOK'
<1>1. /\ pc \in {"text", "data", "symbols"} /\ pc' \in {"data", "symbols", "done"} /\ line' = 1
      /\ UNCHANGED <<src, pass, tab>>
  BY OutputEndsIs
<1>2. pc # "size" /\ pc' # "size" BY <1>1
<1>3. pass >= 2 /\ ~tab.grew BY <1>2 DEF TableOK, PassOK
<1>4. pass # 1
  <2>1. pass \in 1 .. Later BY DEF Types, TypeOK
  <2>2. QED BY <1>3, <2>1
<1>5. PassOK' BY <1>1, <1>2, <1>3, <1>4 DEF TableOK, PassOK
<1>6. KindsOK' /\ NumbersOK' BY <1>1 DEF TableOK, KindsOK, NumbersOK
<1>7. Root(src, 0) = NoName BY DEF Root, Roots
<1>8. LastOK' BY <1>1, <1>7 DEF LastOK
<1>9. SeenOK' /\ ConstsOK' /\ ValuesOK' BY <1>1, <1>2 DEF TableOK, SeenOK, ConstsOK, ValuesOK, Settled
<1>10. QED BY <1>5, <1>6, <1>8, <1>9 DEF TableOK
-----------------------------------------------------------------------------
(* What is counted. *)

LEMMA RepKept ==
    ASSUME Types, Live, RepOK, Reading, NextLine, UNCHANGED <<src, pc, pass>>
    PROVE  RepOK'
<1>1. rep \in Nat /\ line \in DOMAIN src BY StmtIs DEF Types, TypeOK
<1>2. CASE rep > 1
  <2>1. rep' = rep - 1 /\ line' = line BY <1>2 DEF NextLine
  <2>2. ASSUME pass >= 2 PROVE rep' <= TimesOf(src, line)
    <3>1. rep <= TimesOf(src, line) BY <1>1, <1>2, <2>2 DEF RepOK
    <3>2. TimesOf(src, line) \in Int
      <4>1. IsSource(src) /\ Orderly(src) /\ line \in 1 .. Len(src) BY StmtIs DEF Live
      <4>2. QED BY <4>1, LineAdds
    <3>3. QED BY <1>1, <2>1, <3>1, <3>2
  <2>3. src[line].op = "times" BY <1>1, <1>2 DEF RepOK
  <2>4. QED BY <1>1, <2>1, <2>2, <2>3 DEF RepOK, Reads, Reading
<1>3. CASE ~(rep > 1)
  <2>1. rep' = 0 BY <1>3 DEF NextLine
  <2>2. QED BY <2>1 DEF RepOK
<1>4. QED BY <1>2, <1>3

LEMMA WrittenKept ==
    ASSUME WrittenOK, UNCHANGED <<src, pc, written>>
    PROVE  WrittenOK'
BY DEF WrittenOK

\* A statement that makes neither bytes nor records.
LEMMA CountStays ==
    ASSUME Types, Live, CountOK, Reading, NextLine, Stmt.op \in Entering \ {"global"},
           UNCHANGED <<src, pc, pass, seg, header, written>>, Settled' => Settled
    PROVE  CountOK'
<1>1. rep = 0 /\ Stmt = src[line] BY StmtNames
<1>2. IsSource(src) /\ Orderly(src) /\ line \in 1 .. Len(src) /\ Stmt.op # "times" BY StmtIs DEF Live, Entering
<1>3. src[line].op # "section" BY <1>1 DEF Entering
<1>4. RepOK' BY RepKept DEF CountOK
<1>5. SegOK' BY <1>3, SegKept DEF CountOK
<1>6. SizesOK' BY SizesStay DEF CountOK
<1>7. SymsOK'
  <2>1. CASE pass >= 2
    <3>1. ~Recorded(src, line, Body(src[line])) BY <1>1 DEF Recorded, Body, Entering
    <3>2. header'.syms = header.syms + 0
      <4>1. header.syms \in Nat BY SizesIs DEF Types, TypeOK
      <4>2. QED BY <4>1
    <3>3. QED BY <1>2, <2>1, <3>1, <3>2, SymsGo DEF CountOK
  <2>2. CASE ~(pass >= 2) BY <2>2 DEF SymsOK, Settled
  <2>3. QED BY <2>1, <2>2
<1>8. WrittenOK' BY WrittenKept DEF CountOK
<1>9. QED BY <1>4, <1>5, <1>6, <1>7, <1>8 DEF CountOK

LEMMA LabelCount == ASSUME Types, Live, CountOK, Label PROVE CountOK'
<1>1. /\ Reading /\ NextLine /\ Stmt.op = "label"
      /\ UNCHANGED <<src, pc, pass, seg, header, written>>
      /\ tab' = Add(tab, "label", Stmt.name, Here(header))
  BY DEF Label, At, output
<1>2. Settled' => Settled BY <1>1 DEF Settled, Add, Types, TypeOK, TabOK
<1>3. QED BY <1>1, <1>2, CountStays DEF Entering

LEMMA ExternCount == ASSUME Types, Live, CountOK, Extern PROVE CountOK'
<1>1. /\ Reading /\ NextLine /\ Stmt.op = "extern"
      /\ UNCHANGED <<src, pc, pass, seg, header, written>>
      /\ tab' = Add(tab, "extern", Stmt.name, 0)
  BY DEF Extern, At, output
<1>2. Settled' => Settled BY <1>1 DEF Settled, Add, Types, TypeOK, TabOK
<1>3. QED BY <1>1, <1>2, CountStays DEF Entering

LEMMA EquCount == ASSUME Types, Live, CountOK, Equ PROVE CountOK'
<1>1. /\ Reading /\ NextLine /\ Stmt.op \in {"equ", "labelequ"}
      /\ tab'.grew = Get(Entered(tab), Stmt.e.name).grew
  BY EquIs
<1>2. UNCHANGED <<src, pc, pass, seg, header, written>> BY DEF Equ, output
<1>3. Settled' => Settled
  <2>1. tab.grew => Entered(tab).grew BY DEF Entered, Add
  <2>2. Entered(tab).grew => Get(Entered(tab), Stmt.e.name).grew BY DEF Get, Add
  <2>3. QED BY <1>1, <1>2, <2>1, <2>2 DEF Settled
<1>4. QED BY <1>1, <1>2, <1>3, CountStays DEF Entering

LEMMA SectionCount == ASSUME Types, Live, CountOK, Section PROVE CountOK'
<1>1. /\ Reading /\ NextLine /\ Stmt.op = "section" /\ seg' = Stmt.seg
      /\ UNCHANGED <<src, pc, pass, tab, header, written>>
  BY DEF Section, At, output
<1>2. rep = 0 /\ Stmt = src[line] BY <1>1, StmtNames
<1>3. IsSource(src) /\ Orderly(src) /\ line \in 1 .. Len(src) /\ line \in DOMAIN src BY <1>1, StmtIs DEF Live
<1>4. RepOK' BY <1>1, RepKept DEF CountOK
<1>5. SegOK'
  <2>1. SegAt(src, line) = src[line].seg BY <1>1, <1>2, <1>3, SegStays
  <2>2. line' - 1 = line
    <3>1. line' = line + 1 BY <1>1, <1>2 DEF NextLine
    <3>2. QED BY <1>3, <3>1
  <2>3. QED BY <1>1, <1>2, <2>1, <2>2 DEF SegOK
<1>6. SizesOK' BY <1>1, SizesStay DEF CountOK
<1>7. SymsOK'
  <2>1. CASE pass >= 2
    <3>1. ~Recorded(src, line, Body(src[line])) BY <1>1, <1>2 DEF Recorded, Body
    <3>2. header'.syms = header.syms + 0
      <4>1. header.syms \in Nat BY SizesIs DEF Types, TypeOK
      <4>2. QED BY <1>1, <4>1
    <3>3. Stmt.op # "times" /\ (Settled' => Settled) BY <1>1 DEF Settled
    <3>4. QED BY <1>1, <2>1, <3>1, <3>2, <3>3, SymsGo DEF CountOK
  <2>2. CASE ~(pass >= 2) BY <1>1, <2>2 DEF SymsOK, Settled
  <2>3. QED BY <2>1, <2>2
<1>8. WrittenOK' BY <1>1, WrittenKept DEF CountOK
<1>9. QED BY <1>4, <1>5, <1>6, <1>7, <1>8 DEF CountOK

LEMMA SymsKept ==
    ASSUME NEW h \in Sizes, NEW n \in Nat, h.syms + n <= 65535
    PROVE  /\ [h EXCEPT !.syms = (@ + n) % 65536].syms = h.syms + n
           /\ \A g \in Segments : [h EXCEPT !.syms = (@ + n) % 65536][g] = h[g]
<1>1. h.syms \in Nat /\ "syms" \in DOMAIN h BY SizesIs
<1>2. (h.syms + n) % 65536 = h.syms + n BY <1>1, WordMod
<1>3. \A g \in Segments : g # "syms" /\ g \in DOMAIN h
  <2>1. DOMAIN h = {"text", "data", "bss", "syms"} BY SizesIs
  <2>2. QED BY <2>1 DEF Segments
<1> DEFINE v == (h.syms + n) % 65536
<1>4. v = h.syms + n BY <1>2
<1> HIDE DEF v
<1>5. [h EXCEPT !.syms = v].syms = v /\ \A g \in Segments : [h EXCEPT !.syms = v][g] = h[g]
  BY <1>1, <1>3
<1>6. QED BY <1>4, <1>5 DEF v

LEMMA GlobalCount == ASSUME Types, Live, TableOK, CountOK, Global PROVE CountOK'
<1>1. /\ Reading /\ NextLine /\ Stmt.op = "global"
      /\ header' = [header EXCEPT !.syms = (@ + 1) % 65536]
      /\ UNCHANGED <<src, pc, pass, seg, written>>
  BY DEF Global, At
<1>2. rep = 0 /\ Stmt = src[line] BY <1>1, StmtNames DEF Entering
<1>3. IsSource(src) /\ Orderly(src) /\ line \in 1 .. Len(src) BY <1>1, StmtIs DEF Live
<1>4. header \in Sizes BY DEF Types, TypeOK
<1>5. \A g \in Segments : header'[g] = header[g]
  <2>1. DOMAIN header = {"text", "data", "bss", "syms"} BY <1>4, SizesIs
  <2>2. \A g \in Segments : g # "syms" /\ g \in DOMAIN header BY <2>1 DEF Segments
  <2> DEFINE v == (header.syms + 1) % 65536
  <2>3. header' = [header EXCEPT !.syms = v] BY <1>1
  <2> HIDE DEF v
  <2>4. QED BY <2>2, <2>3
<1>6. Settled' => Settled
  <2>1. Get(tab, Stmt.name) = tab BY GlobalTable DEF CountOK
  <2> DEFINE v == IF Known(tab, Stmt.name) THEN tab.sym[Full(Get(tab, Stmt.name), Stmt.name)].value ELSE 0
  <2>2. tab' = Add(Get(tab, Stmt.name), "global", Stmt.name, v) BY DEF Global
  <2>3. tab.grew => tab'.grew BY <2>1, <2>2 DEF Add
  <2>4. QED BY <1>1, <2>3 DEF Settled
<1>7. RepOK' BY <1>1, RepKept DEF CountOK
<1>8. SegOK' BY <1>1, <1>2, SegKept DEF CountOK
<1>9. SizesOK' BY <1>1, <1>5, SizesStay DEF CountOK, Entering
<1>10. SymsOK'
  <2>1. CASE ~Settled BY <1>6, <2>1 DEF SymsOK
  <2>2. CASE Settled
    <3>1. Recorded(src, line, Body(src[line])) BY <1>1, <1>2 DEF Recorded, Body
    <3>2. pass >= 2 /\ Stmt.op # "times" BY <1>1, <2>2 DEF Settled
    <3>3. header.syms + 1 <= 65535 BY <1>1, <1>6, <2>2, <3>1, <3>2, SymsGo DEF CountOK
    <3>4. header'.syms = header.syms + 1 BY <1>1, <1>4, <3>3, SymsKept
    <3>5. QED BY <1>1, <1>6, <3>1, <3>2, <3>4, SymsGo DEF CountOK
  <2>3. QED BY <2>1, <2>2
<1>11. WrittenOK' BY <1>1, WrittenKept DEF CountOK
<1>12. QED BY <1>7, <1>8, <1>9, <1>10, <1>11 DEF CountOK

LEMMA GrowIs ==
    ASSUME NEW h \in Sizes, seg \in Segments, NEW n \in Nat, h[seg] + n <= 65535
    PROVE  /\ Grow(h, n)[seg] = h[seg] + n
           /\ \A g \in {"text", "data", "bss", "syms"} : g # seg => Grow(h, n)[g] = h[g]
           /\ Grow(h, n).syms = h.syms
<1>1. h[seg] \in Nat /\ seg \in DOMAIN h /\ seg # "none" /\ seg # "syms" /\ "syms" \in DOMAIN h
  BY SizesIs DEF Segments
<1>2. (h[seg] + n) % 65536 = h[seg] + n BY <1>1, WordMod
<1> DEFINE v == (h[seg] + n) % 65536
<1>6. Grow(h, n) = [h EXCEPT ![seg] = v] BY <1>1 DEF Grow
<1>7. v = h[seg] + n BY <1>2
<1> HIDE DEF v
<1>3. Grow(h, n) = [h EXCEPT ![seg] = h[seg] + n] BY <1>6, <1>7
<1>4. DOMAIN h = {"text", "data", "bss", "syms"} BY SizesIs
<1>5. QED BY <1>1, <1>3, <1>4

LEMMA ReserveCount == ASSUME Types, Live, TableOK, CountOK, Reserve PROVE CountOK'
<1> DEFINE n == Value(tab, Stmt.e, 0, 0, Here(header)) * Stmt.unit
<1>1. /\ Reading /\ NextLine /\ Stmt.op = "res" /\ header' = Grow(header, n)
      /\ tab' = Get(tab, Stmt.e.name) /\ n \in Int
      /\ UNCHANGED <<src, pc, pass, seg, written>>
  BY ReserveIs
<1>2. IsSource(src) /\ Orderly(src) /\ line \in 1 .. Len(src) BY <1>1, StmtIs DEF Live
<1>3. Stmt = Body(src[line]) BY <1>1, StmtNames
<1>4. src[line].op # "section" BY <1>1, <1>3 DEF Body
<1>5. header \in Sizes /\ seg \in Segments \cup {"none"} BY DEF Types, TypeOK
<1>6. pass >= 2 => /\ seg \in Segments /\ n = SizeOf(src, line) /\ n \in Nat
                   /\ header[seg] + n <= 65535
  <2>1. SUFFICES ASSUME pass >= 2
                 PROVE  seg \in Segments /\ n = SizeOf(src, line) /\ n \in Nat /\ header[seg] + n <= 65535
    OBVIOUS
  <2>2. seg \in Segments BY <1>1, <1>4, <2>1, HereIs DEF CountOK
  <2>3. n = SizeOf(src, line) BY <1>1, <2>1, ReserveValue DEF CountOK
  <2>4. SizeOf(src, line) \in Nat /\ header[seg] + SizeOf(src, line) <= 65535
    BY <1>1, <1>4, <2>1, PlaceIs DEF CountOK
  <2>5. QED BY <2>2, <2>3, <2>4
<1>7. Settled' => Settled
  <2>1. tab.grew => tab'.grew BY <1>1 DEF Get, Add
  <2>2. QED BY <1>1, <2>1 DEF Settled
<1> HIDE DEF n
<1>8. RepOK' BY <1>1, RepKept DEF CountOK
<1>9. SegOK' BY <1>1, <1>4, SegKept DEF CountOK
<1>10. SizesOK'
  <2>1. pass >= 2 => /\ header'[seg] = header[seg] + SizeOf(src, line)
                     /\ \A g \in Segments : g # seg => header'[g] = header[g]
    <3>1. \A g \in Segments : g \in {"text", "data", "bss", "syms"} BY DEF Segments
    <3>2. QED BY <1>1, <1>5, <1>6, <3>1, GrowIs
  <2>2. Stmt.op # "times" BY <1>1
  <2>3. QED BY <1>1, <1>4, <2>1, <2>2, SizesGo DEF CountOK
<1>11. SymsOK'
  <2>1. CASE pass >= 2
    <3>1. ~Recorded(src, line, Body(src[line])) BY <1>1, <1>3 DEF Recorded
    <3>2. header'.syms = header.syms BY <1>1, <1>5, <1>6, <2>1, GrowIs
    <3>3. header'.syms = header.syms + 0
      <4>1. header.syms \in Nat BY <1>5, SizesIs
      <4>2. QED BY <3>2, <4>1
    <3>4. Stmt.op # "times" BY <1>1
    <3>5. QED BY <1>1, <1>7, <2>1, <3>1, <3>3, <3>4, SymsGo DEF CountOK
  <2>2. CASE ~(pass >= 2) BY <1>1, <2>2 DEF SymsOK, Settled
  <2>3. QED BY <2>1, <2>2
<1>12. WrittenOK' BY <1>1, WrittenKept DEF CountOK
<1>13. QED BY <1>8, <1>9, <1>10, <1>11, <1>12 DEF CountOK

\* When the passes have settled, the operand's name is known as what it is.
LEMMA OperandKind ==
    ASSUME Types, Live, TableOK, Reading, Settled, TimesOf(src, line) # 0,
           NEW e \in Operand(src, line), IsExpr(e), e.name # NoName, src[line].op \notin Entering,
           ~Missing(tab, e.name)
    PROVE  /\ Full(tab, e.name) = Scoped(src, line, e.name)
           /\ Full(tab, e.name) \in DOMAIN tab.sym
           /\ KindOf(tab, e.name) = Kind(src, Scoped(src, line, e.name))
<1> DEFINE n == e.name
           f == Full(tab, n)
           s == Scoped(src, line, n)
<1>1. IsSource(src) /\ Orderly(src) /\ line \in DOMAIN src BY StmtIs DEF Live
<1>2. ~Astray BY DEF Astray, Settled
<1>3. /\ IsName(n) /\ f = s
      /\ ~IsLocal(n) => f = n /\ s = n /\ Len(n) = 1
      /\ IsLocal(n) => s \in Names(src)
  BY <1>2, OperandName
<1>4. pass \in 1 .. Later /\ pass >= 2 BY DEF Types, TypeOK, Settled
<1>5. f \in DOMAIN tab.sym
  <2>1. CASE IsLocal(n) BY <1>3, <1>4, <2>1, KnownNames
  <2>2. CASE ~IsLocal(n) /\ pass = 2 BY <1>3, <2>2 DEF Missing, Known
  <2>3. CASE ~IsLocal(n) /\ pass # 2
    <3>1. pass = Later BY <1>4, <2>3 DEF Later
    <3>2. n \in Referred(src, line) BY DEF Referred
    <3>3. n \in DOMAIN tab.sym BY <1>1, <2>3, <3>1, <3>2 DEF TableOK, SeenOK
    <3>4. QED BY <1>3, <2>3, <3>3
  <2>4. QED BY <2>1, <2>2, <2>3
<1>6. Len(f) = 1 \/ f \in Names(src) BY <1>3
<1>7. tab.sym[f].kind = Kind(src, f) BY <1>5, <1>6 DEF TableOK, KindsOK
<1>8. QED BY <1>3, <1>5, <1>7 DEF KindOf, Known

\* What the operand of the statement at hand is.
LEMMA EmitOperand ==
    ASSUME Types, Live, TableOK, CountOK, Emit, pass >= 2
    PROVE  LET n == Stmt.e.name
               s == Scoped(src, line, n)
               m == ModeOf(Stmt.e, Stmt.mode)
           IN /\ Settled' => Settled /\ ~Missing(tab, n)
              /\ n = NoName => KindOf(tab, n) = "unknown"
              /\ Settled /\ ~Missing(tab, n) /\ n # NoName =>
                    /\ Full(tab, n) = s /\ s \in DOMAIN tab.sym
                    /\ KindOf(tab, n) = Kind(src, s)
                    /\ Kind(src, s) \in {"label", "extern", "global"} => m # 0
                    /\ m # 0 => m = Stmt.mode
<1> DEFINE n == Stmt.e.name
           s == Scoped(src, line, n)
           m == ModeOf(Stmt.e, Stmt.mode)
<1>1. /\ Reading /\ NextLine /\ Stmt.op = "emit" /\ tab' = Get(tab, n) /\ UNCHANGED <<src, pc, pass>>
      /\ ~Misused(tab, Stmt.e, Stmt.mode)
  BY EmitIs
<1>2. /\ Stmt.e \in Operand(src, line) /\ IsExpr(Stmt.e) /\ Stmt = Body(src[line])
      /\ src[line].op \notin Entering
  BY <1>1, StmtNames
<1>3. TimesOf(src, line) # 0
  <2>1. Stmt.op # "times" BY <1>1
  <2>2. Read \in Nat /\ TimesOf(src, line) \in Int /\ Read + 1 <= TimesOf(src, line)
    BY <1>1, <2>1, Progress DEF CountOK
  <2>3. QED BY <2>2
<1>4. Settled' => Settled /\ ~Missing(tab, n)
  <2>1. tab.grew => tab'.grew BY <1>1 DEF Get, Add
  <2>2. Missing(tab, n) => tab'.grew
    <3>1. SUFFICES ASSUME Missing(tab, n) PROVE tab'.grew OBVIOUS
    <3>2. tab' = Add(tab, "extern", Full(tab, n), 0) BY <1>1, <3>1 DEF Get
    <3>3. n # NoName /\ ~Known(tab, n) /\ pass = 2 BY <3>1 DEF Missing
    <3>4. Full(tab, n) \notin DOMAIN tab.sym BY <3>3 DEF Known
    <3>5. /\ Full(tab, n) = Scoped(src, line, n)
             \/ (Astray /\ <<Full(tab, n)[1]>> \notin Names(src) /\ Full(tab, n)[1] \notin Locals)
          /\ Full(tab, n) # NoName
      BY <1>1, <1>2, <3>3, OperandName
    <3>6. CASE Astray
      <4>1. tab.grew BY <3>6 DEF Astray
      <4>2. QED BY <2>1, <4>1
    <3>7. CASE ~Astray
      <4>1. Full(tab, n) = Scoped(src, line, n) BY <3>5, <3>7
      <4>2. IsLocal(n) => Scoped(src, line, n) \in Names(src) BY <1>1, <1>2, <3>3, OperandName
      <4>3. IsLocal(n) => Scoped(src, line, n) \in DOMAIN tab.sym BY <3>3, <4>2, KnownNames
      <4>4. ~IsLocal(n) BY <3>4, <4>1, <4>3
      <4>5. Full(tab, n) = n BY <4>4 DEF Full
      <4>6. tab'.last = n /\ tab'.grew = TRUE BY <3>2, <3>3, <3>4, <4>4, <4>5, AddedExtern
      <4>7. QED BY <4>6
    <3>8. QED BY <3>6, <3>7
  <2>3. QED BY <1>1, <2>1, <2>2 DEF Settled
<1>5. n = NoName => KindOf(tab, n) = "unknown" BY DEF KindOf, Known
<1>6. ASSUME Settled, ~Missing(tab, n), n # NoName
      PROVE  /\ Full(tab, n) = s /\ s \in DOMAIN tab.sym
             /\ KindOf(tab, n) = Kind(src, s)
             /\ Kind(src, s) \in {"label", "extern", "global"} => m # 0
             /\ m # 0 => m = Stmt.mode
  <2>1. Full(tab, n) = s /\ s \in DOMAIN tab.sym /\ KindOf(tab, n) = Kind(src, s)
    BY <1>1, <1>2, <1>3, <1>6, OperandKind
  <2>2. Kind(src, s) \in {"label", "extern", "global"} => m # 0 BY <1>1, <2>1 DEF Misused
  <2>3. m # 0 => m = Stmt.mode BY DEF ModeOf
  <2>4. QED BY <2>1, <2>2, <2>3
<1>7. QED BY <1>4, <1>5, <1>6

LEMMA EmitRefs ==
    ASSUME Types, Live, TableOK, CountOK, Emit, Settled, ~Missing(tab, Stmt.e.name), NEW off
    PROVE  LET rr == Refs(tab, Stmt.e, ModeOf(Stmt.e, Stmt.mode), Stmt.disp, off)
           IN Len(rr) = (IF Recorded(src, line, Body(src[line])) THEN 1 ELSE 0)
<1> DEFINE n == Stmt.e.name
           s == Scoped(src, line, n)
           m == ModeOf(Stmt.e, Stmt.mode)
           k == KindOf(tab, n)
           Ref(x, r) == [kind |-> "ref", name |-> x, seg |-> seg, off |-> off,
                         disp |-> Stmt.disp, rel |-> r]
           rr == Refs(tab, Stmt.e, m, Stmt.disp, off)
<1>1. Reading /\ Stmt.op = "emit" /\ Stmt = Body(src[line])
  <2>1. Reading /\ Stmt.op = "emit" BY EmitIs
  <2>2. QED BY <2>1, StmtNames
<1>2. /\ n = NoName => k = "unknown"
      /\ n # NoName => /\ k = Kind(src, s)
                       /\ Kind(src, s) \in {"label", "extern", "global"} => m # 0
                       /\ m # 0 => m = Stmt.mode
  <2>1. pass >= 2 BY DEF Settled
  <2>2. QED BY <2>1, EmitOperand
<1>3. rr = IF k = "label" /\ m = 1
           THEN <<Ref(<<SegName[tab.sym[Full(tab, n)].seg]>>, "abs")>>
           ELSE IF k \in {"extern", "global"} THEN <<Ref(Full(tab, n), Rel[m])>>
           ELSE <<>>
  BY RefsAre
<1>4. \A x, r : Len(<<Ref(x, r)>>) = 1 OBVIOUS
<1>5. Len(rr) = IF (k = "label" /\ m = 1) \/ k \in {"extern", "global"} THEN 1 ELSE 0
  <2> HIDE DEF Ref, k, m
  <2>1. CASE k = "label" /\ m = 1 BY <1>3, <1>4, <2>1
  <2>2. CASE ~(k = "label" /\ m = 1) /\ k \in {"extern", "global"} BY <1>3, <1>4, <2>2
  <2>3. CASE ~(k = "label" /\ m = 1) /\ ~(k \in {"extern", "global"})
    <3>1. rr = <<>> BY <1>3, <2>3
    <3>2. QED BY <2>3, <3>1
  <2>4. QED BY <2>1, <2>2, <2>3
<1>6. Recorded(src, line, Body(src[line])) <=>
          n # NoName /\ (Kind(src, s) \in {"extern", "global"} \/ (Kind(src, s) = "label" /\ Stmt.mode = 1))
  BY <1>1 DEF Recorded
<1>7. Recorded(src, line, Body(src[line])) <=> (k = "label" /\ m = 1) \/ k \in {"extern", "global"}
  <2> HIDE DEF n, s, m, k
  <2>1. CASE n = NoName BY <1>2, <1>6, <2>1
  <2>2. CASE n # NoName BY <1>2, <1>6, <2>2
  <2>3. QED BY <2>1, <2>2
<1> HIDE DEF n, s, m, k
<1>8. QED BY <1>5, <1>7 DEF m

LEMMA GrowTwice ==
    ASSUME NEW h \in Sizes, seg \in Segments, NEW a \in Nat, NEW b \in Nat, h[seg] + (a + b) <= 65535
    PROVE  /\ Grow(h, a)[seg] = h[seg] + a
           /\ Grow(Grow(h, a), b)[seg] = h[seg] + (a + b)
           /\ \A g \in Segments : g # seg => Grow(Grow(h, a), b)[g] = h[g]
           /\ Grow(Grow(h, a), b).syms = h.syms
<1>1. h[seg] \in Nat /\ h.syms \in Nat /\ h.syms <= 65535
      /\ \A g \in Segments : g \in {"text", "data", "bss", "syms"} /\ h[g] \in Nat
  BY SizesIs DEF Segments
<1>2. h[seg] + a <= 65535 /\ (h[seg] + a) + b = h[seg] + (a + b) BY <1>1
<1> DEFINE x == Grow(h, a)
<1>3. /\ x[seg] = h[seg] + a /\ x.syms = h.syms
      /\ \A g \in Segments : g # seg => x[g] = h[g]
  BY <1>1, <1>2, GrowIs
<1>4. x \in Sizes BY GrowTyped
<1> HIDE DEF x
<1>5. x[seg] + b <= 65535 BY <1>2, <1>3
<1>6. /\ Grow(x, b)[seg] = x[seg] + b /\ Grow(x, b).syms = x.syms
      /\ \A g \in {"text", "data", "bss", "syms"} : g # seg => Grow(x, b)[g] = x[g]
  BY <1>4, <1>5, GrowIs
<1>7. /\ x[seg] = h[seg] + a
      /\ Grow(x, b)[seg] = h[seg] + (a + b) /\ Grow(x, b).syms = h.syms
      /\ \A g \in Segments : g # seg => Grow(x, b)[g] = h[g]
  BY <1>1, <1>2, <1>3, <1>6
<1>8. QED BY <1>7 DEF x

\* What an emitted statement adds to the header: its bytes, and the record it leaves.
LEMMA EmitSizes ==
    ASSUME Types, Emit, seg \in Segments, header[seg] + (Stmt.lead + Stmt.w) <= 65535,
           NEW r, r = Len(Refs(tab, Stmt.e, ModeOf(Stmt.e, Stmt.mode), Stmt.disp, Here(Grow(header, Stmt.lead))))
    PROVE  /\ Here(Grow(header, Stmt.lead)) = header[seg] + Stmt.lead
           /\ header'[seg] = header[seg] + (Stmt.lead + Stmt.w)
           /\ \A g \in Segments : g # seg => header'[g] = header[g]
           /\ r = 0 \/ header.syms + r <= 65535 => header'.syms = header.syms + r
<1> DEFINE y == Grow(Grow(header, Stmt.lead), Stmt.w)
           v == (y.syms + r) % 65536
<1>1. /\ header' = [y EXCEPT !.syms = v] /\ Stmt.op = "emit" /\ IsPlain(Stmt) /\ y \in Sizes
      /\ r \in {0, 1}
  BY EmitIs
<1>2. header \in Sizes /\ Stmt.lead \in Nat /\ Stmt.w \in Nat
  BY <1>1, PlainFields DEF Types, TypeOK
<1>3. /\ Grow(header, Stmt.lead)[seg] = header[seg] + Stmt.lead
      /\ y[seg] = header[seg] + (Stmt.lead + Stmt.w) /\ y.syms = header.syms
      /\ \A g \in Segments : g # seg => y[g] = header[g]
  BY <1>2, GrowTwice
<1>4. Here(Grow(header, Stmt.lead)) = header[seg] + Stmt.lead BY <1>3 DEF Here, Segments
<1>5. "syms" \in DOMAIN y /\ \A g \in Segments : g # "syms" /\ g \in DOMAIN y
  <2>1. DOMAIN y = {"text", "data", "bss", "syms"} BY <1>1, SizesIs
  <2>2. QED BY <2>1 DEF Segments
<1>6. r = 0 \/ header.syms + r <= 65535 => v = header.syms + r
  <2>1. header.syms \in Nat /\ header.syms <= 65535 BY <1>2, SizesIs
  <2>2. r \in Nat BY <1>1
  <2>3. QED BY <1>3, <2>1, <2>2, WordMod
<1> HIDE DEF y, v
<1>7. header'.syms = v /\ \A g \in Segments : header'[g] = y[g] BY SMTT(40), <1>1, <1>5
<1>8. QED BY SMTT(40), <1>3, <1>4, <1>6, <1>7

LEMMA EmitCount == ASSUME Types, Live, TableOK, CountOK, Emit PROVE CountOK'
<1> DEFINE n == Stmt.e.name
           m == ModeOf(Stmt.e, Stmt.mode)
           h == Grow(header, Stmt.lead)
           rr == Refs(tab, Stmt.e, m, Stmt.disp, Here(h))
           r == Len(rr)
           rec == Recorded(src, line, Body(src[line]))
<1>1. /\ Reading /\ NextLine /\ Stmt.op = "emit" /\ IsPlain(Stmt) /\ r \in {0, 1}
      /\ header' = [Grow(h, Stmt.w) EXCEPT !.syms = (@ + r) % 65536]
      /\ UNCHANGED <<src, pc, pass, seg, written>>
  BY EmitIs
<1>2. IsSource(src) /\ Orderly(src) /\ line \in 1 .. Len(src) BY <1>1, StmtIs DEF Live
<1>3. Stmt = Body(src[line]) BY <1>1, StmtNames
<1>4. src[line].op # "section" /\ Stmt.op # "times" BY <1>1, <1>3 DEF Body
<1>5. header \in Sizes /\ seg \in Segments \cup {"none"} BY DEF Types, TypeOK
<1>6. SizeOf(src, line) = Stmt.lead + Stmt.w /\ Stmt.lead \in Nat /\ Stmt.w \in Nat
  BY <1>1, <1>3, PlainFields DEF SizeOf, SizeIn
<1>7. Settled' => Settled /\ ~Missing(tab, n)
  <2>1. CASE pass >= 2 BY <2>1, EmitOperand
  <2>2. CASE ~(pass >= 2) BY <1>1, <2>2 DEF Settled
  <2>3. QED BY <2>1, <2>2
<1>8. Settled' => r = (IF rec THEN 1 ELSE 0) BY <1>7, EmitRefs
<1>9. pass >= 2 => seg \in Segments /\ header[seg] + (Stmt.lead + Stmt.w) <= 65535
  <2>1. SUFFICES ASSUME pass >= 2 PROVE seg \in Segments /\ header[seg] + (Stmt.lead + Stmt.w) <= 65535
    OBVIOUS
  <2>2. seg \in Segments BY <1>1, <1>4, <2>1, HereIs DEF CountOK
  <2>3. header[seg] + SizeOf(src, line) <= 65535 BY <1>1, <1>4, <2>1, PlaceIs DEF CountOK
  <2>4. QED BY <1>6, <2>2, <2>3
<1>10. Settled' /\ rec => header.syms + 1 <= 65535
  <2>1. SUFFICES ASSUME Settled', rec PROVE header.syms + 1 <= 65535 OBVIOUS
  <2>2. Settled /\ pass >= 2 BY <1>7, <2>1 DEF Settled
  <2>3. QED BY <1>1, <1>4, <2>1, <2>2, SymsGo DEF CountOK
<1> HIDE DEF n, m, h, rr, r, rec
<1>11. RepOK' BY <1>1, RepKept DEF CountOK
<1>12. SegOK' BY <1>1, <1>4, SegKept DEF CountOK
<1>13. ASSUME pass >= 2
       PROVE  /\ header'[seg] = header[seg] + SizeOf(src, line)
              /\ \A g \in Segments : g # seg => header'[g] = header[g]
  <2>1. PICK z : z = Len(Refs(tab, Stmt.e, ModeOf(Stmt.e, Stmt.mode), Stmt.disp,
                              Here(Grow(header, Stmt.lead))))
    OBVIOUS
  <2>2. /\ header'[seg] = header[seg] + (Stmt.lead + Stmt.w)
        /\ \A g \in Segments : g # seg => header'[g] = header[g]
    BY <1>9, <1>13, <2>1, EmitSizes
  <2>3. QED BY <1>6, <2>2
<1>14. SizesOK' BY <1>1, <1>4, <1>13, SizesGo DEF CountOK
<1>15. SymsOK'
  <2>1. SUFFICES ASSUME Settled' PROVE SymsOK' BY DEF SymsOK
  <2>2. Settled /\ pass >= 2 BY <1>7, <2>1 DEF Settled
  <2>3. r \in Nat /\ (r = 0 \/ header.syms + r <= 65535) BY <1>1, <1>8, <1>10, <2>1
  <2>4. header'.syms = header.syms + r BY <1>9, <2>2, <2>3, EmitSizes DEF r, rr, h, m
  <2>5. header'.syms = header.syms + (IF rec THEN 1 ELSE 0) BY <1>8, <2>1, <2>4
  <2>6. Settled' => Settled BY <2>2
  <2>7. QED BY <1>1, <1>4, <2>2, <2>5, <2>6, SymsGo DEF CountOK, rec
<1>16. WrittenOK' BY <1>1, WrittenKept DEF CountOK
<1>17. QED BY <1>11, <1>12, <1>14, <1>15, <1>16 DEF CountOK

LEMMA TimesCount == ASSUME Types, Live, TableOK, CountOK, Times PROVE CountOK'
<1> DEFINE n == Value(tab, Stmt.e, 0, 0, Here(header))
<1>1. /\ Reading /\ Stmt.op = "times" /\ rep = 0 /\ Stmt = src[line] /\ n \in Nat
      /\ tab' = Get(tab, Stmt.e.name) /\ rep' = n
      /\ line' = IF n = 0 THEN line + 1 ELSE line
      /\ UNCHANGED <<src, pc, pass, seg, header, written>>
  BY TimesAre
<1>2. IsSource(src) /\ Orderly(src) /\ line \in 1 .. Len(src) /\ line \in DOMAIN src
  BY <1>1, StmtIs DEF Live
<1>3. pass >= 2 => n = TimesOf(src, line) BY <1>1, TimesValue DEF CountOK
<1>4. n = 0 => line' - 1 = line BY <1>1, <1>2
<1>5. Settled' => Settled
  <2>1. tab.grew => tab'.grew BY <1>1 DEF Get, Add
  <2>2. QED BY <1>1, <2>1 DEF Settled
<1> HIDE DEF n
<1>6. RepOK'
  <2>1. SUFFICES ASSUME n > 0
                 PROVE  /\ Reads /\ line \in DOMAIN src /\ src[line].op = "times"
                        /\ pass >= 2 => n <= TimesOf(src, line)
    BY <1>1 DEF RepOK, Reads
  <2>2. QED BY <1>1, <1>2, <1>3 DEF Reads, Reading
<1>7. SegOK'
  <2>1. SegAt(src, line) = SegAt(src, line - 1) BY <1>1, <1>2, SegStays
  <2>2. Sections(src, line) = Sections(src, line - 1) BY <1>1, <1>2 DEF Sections
  <2>3. Reads /\ (pass >= 2 \/ Sections(src, line - 1) # {}) => seg = SegAt(src, line - 1)
    BY DEF CountOK, SegOK
  <2>4. line' = line \/ line' - 1 = line BY <1>1, <1>4
  <2>5. CASE line' = line BY <1>1, <2>3, <2>5 DEF SegOK, Reads
  <2>6. CASE line' - 1 = line BY <1>1, <2>1, <2>2, <2>3, <2>6 DEF SegOK, Reads
  <2>7. QED BY <2>4, <2>5, <2>6
<1>8. SizesOK'
  <2>1. SUFFICES ASSUME pass >= 2, NEW g \in Segments
        PROVE  header[g] = After(src)[line' - 1].size[g]
                           + (IF rep' > 0 /\ g = seg THEN Read' * SizeOf(src, line') ELSE 0)
    BY <1>1 DEF SizesOK
  <2>2. header[g] = After(src)[line - 1].size[g]
    <3>1. header[g] = After(src)[line - 1].size[g] + 0 BY <1>1, <2>1 DEF CountOK, SizesOK, Reads, Reading
    <3>2. line - 1 \in 0 .. Len(src) BY <1>2 DEF IsSource
    <3>3. After(src)[line - 1].size[g] \in Int BY <1>2, <2>1, <3>2, AfterTyped
    <3>4. QED BY <3>1, <3>3
  <2>3. header[g] \in Int
    <3>1. g \in {"text", "data", "bss", "syms"} BY DEF Segments
    <3>2. QED BY <3>1, SizesIs DEF Types, TypeOK
  <2>4. CASE n = 0
    <3>1. TimesOf(src, line) = 0 BY <1>3, <2>1, <2>4
    <3>2. SizeOf(src, line) \in Nat /\ Start(src, line) \in Int BY <1>2, LineAdds
    <3>3. After(src)[line].size[g] = After(src)[line - 1].size[g]
      <4>1. After(src)[line].size[g] = IF g = SegAt(src, line) THEN Start(src, line) + TimesOf(src, line) * SizeOf(src, line)
                                                       ELSE After(src)[line - 1].size[g]
        BY <1>2, <2>1, LineSize
      <4>2. Start(src, line) + 0 * SizeOf(src, line) = Start(src, line) BY <3>2
      <4>3. QED BY <3>1, <4>1, <4>2 DEF Start
    <3>4. rep' = 0 BY <1>1, <2>4
    <3>5. QED BY <1>4, <2>2, <2>3, <2>4, <3>3, <3>4
  <2>5. CASE n # 0
    <3>1. line' = line /\ rep' = n /\ n > 0 BY <1>1, <2>5
    <3>2. Read' = n - n BY <1>1, <1>3, <2>1, <3>1 DEF Read
    <3>3. Read' = 0 BY <1>1, <3>2
    <3>4. Read' * SizeOf(src, line') = 0
      <4>1. SizeOf(src, line) \in Int BY <1>2, LineAdds
      <4>2. QED BY <3>1, <3>3, <4>1
    <3>5. QED BY <2>2, <2>3, <3>1, <3>4
  <2>6. QED BY <2>4, <2>5
<1>9. SymsOK'
  <2>1. SUFFICES ASSUME Settled'
        PROVE  header.syms = After(src)[line' - 1].syms
                      + (IF rep' > 0 /\ Recorded(src, line', src[line'].body) THEN Read' ELSE 0)
    BY <1>1 DEF SymsOK
  <2>2. Settled /\ pass >= 2 BY <1>5, <2>1 DEF Settled
  <2>3. /\ After(src)[line].syms = After(src)[line - 1].syms
                                   + (IF Recorded(src, line, Body(src[line])) THEN TimesOf(src, line) ELSE 0)
        /\ After(src)[line].syms \in Int /\ After(src)[line - 1].syms \in Int
    BY <1>2, LineSyms
  <2>4. header.syms = After(src)[line - 1].syms
    BY <1>1, <2>2, <2>3 DEF CountOK, SymsOK, Reads, Reading
  <2>5. CASE n = 0
    <3>1. TimesOf(src, line) = 0 /\ rep' = 0 BY <1>1, <1>3, <2>2, <2>5
    <3>2. QED BY <1>4, <2>3, <2>4, <2>5, <3>1
  <2>6. CASE n # 0
    <3>1. line' = line /\ rep' = n /\ n > 0 BY <1>1, <2>6
    <3>2. Read' = n - n BY <1>1, <1>3, <2>2, <3>1 DEF Read
    <3>3. Read' = 0 BY <1>1, <3>2
    <3>4. QED BY <2>3, <2>4, <3>1, <3>3
  <2>7. QED BY <2>5, <2>6
<1>10. WrittenOK' BY <1>1, WrittenKept DEF CountOK
<1>11. QED BY <1>6, <1>7, <1>8, <1>9, <1>10 DEF CountOK

\* The last line: what is counted is what the source makes.
LEMMA AtEnd ==
    ASSUME Types, line > Len(src)
    PROVE  IsSource(src) /\ line - 1 = Len(src) /\ rep = 0
<1>1. IsSource(src) /\ Len(src) \in Nat BY SrcIs DEF Types, IsSource
<1>2. line \in 1 .. Len(src) + 1 /\ rep \in Nat /\ (rep > 0 => line <= Len(src)) BY DEF Types, TypeOK
<1>3. QED BY <1>1, <1>2

LEMMA EndSizes ==
    ASSUME Types, Live, CountOK, line > Len(src), Reads, pass >= 2
    PROVE  /\ \A g \in Segments : header[g] = After(src)[Len(src)].size[g]
           /\ Settled => header.syms = After(src)[Len(src)].syms
           /\ seg = SegAt(src, Len(src))
<1>1. IsSource(src) /\ line - 1 = Len(src) /\ rep = 0 BY AtEnd
<1>2. Len(src) \in 0 .. Len(src) BY <1>1 DEF IsSource
<1>3. ASSUME NEW g \in Segments PROVE header[g] = After(src)[Len(src)].size[g]
  <2>1. header[g] = After(src)[Len(src)].size[g] + 0 BY <1>1 DEF CountOK, SizesOK
  <2>2. After(src)[Len(src)].size[g] \in Int BY <1>1, <1>2, AfterTyped
  <2>3. QED BY <2>1, <2>2
<1>4. ASSUME Settled PROVE header.syms = After(src)[Len(src)].syms
  <2>1. header.syms = After(src)[Len(src)].syms + 0 BY <1>1, <1>4 DEF CountOK, SymsOK
  <2>2. After(src)[Len(src)].syms \in Int BY <1>1, <1>2, AfterTyped
  <2>3. QED BY <2>1, <2>2
<1>5. seg = SegAt(src, Len(src)) BY <1>1 DEF CountOK, SegOK
<1>6. QED BY <1>3, <1>4, <1>5

\* A pass starts with nothing counted, in the segment the pass before ended in.
LEMMA PassStarts ==
    ASSUME IsSource(src), src' = src, line' = 1, rep' = 0, header' = Zero,
           pass' >= 2 => seg' = SegAt(src, Len(src))
    PROVE  RepOK' /\ SegOK' /\ SizesOK' /\ SymsOK'
<1>1. After(src)[0] = Nothing
  <2>1. After(src) = [l \in 0 .. Len(src) |-> IF l = 0 THEN Nothing ELSE AfterLine(src, After(src), l)]
    BY AfterExists
  <2>2. 0 \in 0 .. Len(src) BY DEF IsSource
  <2>3. QED BY <2>1, <2>2
<1>2. RepOK' BY DEF RepOK
<1>3. SegOK'
  <2>1. Sections(src, 0) = {} BY DEF Sections
  <2>2. SegAt(src, 0) = SegAt(src, Len(src)) BY SegCarries
  <2>3. QED BY <2>1, <2>2 DEF SegOK
<1>4. SizesOK'
  <2>1. \A g \in Segments : Zero[g] = 0 /\ Nothing.size[g] = 0 BY DEF Zero, Nothing, Segments
  <2>2. QED BY <1>1, <2>1 DEF SizesOK
<1>5. SymsOK' BY <1>1 DEF SymsOK, Zero, Nothing
<1>6. QED BY <1>2, <1>3, <1>4, <1>5

LEMMA SizingCount == ASSUME Types, Live, TableOK, CountOK, SizingEnds PROVE CountOK'
<1>1. /\ pc = "size" /\ line > Len(src) /\ line' = 1
      /\ UNCHANGED <<src, rep, seg>> /\ header' = Zero
      /\ tab.grew => pc' = pc /\ pass' = (IF pass = 1 THEN 2 ELSE Later)
      /\ ~tab.grew => written' = header /\ pc' = "text" /\ UNCHANGED <<pass, tab>>
  BY SizingEndsIs
<1>2. IsSource(src) /\ Orderly(src) /\ line - 1 = Len(src) /\ rep = 0 BY <1>1, AtEnd DEF Live
<1>3. seg' = SegAt(src, Len(src))
  <2>1. Sections(src, Len(src)) # {} BY <1>2 DEF Orderly, HasSection
  <2>2. QED BY <1>1, <1>2, <2>1 DEF CountOK, SegOK, Reads
<1>4. RepOK' /\ SegOK' /\ SizesOK' /\ SymsOK' BY <1>1, <1>2, <1>3, PassStarts
<1>5. WrittenOK'
  <2>1. CASE tab.grew BY <1>1, <2>1 DEF WrittenOK
  <2>2. CASE ~tab.grew
    <3>1. pass # 1
      <4>1. SUFFICES ASSUME pass = 1 PROVE tab.grew BY <2>2
      <4>2. DOMAIN tab.sym = Names(src) BY <1>2, <4>1 DEF TableOK, PassOK, Names
      <4>3. PICK l \in DOMAIN src : src[l].op \in Entering BY <1>2 DEF Orderly, Named
      <4>4. Scoped(src, l, src[l].name) \in Names(src) BY <1>2, <4>3, EnteredAs
      <4>5. QED BY <4>1, <4>2, <4>4 DEF TableOK, PassOK
    <3>2. pass >= 2 /\ Settled BY <2>2, <3>1 DEF Types, TypeOK, Settled, Later
    <3>3. /\ \A g \in Segments : header[g] = After(src)[Len(src)].size[g]
          /\ header.syms = After(src)[Len(src)].syms
      BY <1>1, <3>2, EndSizes DEF Reads
    <3>4. QED BY <1>1, <2>2, <3>3 DEF WrittenOK
  <2>3. QED BY <2>1, <2>2
<1>6. QED BY <1>4, <1>5 DEF CountOK

LEMMA OutputCount == ASSUME Types, Live, TableOK, CountOK, OutputEnds PROVE CountOK'
<1>1. /\ pc \in {"text", "data", "symbols"} /\ line > Len(src) /\ line' = 1
      /\ UNCHANGED <<src, pass, tab, rep, seg, written>>
      /\ header' = IF pc = "symbols" THEN header ELSE Zero
      /\ pc = "text" => pc' = "data"
      /\ pc = "data" => pc' = "symbols"
      /\ pc = "symbols" => pc' = "done"
  BY OutputEndsIs
<1>2. IsSource(src) /\ line - 1 = Len(src) /\ rep = 0 BY <1>1, AtEnd
<1>3. pass >= 2 /\ Reads BY <1>1 DEF TableOK, PassOK, Reads
<1>4. seg = SegAt(src, Len(src)) BY <1>1, <1>3, EndSizes
<1>5. WrittenOK' BY <1>1 DEF CountOK, WrittenOK
<1>6. CASE pc # "symbols"
  <2>1. header' = Zero BY <1>1, <1>6
  <2>2. QED BY <1>1, <1>2, <1>4, <1>5, <2>1, PassStarts DEF CountOK
<1>7. CASE pc = "symbols"
  <2>1. ~Reads' /\ rep' = 0 BY <1>1, <1>2, <1>7 DEF Reads
  <2>2. RepOK' /\ SegOK' /\ SizesOK' /\ SymsOK' BY <2>1 DEF RepOK, SegOK, SizesOK, SymsOK
  <2>3. QED BY <1>5, <2>2 DEF CountOK
<1>8. QED BY <1>6, <1>7
-----------------------------------------------------------------------------
(* What is written. *)

\* A statement passes one place of its line.
LEMMA PassedStep ==
    ASSUME Types, Live, RepOK, Reading, NextLine, Stmt.op # "times", pass >= 2, src' = src,
           NEW l \in DOMAIN src, NEW q \in Slots(src, l)
    PROVE  Passed(l, q)' <=> Passed(l, q) \/ (l = line /\ q = Read)
<1>1. IsSource(src) /\ Len(src) \in Nat /\ line \in 1 .. Len(src) /\ l \in 1 .. Len(src) /\ Orderly(src)
  BY StmtIs DEF IsSource, Live
<1>2. TimesOf(src, l) \in Int BY <1>1, LineAdds
<1>3. q \in Int /\ q >= 0 /\ q < TimesOf(src, l) BY <1>2 DEF Slots
<1>4. /\ Read \in Nat /\ TimesOf(src, line) \in Int /\ Read + 1 <= TimesOf(src, line)
      /\ \/ rep' > 0 /\ rep > 0 /\ line' = line /\ Read' = Read + 1
         \/ rep' = 0 /\ line' = line + 1 /\ Read + 1 = TimesOf(src, line)
  BY Progress
<1>5. CASE rep' > 0 /\ line' = line /\ Read' = Read + 1
  <2>1. Passed(l, q)' <=> l < line \/ (l = line /\ q < Read + 1) BY <1>5 DEF Passed
  <2>2. Passed(l, q) <=> l < line \/ (l = line /\ q < Read) BY DEF Passed
  <2>3. QED BY <1>3, <1>4, <2>1, <2>2
<1>6. CASE rep' = 0 /\ line' = line + 1 /\ Read + 1 = TimesOf(src, line)
  <2>1. Read' = 0 BY <1>6 DEF Read
  <2>2. Passed(l, q)' <=> l < line + 1 \/ (l = line + 1 /\ q < 0) BY <1>6, <2>1 DEF Passed
  <2>3. Passed(l, q) <=> l < line \/ (l = line /\ q < Read) BY DEF Passed
  <2>4. CASE l = line BY <1>1, <1>3, <1>4, <1>6, <2>2, <2>3, <2>4
  <2>5. CASE l # line BY <1>1, <1>3, <2>2, <2>3, <2>5
  <2>6. QED BY <2>4, <2>5
<1>7. QED BY <1>4, <1>5, <1>6

\* times only counts.
LEMMA PassedTimes ==
    ASSUME Types, Live, TableOK, CountOK, Times, pass >= 2,
           NEW l \in DOMAIN src, NEW q \in Slots(src, l)
    PROVE  Passed(l, q)' <=> Passed(l, q)
<1> DEFINE n == Value(tab, Stmt.e, 0, 0, Here(header))
<1>1. /\ Reading /\ Stmt.op = "times" /\ rep = 0 /\ n \in Nat
      /\ rep' = n /\ line' = (IF n = 0 THEN line + 1 ELSE line) /\ src' = src
  BY TimesAre
<1>2. n = TimesOf(src, line) BY <1>1, TimesValue DEF CountOK
<1> HIDE DEF n
<1>3. IsSource(src) /\ Len(src) \in Nat /\ line \in 1 .. Len(src) /\ l \in 1 .. Len(src) /\ Orderly(src)
  BY <1>1, StmtIs DEF IsSource, Live
<1>4. TimesOf(src, l) \in Int BY <1>3, LineAdds
<1>5. q \in Int /\ q >= 0 /\ q < TimesOf(src, l) BY <1>4 DEF Slots
<1>6. Read = 0 BY <1>1 DEF Read
<1>7. Passed(l, q) <=> l < line \/ (l = line /\ q < 0) BY <1>6 DEF Passed
<1>8. Read' = 0
  <2>1. CASE n = 0 BY <1>1, <2>1 DEF Read
  <2>2. CASE n # 0
    <3>1. Read' = n - n BY <1>1, <1>2, <2>2 DEF Read
    <3>2. QED BY <1>1, <3>1
  <2>3. QED BY <2>1, <2>2
<1>9. Passed(l, q)' <=> l < line' \/ (l = line' /\ q < 0) BY <1>8 DEF Passed
<1>10. CASE n = 0
  <2>1. ASSUME l = line PROVE FALSE
    <3>1. TimesOf(src, l) = 0 BY <1>2, <1>10, <2>1
    <3>2. QED BY <1>5, <3>1
  <2>2. QED BY <1>1, <1>3, <1>5, <1>7, <1>9, <1>10, <2>1
<1>11. CASE n # 0 BY <1>1, <1>7, <1>9, <1>11
<1>12. QED BY <1>10, <1>11

LEMMA BytesStay ==
    ASSUME BytesOK, UNCHANGED <<src, pc, bytes>>,
           pc \in {"text", "data"} => header'[pc] = header[pc],
           \A l \in DOMAIN src : \A q \in Slots(src, l) :
               Body(src[l]).op \in {"emit", "res"} /\ SegAt(src, l) = pc /\ Passed(l, q)' => Passed(l, q)
    PROVE  BytesOK'
<1>1. LaidOK'
  <2>1. \A g \in {"text", "data"} : pc = g => header'[g] = header[g] OBVIOUS
  <2>2. QED BY <2>1 DEF BytesOK, LaidOK
<1>2. PiecesOK' BY DEF BytesOK, PiecesOK
<1>3. AllPieces'
  <2>1. SUFFICES ASSUME NEW l \in DOMAIN src, NEW q \in Slots(src, l),
                        Body(src[l]).op \in {"emit", "res"}, InOutput(SegAt(src, l), l, q)'
                 PROVE  \E i \in DOMAIN bytes :
                            IsPiece(src, bytes[i], Laid(bytes)[i - 1][SegAt(src, l)], l, q)
    BY DEF AllPieces
  <2>2. InOutput(SegAt(src, l), l, q) BY <2>1 DEF InOutput
  <2>3. QED BY <2>1, <2>2 DEF BytesOK, AllPieces
<1>4. QED BY <1>1, <1>2, <1>3 DEF BytesOK

LEMMA RecordsStay ==
    ASSUME RecordsOK, DistinctOK, UNCHANGED <<src, pc, recs, written>>,
           recs \in Seq(Record),
           pc = "symbols" => /\ header'.syms = header.syms
                             /\ \A i \in DOMAIN recs :
                                   recs[i].kind = "ref" /\ recs[i].off < header[recs[i].seg]
                                       => recs[i].off < header'[recs[i].seg]
                             /\ \A l \in DOMAIN src : \A q \in Slots(src, l) :
                                   /\ Passed(l, q) => Passed(l, q)'
                                   /\ Recorded(src, l, Body(src[l])) /\ Passed(l, q)' => Passed(l, q)
    PROVE  RecordsOK' /\ DistinctOK'
<1>1. RecordsOK'
  <2>1. NoRecords' BY DEF RecordsOK, NoRecords
  <2>2. ASSUME NEW i \in DOMAIN recs
        PROVE  \E l \in DOMAIN src : \E q \in Slots(src, l) :
                  /\ Recorded(src, l, Body(src[l])) /\ recs[i] = RecordOf(src, l, q)
                  /\ Body(src[l]).op = "emit" => SegAt(src, l) # "bss"
                  /\ pc = "symbols" => Passed(l, q)'
    BY <2>2 DEF RecordsOK, RecordsMade
  <2>3. ASSUME NEW l \in DOMAIN src, NEW q \in Slots(src, l), Recorded(src, l, Body(src[l])),
               pc = "done" \/ (pc = "symbols" /\ Passed(l, q)')
        PROVE  \E i \in DOMAIN recs : recs[i] = RecordOf(src, l, q)
    BY <2>3 DEF RecordsOK, AllRecords
  <2>4. RecordsMade' BY <2>2 DEF RecordsMade
  <2>5. AllRecords' BY <2>3 DEF AllRecords
  <2>6. QED BY <2>1, <2>4, <2>5 DEF RecordsOK
<1>2. DistinctOK' BY DEF DistinctOK
<1>3. QED BY <1>1, <1>2

LEMMA BytesAdd ==
    ASSUME BytesOK, UNCHANGED <<src, pc>>, bytes \in Seq(Piece), header \in Sizes,
           pc \in {"text", "data"}, pc = SegAt(src, line), line \in DOMAIN src,
           NEW b \in Piece, bytes' = Append(bytes, b), b.seg = pc,
           Read \in Slots(src, line), IsPiece(src, b, header[pc], line, Read),
           header'[pc] = header[pc] + (b.lead + b.w),
           \A l \in DOMAIN src : \A q \in Slots(src, l) :
               Passed(l, q)' => Passed(l, q) \/ (l = line /\ q = Read)
    PROVE  BytesOK'
<1> DEFINE N == Len(bytes)
<1>1. /\ N \in Nat /\ Len(bytes') = N + 1 /\ bytes'[N + 1] = b
      /\ DOMAIN bytes = 1 .. N /\ DOMAIN bytes' = 1 .. N + 1
      /\ \A i \in 1 .. N : bytes'[i] = bytes[i] /\ i - 1 \in 0 .. N
  OBVIOUS
<1>2. /\ \A i \in 0 .. N : Laid(bytes')[i] = Laid(bytes)[i]
      /\ Laid(bytes')[N + 1] = LaidAfter(Laid(bytes)[N], b)
  BY LaidAppend
<1>3. Laid(bytes)[N] =
        [g \in {"text", "data"} |->
            IF pc = "size" \/ (pc = "text" /\ g = "data") THEN 0
            ELSE IF pc = g THEN header[g]
            ELSE After(src)[Len(src)].size[g]]
  BY DEF BytesOK, LaidOK
<1>4. Laid(bytes)[N][pc] = header[pc] BY <1>3
<1>5. N \in 0 .. N /\ (N + 1) - 1 = N BY <1>1
<1>6. Laid(bytes)[N] \in [{"text", "data"} -> Nat] BY <1>5, LaidTyped
<1>7. LaidAfter(Laid(bytes)[N], b) \in [{"text", "data"} -> Nat]
      /\ \A g \in {"text", "data"} :
           LaidAfter(Laid(bytes)[N], b)[g] = IF g = b.seg THEN Laid(bytes)[N][g] + b.lead + b.w
                                                          ELSE Laid(bytes)[N][g]
  BY <1>6, LaidAfterIs
<1>8. Laid(bytes')[N][pc] = header[pc] BY <1>2, <1>4, <1>5
<1>9. header[pc] \in Nat /\ b.lead \in Nat /\ b.w \in Nat BY SizesIs DEF Piece
<1> HIDE DEF N
<1>10. LaidOK'
  <2>1. Laid(bytes')[N + 1] \in [{"text", "data"} -> Nat] BY <1>2, <1>7
  <2>2. ASSUME NEW g \in {"text", "data"}
        PROVE  Laid(bytes')[N + 1][g] =
                 IF pc = "size" \/ (pc = "text" /\ g = "data") THEN 0
                 ELSE IF pc = g THEN header'[g]
                 ELSE After(src)[Len(src)].size[g]
    <3>1. CASE g = pc
      <4>1. Laid(bytes')[N + 1][g] = header[pc] + b.lead + b.w BY <1>2, <1>4, <1>7, <3>1
      <4>2. Laid(bytes')[N + 1][g] = header'[g] BY <1>9, <3>1, <4>1
      <4>3. QED BY <3>1, <4>2
    <3>2. CASE g # pc
      <4>1. Laid(bytes')[N + 1][g] = Laid(bytes)[N][g] BY <1>2, <1>7, <3>2
      <4>2. QED BY <1>3, <3>2, <4>1
    <3>3. QED BY <3>1, <3>2
  <2>3. QED BY <1>1, <2>1, <2>2 DEF LaidOK
<1>12. PiecesOK'
  <2>1. SUFFICES ASSUME NEW i \in 1 .. N + 1
                 PROVE  /\ bytes'[i].line \in DOMAIN src
                        /\ \E q \in Slots(src, bytes'[i].line) :
                              IsPiece(src, bytes'[i], Laid(bytes')[i - 1][bytes'[i].seg], bytes'[i].line, q)
    BY <1>1 DEF PiecesOK
  <2>2. CASE i = N + 1
    <3>1. bytes'[i] = b /\ b.line = line /\ i - 1 = N BY <1>1, <2>2 DEF IsPiece
    <3>2. IsPiece(src, b, Laid(bytes')[N][pc], line, Read) BY <1>8
    <3>3. IsPiece(src, bytes'[i], Laid(bytes')[i - 1][bytes'[i].seg], bytes'[i].line, Read) BY <3>1, <3>2
    <3>4. QED BY <3>1, <3>3
  <2>3. CASE i # N + 1
    <3>1. i \in 1 .. N BY <1>1, <2>3
    <3>2. bytes'[i] = bytes[i] /\ Laid(bytes')[i - 1] = Laid(bytes)[i - 1] BY <1>1, <1>2, <3>1
    <3>3. QED BY <1>1, <3>1, <3>2 DEF BytesOK, PiecesOK
  <2>4. QED BY <2>2, <2>3
<1>13. AllPieces'
  <2>1. SUFFICES ASSUME NEW l \in DOMAIN src, NEW q \in Slots(src, l),
                        Body(src[l]).op \in {"emit", "res"}, InOutput(SegAt(src, l), l, q)'
                 PROVE  \E i \in 1 .. N + 1 :
                            IsPiece(src, bytes'[i], Laid(bytes')[i - 1][SegAt(src, l)], l, q)
    BY <1>1 DEF AllPieces
  <2>2. CASE l = line /\ q = Read
    <3>1. N + 1 \in 1 .. N + 1 /\ bytes'[N + 1] = b BY <1>1
    <3>2. IsPiece(src, b, Laid(bytes')[(N + 1) - 1][pc], line, Read) BY <1>5, <1>8
    <3>3. IsPiece(src, bytes'[N + 1], Laid(bytes')[(N + 1) - 1][SegAt(src, l)], l, q)
      BY <2>2, <3>1, <3>2
    <3>4. N + 1 \in 1 .. N + 1 BY <3>1
    <3>5. WITNESS N + 1 \in 1 .. N + 1
    <3>6. QED BY <3>3
  <2>3. CASE ~(l = line /\ q = Read)
    <3>1. InOutput(SegAt(src, l), l, q) BY <2>1, <2>3 DEF InOutput
    <3>2. PICK i \in 1 .. N : IsPiece(src, bytes[i], Laid(bytes)[i - 1][SegAt(src, l)], l, q)
      BY <1>1, <2>1, <3>1 DEF BytesOK, AllPieces
    <3>3. i \in 1 .. N + 1 /\ bytes'[i] = bytes[i] /\ Laid(bytes')[i - 1] = Laid(bytes)[i - 1]
      BY <1>1, <1>2
    <3>4. QED BY <3>2, <3>3
  <2>4. QED BY <2>2, <2>3
<1>14. QED BY <1>10, <1>12, <1>13 DEF BytesOK

LEMMA RecordsAdd ==
    ASSUME RecordsOK, DistinctOK, UNCHANGED <<src, pc, written>>, pc = "symbols",
           recs \in Seq(Record), line \in DOMAIN src, Read \in Slots(src, line),
           Recorded(src, line, Body(src[line])),
           Body(src[line]).op = "emit" => SegAt(src, line) # "bss",
           NEW r, r = RecordOf(src, line, Read), r \in Record, recs' = Append(recs, r),
           header.syms \in Nat, header'.syms = header.syms + 1,
           \A i \in DOMAIN recs : recs[i] # r,
           \A i \in DOMAIN recs : recs[i].kind = "ref" /\ recs[i].off < header[recs[i].seg]
                                      => recs[i].off < header'[recs[i].seg],
           r.kind = "ref" => r.off < header'[r.seg],
           \A l \in DOMAIN src : \A q \in Slots(src, l) :
               Passed(l, q)' <=> Passed(l, q) \/ (l = line /\ q = Read)
    PROVE  RecordsOK' /\ DistinctOK'
<1> DEFINE N == Len(recs)
<1>1. /\ N \in Nat /\ Len(recs') = N + 1 /\ recs'[N + 1] = r
      /\ DOMAIN recs = 1 .. N /\ DOMAIN recs' = 1 .. N + 1
      /\ \A i \in 1 .. N : recs'[i] = recs[i]
  OBVIOUS
<1>2. N = header.syms BY DEF DistinctOK
<1>3. \A i \in 1 .. N + 1 : i # N + 1 => i \in 1 .. N BY <1>1
<1>4. N + 1 \in 1 .. N + 1 /\ \A i \in 1 .. N : i \in 1 .. N + 1 BY <1>1
<1> HIDE DEF N
<1>5. ASSUME NEW i \in 1 .. N + 1
      PROVE  \E l \in DOMAIN src : \E q \in Slots(src, l) :
                  /\ Recorded(src, l, Body(src[l])) /\ recs'[i] = RecordOf(src, l, q)
                  /\ Body(src[l]).op = "emit" => SegAt(src, l) # "bss"
                  /\ pc = "symbols" => Passed(l, q)'
  <2>1. CASE i = N + 1
    <3>1. /\ Recorded(src, line, Body(src[line])) /\ recs'[i] = RecordOf(src, line, Read)
          /\ Body(src[line]).op = "emit" => SegAt(src, line) # "bss"
      BY <1>1, <2>1
    <3>2. PICK l \in DOMAIN src : l = line OBVIOUS
    <3>3. PICK q \in Slots(src, l) : q = Read BY <3>2
    <3>4. Passed(l, q)' BY <3>2, <3>3
    <3>5. /\ Recorded(src, l, Body(src[l])) /\ recs'[i] = RecordOf(src, l, q)
          /\ Body(src[l]).op = "emit" => SegAt(src, l) # "bss"
      BY <3>1, <3>2, <3>3
    <3>6. QED BY <3>4, <3>5
  <2>2. CASE i # N + 1
    <3>1. i \in DOMAIN recs /\ recs'[i] = recs[i] BY <1>1, <1>3, <2>2
    <3>2. PICK l \in DOMAIN src : \E q \in Slots(src, l) :
              /\ Recorded(src, l, Body(src[l])) /\ recs[i] = RecordOf(src, l, q)
              /\ Body(src[l]).op = "emit" => SegAt(src, l) # "bss"
              /\ pc = "symbols" => Passed(l, q)
      BY <3>1 DEF RecordsOK, RecordsMade
    <3>3. PICK q \in Slots(src, l) :
              /\ Recorded(src, l, Body(src[l])) /\ recs[i] = RecordOf(src, l, q)
              /\ Body(src[l]).op = "emit" => SegAt(src, l) # "bss"
              /\ pc = "symbols" => Passed(l, q)
      BY <3>2
    <3>4. Passed(l, q)' BY <3>3
    <3>5. QED BY <3>1, <3>3, <3>4
  <2>3. QED BY <2>1, <2>2
<1>6. ASSUME NEW l \in DOMAIN src, NEW q \in Slots(src, l), Recorded(src, l, Body(src[l])), Passed(l, q)'
      PROVE  \E i \in 1 .. N + 1 : recs'[i] = RecordOf(src, l, q)
  <2>1. CASE l = line /\ q = Read BY <1>1, <1>4, <2>1
  <2>2. CASE ~(l = line /\ q = Read)
    <3>1. Passed(l, q) BY <1>6, <2>2
    <3>2. PICK i \in 1 .. N : recs[i] = RecordOf(src, l, q) BY <1>1, <1>6, <3>1 DEF RecordsOK, AllRecords
    <3>3. QED BY <1>1, <1>4, <3>2
  <2>3. QED BY <2>1, <2>2
<1>7. RecordsOK'
  <2>1. NoRecords' BY DEF NoRecords
  <2>2. RecordsMade' BY <1>1, <1>5 DEF RecordsMade
  <2>3. AllRecords' BY <1>1, <1>6 DEF AllRecords
  <2>4. QED BY <2>1, <2>2, <2>3 DEF RecordsOK
<1>8. ASSUME NEW i \in 1 .. N + 1, NEW j \in 1 .. N + 1, recs'[i] = recs'[j] PROVE i = j
  <2>1. CASE i = N + 1 /\ j = N + 1 BY <2>1
  <2>2. CASE i = N + 1 /\ j # N + 1 BY <1>1, <1>3, <1>8, <2>2
  <2>3. CASE i # N + 1 /\ j = N + 1 BY <1>1, <1>3, <1>8, <2>3
  <2>4. CASE i # N + 1 /\ j # N + 1
    <3>1. i \in DOMAIN recs /\ j \in DOMAIN recs /\ recs[i] = recs[j] BY <1>1, <1>3, <1>8, <2>4
    <3>2. QED BY <3>1 DEF DistinctOK
  <2>5. QED BY <2>1, <2>2, <2>3, <2>4
<1>9. ASSUME NEW i \in 1 .. N + 1, recs'[i].kind = "ref" PROVE recs'[i].off < header'[recs'[i].seg]
  <2>1. CASE i = N + 1 BY <1>1, <1>9, <2>1
  <2>2. CASE i # N + 1
    <3>1. i \in DOMAIN recs /\ recs'[i] = recs[i] BY <1>1, <1>3, <2>2
    <3>2. QED BY <1>9, <3>1 DEF DistinctOK
  <2>3. QED BY <2>1, <2>2
<1>10. DistinctOK' BY <1>1, <1>2, <1>8, <1>9 DEF DistinctOK
<1>11. QED BY <1>7, <1>10

LEMMA DefinedInt ==
    ASSUME NEW p, IsSource(p), Orderly(p), NEW n, Defined(p, n)
    PROVE  Address(p, n) \in Int /\ ConstOf(p, n) \in Int /\ SegAt(p, DefLine(p, n)) \in Segments
<1>1. DefLine(p, n) \in 1 .. Len(p) /\ Len(p) \in Nat BY DefLineIs DEF IsSource
<1>2. DefLine(p, n) \in 0 .. Len(p) /\ DefLine(p, n) - 1 \in 0 .. Len(p) BY <1>1
<1>3. SegAt(p, DefLine(p, n)) \in Segments BY <1>2, SegIs DEF Orderly
<1>4. After(p)[DefLine(p, n) - 1].size \in [Segments -> Int] BY <1>2, AfterTyped
<1>5. After(p)[DefLine(p, n)].val \in Int BY <1>2, AfterTyped
<1>6. Address(p, n) \in Int BY <1>3, <1>4 DEF Address
<1>7. QED BY <1>3, <1>5, <1>6 DEF ConstOf

\* What the output passes find in the table.
LEMMA OutputOperand ==
    ASSUME Types, Live, TableOK, CountOK, Emit, pc # "size"
    PROVE  LET n == Stmt.e.name
               s == Scoped(src, line, n)
               m == ModeOf(Stmt.e, Stmt.mode)
           IN /\ pass >= 2 /\ Settled /\ ~Missing(tab, n)
              /\ n = NoName => KindOf(tab, n) = "unknown"
              /\ n # NoName =>
                    /\ Full(tab, n) = s /\ s # NoName
                    /\ KindOf(tab, n) = Kind(src, s)
                    /\ Kind(src, s) \in {"label", "extern", "global"} => m # 0
                    /\ m # 0 => m = Stmt.mode
                    /\ Kind(src, s) = "const" => tab.sym[s].value = ConstOf(src, s) /\ ConstOf(src, s) \in Int
                    /\ Kind(src, s) = "label" => /\ tab.sym[s].value = Address(src, s)
                                                 /\ Address(src, s) \in Int
                                                 /\ tab.sym[s].seg = SegAt(src, DefLine(src, s))
<1> DEFINE n == Stmt.e.name
           s == Scoped(src, line, n)
           m == ModeOf(Stmt.e, Stmt.mode)
<1>1. Reading /\ UNCHANGED <<src, pc>> BY EmitIs
<1>2. IsSource(src) /\ Orderly(src) BY <1>1, StmtIs DEF Live
<1>3. TableOK' BY EmitTable
<1>4. Settled' BY <1>1, <1>3 DEF TableOK, PassOK, Settled
<1>5. pass >= 2 BY DEF TableOK, PassOK
<1>6. Settled /\ ~Missing(tab, n) BY <1>4, <1>5, EmitOperand
<1>7. /\ n = NoName => KindOf(tab, n) = "unknown"
      /\ n # NoName =>
            /\ Full(tab, n) = s /\ s \in DOMAIN tab.sym
            /\ KindOf(tab, n) = Kind(src, s)
            /\ Kind(src, s) \in {"label", "extern", "global"} => m # 0
            /\ m # 0 => m = Stmt.mode
  BY <1>5, <1>6, EmitOperand
<1>11. s \in DOMAIN tab.sym => s # NoName BY DEF Types, TypeOK, TabOK
<1> HIDE DEF n, s, m
<1>8. ASSUME Kind(src, s) = "const"
      PROVE  tab.sym[s].value = ConstOf(src, s) /\ ConstOf(src, s) \in Int
  <2>1. IsConst(src, s) /\ Defined(src, s) BY <1>2, <1>8, KindSays DEF IsConst
  <2>2. s \in Names(src) BY <1>2, <2>1, DefinedNames
  <2>3. tab.sym[s].value = ConstOf(src, s) BY <1>6, <2>1, <2>2 DEF TableOK, ValuesOK
  <2>4. QED BY <1>2, <2>1, <2>3, DefinedInt
<1>9. ASSUME Kind(src, s) = "label"
      PROVE  /\ tab.sym[s].value = Address(src, s) /\ Address(src, s) \in Int
             /\ tab.sym[s].seg = SegAt(src, DefLine(src, s))
  <2>1. ~IsConst(src, s) /\ Defined(src, s) BY <1>2, <1>9, KindSays
  <2>2. s \in Names(src) BY <1>2, <2>1, DefinedNames
  <2>3. tab.sym[s].value = Address(src, s) /\ tab.sym[s].seg = SegAt(src, DefLine(src, s))
    BY <1>6, <2>1, <2>2 DEF TableOK, ValuesOK
  <2>4. QED BY <1>2, <2>1, <2>3, DefinedInt
<1>10. QED BY <1>5, <1>6, <1>7, <1>8, <1>9, <1>11 DEF n, s, m

LEMMA OutputValue ==
    ASSUME Types, Live, TableOK, CountOK, Emit, pc # "size", NEW off \in Int
    PROVE  Value(tab, Stmt.e, ModeOf(Stmt.e, Stmt.mode), Stmt.disp, off) = OperandIn(src, line, off)
<1> DEFINE n == Stmt.e.name
           s == Scoped(src, line, n)
           m == ModeOf(Stmt.e, Stmt.mode)
           k == KindOf(tab, n)
           v == tab.sym[Full(tab, n)].value
           N == NameValue(tab, Stmt.e, m, Stmt.disp, off)
           H == Stmt.e.here * off
           K == IF n = NoName THEN "none" ELSE Kind(src, s)
           O == OperandIn(src, line, off)
<1>1. Reading /\ Stmt.op = "emit" /\ IsPlain(Stmt) BY EmitIs
<1>2. Stmt = Body(src[line]) BY <1>1, StmtNames
<1>3. IsSource(src) /\ Orderly(src) BY <1>1, StmtIs DEF Live
<1>4. IsExpr(Stmt.e) /\ Stmt.mode \in 0 .. 3 /\ Stmt.disp \in Int BY <1>1, PlainFields
<1>5. H \in Int /\ Stmt.e.k \in Int /\ Stmt.e.by \in Int BY <1>4, ProductInt DEF IsExpr
<1>6. /\ n = NoName => k = "unknown"
      /\ n # NoName =>
            /\ Full(tab, n) = s /\ s # NoName
            /\ k = Kind(src, s)
            /\ Kind(src, s) \in {"label", "extern", "global"} => m # 0
            /\ m # 0 => m = Stmt.mode
            /\ Kind(src, s) = "const" => tab.sym[s].value = ConstOf(src, s) /\ ConstOf(src, s) \in Int
            /\ Kind(src, s) = "label" => /\ tab.sym[s].value = Address(src, s)
                                         /\ Address(src, s) \in Int
  BY OutputOperand
<1>7. /\ k = "const" => N = Stmt.e.by * v
      /\ k = "label" /\ m = 1 => N = v
      /\ k = "label" /\ m \in {2, 3} => N = v - off + Stmt.disp
      /\ k # "const" /\ ~(k = "label" /\ m \in {1, 2, 3}) => N = 0
  BY NameValueIs
<1>16. n = NoName <=> s = NoName BY <1>6 DEF Scoped
<1>8. /\ K = "const" => O = Stmt.e.by * ConstOf(src, s) + (H + Stmt.e.k)
      /\ K = "label" /\ Stmt.mode = 1 => O = Address(src, s) + (H + Stmt.e.k)
      /\ K = "label" /\ Stmt.mode # 1 => O = Address(src, s) - off + Stmt.disp + (H + Stmt.e.k)
      /\ K \notin {"const", "label"} => O = H + Stmt.e.k
  <2>1. /\ s = Scoped(src, line, Body(src[line]).e.name) /\ K = (IF s = NoName THEN "none" ELSE Kind(src, s))
        /\ Body(src[line]).mode = Stmt.mode /\ Body(src[line]).disp = Stmt.disp
        /\ Body(src[line]).e = Stmt.e
    BY <1>2, <1>16
  <2> HIDE DEF n, s, K, H
  <2>2. O = CASE K = "const" -> Stmt.e.by * ConstOf(src, s) + (H + Stmt.e.k)
              [] K = "label" /\ Stmt.mode = 1 -> Address(src, s) + (H + Stmt.e.k)
              [] K = "label" /\ Stmt.mode # 1 -> Address(src, s) - off + Stmt.disp + (H + Stmt.e.k)
              [] OTHER -> H + Stmt.e.k
    BY <2>1 DEF OperandIn, H
  <2>3. QED BY <2>2
<1>9. Value(tab, Stmt.e, m, Stmt.disp, off) = N + H + Stmt.e.k BY DEF Value
<1>10. n # NoName => Kind(src, s) \in {"const", "label", "global", "extern"} BY <1>3, KindSays
<1>15. Stmt.e.by * ConstOf(src, s) \in Int \/ K # "const" BY <1>5, <1>6, ProductInt
<1> HIDE DEF N, H, O, k, v, m, s, n
<1>11. CASE K = "const"
  <2>1. k = "const" /\ n # NoName BY <1>6, <1>11
  <2>2. v = ConstOf(src, s) BY <1>6, <1>11, <2>1 DEF v
  <2>3. N = Stmt.e.by * ConstOf(src, s) BY <1>7, <2>1, <2>2
  <2>4. QED BY <1>5, <1>8, <1>9, <1>11, <1>15, <2>3 DEF m, O
<1>12. CASE K = "label"
  <2>1. k = "label" /\ n # NoName /\ m # 0 /\ m = Stmt.mode BY <1>6, <1>12
  <2>2. v = Address(src, s) /\ Address(src, s) \in Int BY <1>6, <1>12, <2>1 DEF v
  <2>3. m = 1 => N + H + Stmt.e.k = O BY <1>5, <1>7, <1>8, <1>12, <2>1, <2>2
  <2>4. m # 1 => N + H + Stmt.e.k = O
    <3>1. SUFFICES ASSUME m # 1 PROVE N + H + Stmt.e.k = O OBVIOUS
    <3>2. m \in {2, 3} BY <1>4, <2>1, <3>1
    <3>3. N = Address(src, s) - off + Stmt.disp BY <1>7, <2>1, <2>2, <3>2
    <3>4. O = Address(src, s) - off + Stmt.disp + (H + Stmt.e.k) BY <1>8, <1>12, <2>1, <3>1
    <3>5. QED BY <1>4, <1>5, <2>2, <3>3, <3>4
  <2>5. QED BY <1>9, <2>3, <2>4 DEF m, O
<1>13. CASE K \notin {"const", "label"}
  <2>1. k # "const" /\ k # "label" BY <1>6, <1>13
  <2>2. N = 0 BY <1>7, <2>1
  <2>3. QED BY <1>5, <1>8, <1>9, <1>13, <2>2 DEF m, O
<1>14. QED BY <1>11, <1>12, <1>13

LEMMA ReadSlot ==
    ASSUME Types, Live, RepOK, Reading, NextLine, Stmt.op # "times", pass >= 2, src' = src
    PROVE  Read \in Slots(src, line)
<1>1. Read \in Nat /\ TimesOf(src, line) \in Int /\ Read + 1 <= TimesOf(src, line) BY Progress
<1>2. QED BY <1>1 DEF Slots

LEMMA QuietBytes ==
    ASSUME Types, Live, TableOK, CountOK, BytesOK, Reading, NextLine, Stmt.op # "times",
           Stmt.op \notin {"emit", "res"} \/ seg # pc,
           UNCHANGED <<src, pc, pass, bytes>>,
           pc \in {"text", "data"} => header'[pc] = header[pc]
    PROVE  BytesOK'
<1>1. IsSource(src) /\ Orderly(src) /\ line \in DOMAIN src BY StmtIs DEF Live
<1>2. ASSUME NEW l \in DOMAIN src, NEW q \in Slots(src, l),
             Body(src[l]).op \in {"emit", "res"}, SegAt(src, l) = pc, Passed(l, q)'
      PROVE  Passed(l, q)
  <2>1. pc # "size"
    <3>1. l \in 0 .. Len(src) BY <1>1 DEF IsSource
    <3>2. SegAt(src, l) \in Segments \cup {"none"} BY <1>1, <3>1, SegIs
    <3>3. QED BY <1>2, <3>2 DEF Segments
  <2>2. pass >= 2 BY <2>1 DEF TableOK, PassOK
  <2>3. Passed(l, q)' <=> Passed(l, q) \/ (l = line /\ q = Read)
    BY <2>2, PassedStep DEF CountOK
  <2>4. ASSUME l = line PROVE FALSE
    <3>1. Stmt = Body(src[line]) BY StmtIs
    <3>2. Stmt.op \in {"emit", "res"} BY <1>2, <2>4, <3>1
    <3>3. src[line].op # "section" BY <3>1, <3>2 DEF Body
    <3>4. seg = SegAt(src, line) BY <2>2, <3>3, HereIs DEF CountOK
    <3>5. QED BY <1>2, <2>4, <3>2, <3>4
  <2>5. QED BY <1>2, <2>3, <2>4
<1>3. QED BY <1>2, BytesStay

\* A record is in a segment of the object.
LEMMA RecordPlace ==
    ASSUME Types, Live, RecordsOK, NEW i \in DOMAIN recs
    PROVE  recs[i].seg \in Segments /\ recs[i].off \in Int
<1>1. IsSource(src) /\ Orderly(src) /\ recs \in Seq(Record) BY SrcIs DEF Live, Types, TypeOK
<1>2. recs[i] \in Record BY <1>1
<1>3. PICK l \in DOMAIN src : \E q \in Slots(src, l) : recs[i] = RecordOf(src, l, q)
  BY DEF RecordsOK, RecordsMade
<1>4. PICK q : recs[i] = RecordOf(src, l, q) BY <1>3
<1>5. recs[i].seg = SegAt(src, l) BY <1>4 DEF RecordOf
<1>6. l \in 0 .. Len(src) BY <1>1 DEF IsSource
<1>7. SegAt(src, l) \in Segments BY <1>1, <1>6, SegIs DEF Orderly
<1>8. recs[i].off \in Int BY <1>2 DEF Record
<1>9. QED BY <1>5, <1>7, <1>8

LEMMA QuietRecords ==
    ASSUME Types, Live, TableOK, CountOK, RecordsOK, DistinctOK, Reading, NextLine, Stmt.op # "times",
           pc = "symbols" => ~Recorded(src, line, Body(src[line])),
           UNCHANGED <<src, pc, pass, recs, written>>, header' \in Sizes,
           pc = "symbols" => /\ header'.syms = header.syms
                             /\ \A g \in Segments : header[g] <= header'[g]
    PROVE  RecordsOK' /\ DistinctOK'
<1>1. recs \in Seq(Record) /\ header \in Sizes BY DEF Types, TypeOK
<1>2. ASSUME pc = "symbols", NEW i \in DOMAIN recs, recs[i].off < header[recs[i].seg]
      PROVE  recs[i].off < header'[recs[i].seg]
  <2>1. recs[i].seg \in Segments /\ recs[i].off \in Int BY RecordPlace
  <2>2. recs[i].seg \in {"text", "data", "bss", "syms"} BY <2>1 DEF Segments
  <2>3. header[recs[i].seg] \in Nat /\ header'[recs[i].seg] \in Nat BY <1>1, <2>2, SizesIs
  <2>4. header[recs[i].seg] <= header'[recs[i].seg] BY <1>2, <2>1
  <2>5. QED BY <1>2, <2>1, <2>3, <2>4
<1>3. ASSUME pc = "symbols", NEW l \in DOMAIN src, NEW q \in Slots(src, l)
      PROVE  /\ Passed(l, q) => Passed(l, q)'
             /\ Recorded(src, l, Body(src[l])) /\ Passed(l, q)' => Passed(l, q)
  <2>1. pass >= 2 BY <1>3 DEF TableOK, PassOK
  <2>2. Passed(l, q)' <=> Passed(l, q) \/ (l = line /\ q = Read)
    BY <2>1, PassedStep DEF CountOK
  <2>3. QED BY <1>3, <2>2
<1>4. QED BY <1>1, <1>2, <1>3, RecordsStay

\* A statement that makes neither bytes nor records.
LEMMA QuietOutput ==
    ASSUME Types, Live, TableOK, CountOK, OutputOK, Reading, NextLine,
           Stmt.op \in (Entering \cup {"section"}) \ {"global"},
           UNCHANGED <<src, pc, pass, header, bytes, recs, written>>
    PROVE  OutputOK'
<1>1. Stmt = Body(src[line]) /\ Stmt.op \notin {"times", "emit", "res", "global"}
  BY StmtIs DEF Entering
<1>2. BytesOK' BY <1>1, QuietBytes DEF OutputOK
<1>3. ~Recorded(src, line, Body(src[line])) BY <1>1 DEF Recorded
<1>4. header \in Sizes BY DEF Types, TypeOK
<1>5. \A g \in Segments : header[g] <= header'[g]
  <2>1. \A g \in Segments : g \in {"text", "data", "bss", "syms"} BY DEF Segments
  <2>2. \A g \in Segments : header[g] \in Nat BY <1>4, <2>1, SizesIs
  <2>3. QED BY <2>2
<1>6. RecordsOK' /\ DistinctOK' BY <1>1, <1>3, <1>4, <1>5, QuietRecords DEF OutputOK
<1>7. QED BY <1>2, <1>6 DEF OutputOK

LEMMA SectionOutput == ASSUME Types, Live, TableOK, CountOK, OutputOK, Section PROVE OutputOK'
<1>1. /\ Reading /\ NextLine /\ Stmt.op = "section"
      /\ UNCHANGED <<src, pc, pass, header, bytes, recs, written>>
  BY DEF Section, At, output
<1>2. QED BY <1>1, QuietOutput

LEMMA LabelOutput == ASSUME Types, Live, TableOK, CountOK, OutputOK, Label PROVE OutputOK'
<1>1. /\ Reading /\ NextLine /\ Stmt.op = "label"
      /\ UNCHANGED <<src, pc, pass, header, bytes, recs, written>>
  BY DEF Label, At, output
<1>2. QED BY <1>1, QuietOutput DEF Entering

LEMMA ExternOutput == ASSUME Types, Live, TableOK, CountOK, OutputOK, Extern PROVE OutputOK'
<1>1. /\ Reading /\ NextLine /\ Stmt.op = "extern"
      /\ UNCHANGED <<src, pc, pass, header, bytes, recs, written>>
  BY DEF Extern, At, output
<1>2. QED BY <1>1, QuietOutput DEF Entering

LEMMA EquOutput == ASSUME Types, Live, TableOK, CountOK, OutputOK, Equ PROVE OutputOK'
<1>1. /\ Reading /\ NextLine /\ Stmt.op \in {"equ", "labelequ"}
      /\ UNCHANGED <<src, pc, pass, header, bytes, recs, written>>
  BY DEF Equ, At, output
<1>2. QED BY <1>1, QuietOutput DEF Entering

LEMMA TimesOutput == ASSUME Types, Live, TableOK, CountOK, OutputOK, Times PROVE OutputOK'
<1>1. Reading /\ UNCHANGED <<src, pc, pass, header, bytes, recs, written>> BY TimesAre
<1>2. IsSource(src) BY <1>1, StmtIs
<1>3. ASSUME NEW l \in DOMAIN src, NEW q \in Slots(src, l), pc # "size"
      PROVE  Passed(l, q)' <=> Passed(l, q)
  <2>1. pass >= 2 BY <1>3 DEF TableOK, PassOK
  <2>2. QED BY <2>1, PassedTimes
<1>4. ASSUME NEW l \in DOMAIN src, SegAt(src, l) = pc PROVE pc # "size"
  <2>1. l \in 0 .. Len(src) BY <1>2 DEF IsSource
  <2>2. SegAt(src, l) \in Segments \cup {"none"} BY <1>2, <2>1, SegIs
  <2>3. QED BY <1>4, <2>2 DEF Segments
<1>5. BytesOK'
  <2>1. \A l \in DOMAIN src : \A q \in Slots(src, l) :
            Body(src[l]).op \in {"emit", "res"} /\ SegAt(src, l) = pc /\ Passed(l, q)' => Passed(l, q)
    BY <1>3, <1>4
  <2>2. QED BY <1>1, <2>1, BytesStay DEF OutputOK
<1>6. RecordsOK' /\ DistinctOK'
  <2>1. recs \in Seq(Record) BY DEF Types, TypeOK
  <2>2. QED BY <1>1, <1>3, <2>1, RecordsStay DEF OutputOK
<1>7. QED BY <1>5, <1>6 DEF OutputOK

\* Where the statement at hand writes.
LEMMA WritesHere ==
    ASSUME Types, Live, TableOK, CountOK, Reading, NextLine, Stmt.op \in {"emit", "res"}, src' = src,
           pc # "size"
    PROVE  /\ pass >= 2 /\ seg = SegAt(src, line) /\ seg \in Segments
           /\ header[seg] \in Nat /\ header[seg] = Place(src, line, Read)
           /\ SizeOf(src, line) \in Nat /\ header[seg] + SizeOf(src, line) <= 65535
           /\ Read \in Slots(src, line) /\ line \in DOMAIN src
           /\ Stmt = Body(src[line])
           /\ \A l \in DOMAIN src : \A q \in Slots(src, l) :
                 Passed(l, q)' <=> Passed(l, q) \/ (l = line /\ q = Read)
<1>1. pass >= 2 BY DEF TableOK, PassOK
<1>2. Stmt = Body(src[line]) /\ line \in DOMAIN src /\ Stmt.op # "times" BY StmtIs
<1>3. src[line].op # "section" BY <1>2 DEF Body
<1>4. seg = SegAt(src, line) /\ seg \in Segments BY <1>1, <1>3, HereIs DEF CountOK
<1>5. /\ header[seg] \in Nat /\ header[seg] = Place(src, line, Read)
      /\ SizeOf(src, line) \in Nat /\ header[seg] + SizeOf(src, line) <= 65535
  BY <1>1, <1>2, <1>3, PlaceIs DEF CountOK
<1>6. Read \in Slots(src, line) BY <1>1, <1>2, ReadSlot DEF CountOK
<1>7. \A l \in DOMAIN src : \A q \in Slots(src, l) :
          Passed(l, q)' <=> Passed(l, q) \/ (l = line /\ q = Read)
  BY <1>1, <1>2, PassedStep DEF CountOK
<1>8. QED BY <1>1, <1>2, <1>4, <1>5, <1>6, <1>7

LEMMA PieceTyped ==
    ASSUME Types, Reading, seg = pc, NEW lead \in Nat, NEW w \in Nat, NEW val \in 0 .. MaxWord
    PROVE  /\ pc \in {"text", "data"}
           /\ [seg |-> seg, line |-> line, lead |-> lead, w |-> w, val |-> val] \in Piece
<1>1. seg \in Segments \cup {"none"} BY DEF Types, TypeOK
<1>2. pc \in {"text", "data"} BY <1>1 DEF Reading, Segments
<1>3. line \in Nat BY StmtIs
<1>4. QED BY <1>2, <1>3 DEF Piece

LEMMA ReserveBytes == ASSUME Types, Live, TableOK, CountOK, OutputOK, Reserve PROVE BytesOK'
<1> DEFINE n == Value(tab, Stmt.e, 0, 0, Here(header)) * Stmt.unit
           b == [seg |-> seg, line |-> line, lead |-> n, w |-> 0, val |-> 0]
<1>1. /\ Reading /\ NextLine /\ Stmt.op = "res" /\ n \in Int /\ Max({n, 0}) = (IF n >= 0 THEN n ELSE 0)
      /\ header' = Grow(header, n) /\ Write(Max({n, 0}), 0, 0)
      /\ UNCHANGED <<src, pc, pass>>
  BY ReserveIs
<1>2. header \in Sizes /\ bytes \in Seq(Piece) BY DEF Types, TypeOK
<1>3. CASE pc = "size"
  <2>1. seg # pc BY <1>3 DEF Types, TypeOK, Segments
  <2>2. bytes' = bytes BY <1>1, <2>1 DEF Write
  <2>3. QED BY <1>1, <1>3, <2>1, <2>2, QuietBytes DEF OutputOK
<1>4. CASE pc # "size"
  <2>1. /\ pass >= 2 /\ seg = SegAt(src, line) /\ seg \in Segments
        /\ header[seg] \in Nat /\ header[seg] = Place(src, line, Read)
        /\ SizeOf(src, line) \in Nat /\ header[seg] + SizeOf(src, line) <= 65535
        /\ Read \in Slots(src, line) /\ line \in DOMAIN src /\ Stmt = Body(src[line])
        /\ \A l \in DOMAIN src : \A q \in Slots(src, l) :
              Passed(l, q)' <=> Passed(l, q) \/ (l = line /\ q = Read)
    BY <1>1, <1>4, WritesHere
  <2>2. n = SizeOf(src, line) BY <1>1, <2>1, ReserveValue DEF CountOK
  <2>3. n \in Nat /\ header[seg] + n <= 65535 BY <2>1, <2>2
  <2> HIDE DEF n
  <2>4. /\ header'[seg] = header[seg] + n
        /\ \A g \in {"text", "data", "bss", "syms"} : g # seg => header'[g] = header[g]
    BY <1>1, <1>2, <2>1, <2>3, GrowIs
  <2>5. CASE seg # pc
    <3>1. bytes' = bytes BY <1>1, <2>5 DEF Write
    <3>2. pc \in {"text", "data"} => header'[pc] = header[pc] BY <2>4, <2>5
    <3>3. QED BY <1>1, <2>5, <3>1, <3>2, QuietBytes DEF OutputOK
  <2>6. CASE seg = pc
    <3>1. 0 \in 0 .. MaxWord BY DEF MaxWord
    <3>2. pc \in {"text", "data"} /\ b \in Piece BY <1>1, <2>3, <2>6, <3>1, PieceTyped
    <3>3. Max({n, 0}) = n BY <1>1, <2>3
    <3>4. bytes' = Append(bytes, b) BY <1>1, <2>6, <3>3 DEF Write
    <3>5. b.seg = pc /\ b.line = line /\ b.lead = n /\ b.w = 0 BY <2>6
    <3> HIDE DEF b
    <3>6. IsPiece(src, b, header[pc], line, Read)
      BY <1>1, <2>1, <2>6, <3>5 DEF IsPiece
    <3>7. header'[pc] = header[pc] + (b.lead + b.w) BY <2>3, <2>4, <2>6, <3>5
    <3>8. BytesOK /\ UNCHANGED <<src, pc>> /\ pc = SegAt(src, line)
          /\ \A l \in DOMAIN src : \A q \in Slots(src, l) :
                 Passed(l, q)' => Passed(l, q) \/ (l = line /\ q = Read)
      BY <1>1, <2>1, <2>6 DEF OutputOK
    <3>9. QED BY <1>2, <2>1, <3>2, <3>4, <3>5, <3>6, <3>7, <3>8, BytesAdd
  <2>7. QED BY <2>5, <2>6
<1>5. QED BY <1>3, <1>4

LEMMA EmitBytes == ASSUME Types, Live, TableOK, CountOK, OutputOK, Emit PROVE BytesOK'
<1> DEFINE m == ModeOf(Stmt.e, Stmt.mode)
           v == Value(tab, Stmt.e, m, Stmt.disp, Here(Grow(header, Stmt.lead)))
           x == v % (IF Stmt.w = 1 THEN 256 ELSE 65536)
           b == [seg |-> seg, line |-> line, lead |-> Stmt.lead, w |-> Stmt.w, val |-> x]
<1>1. /\ Reading /\ NextLine /\ Stmt.op = "emit" /\ IsPlain(Stmt) /\ header' \in Sizes
      /\ Write(Stmt.lead, Stmt.w, x) /\ x \in 0 .. MaxWord
      /\ UNCHANGED <<src, pc, pass>>
  BY EmitIs
<1>2. header \in Sizes /\ bytes \in Seq(Piece) BY DEF Types, TypeOK
<1>3. Stmt.lead \in Nat /\ Stmt.w \in Nat BY <1>1, PlainFields
<1>4. CASE pc = "size"
  <2>1. seg # pc BY <1>4 DEF Types, TypeOK, Segments
  <2>2. bytes' = bytes BY <1>1, <2>1 DEF Write
  <2>3. QED BY <1>1, <1>4, <2>1, <2>2, QuietBytes DEF OutputOK
<1>5. CASE pc # "size"
  <2>1. /\ pass >= 2 /\ seg = SegAt(src, line) /\ seg \in Segments
        /\ header[seg] \in Nat /\ header[seg] = Place(src, line, Read)
        /\ SizeOf(src, line) \in Nat /\ header[seg] + SizeOf(src, line) <= 65535
        /\ Read \in Slots(src, line) /\ line \in DOMAIN src /\ Stmt = Body(src[line])
        /\ \A l \in DOMAIN src : \A q \in Slots(src, l) :
              Passed(l, q)' <=> Passed(l, q) \/ (l = line /\ q = Read)
    BY <1>1, <1>5, WritesHere
  <2>2. SizeOf(src, line) = Stmt.lead + Stmt.w BY <1>1, <2>1 DEF SizeOf, SizeIn
  <2>3. header[seg] + (Stmt.lead + Stmt.w) <= 65535 BY <2>1, <2>2
  <2>4. PICK z : z = Len(Refs(tab, Stmt.e, ModeOf(Stmt.e, Stmt.mode), Stmt.disp,
                              Here(Grow(header, Stmt.lead))))
    OBVIOUS
  <2>5. /\ Here(Grow(header, Stmt.lead)) = header[seg] + Stmt.lead
        /\ header'[seg] = header[seg] + (Stmt.lead + Stmt.w)
        /\ \A g \in Segments : g # seg => header'[g] = header[g]
    BY <2>1, <2>3, <2>4, EmitSizes
  <2>6. CASE seg # pc
    <3>1. bytes' = bytes BY <1>1, <2>6 DEF Write
    <3>2. pc \in {"text", "data"} => header'[pc] = header[pc] BY <2>5, <2>6 DEF Segments
    <3>3. QED BY <1>1, <2>6, <3>1, <3>2, QuietBytes DEF OutputOK
  <2>7. CASE seg = pc
    <3>1. pc \in {"text", "data"} /\ b \in Piece
      <4> HIDE DEF x
      <4>1. QED BY <1>1, <1>3, <2>7, PieceTyped
    <3>2. bytes' = Append(bytes, b) BY <1>1, <2>7 DEF Write
    <3>3. v = OperandIn(src, line, header[seg] + Stmt.lead)
      <4>1. header[seg] + Stmt.lead \in Int BY <1>3, <2>1
      <4>2. QED BY <1>5, <2>5, <4>1, OutputValue
    <3>4. Stmt.e.name # NoName /\ Kind(src, Scoped(src, line, Stmt.e.name)) = "label" => Stmt.mode # 0
      BY <1>5, OutputOperand
    <3>5. b.seg = pc /\ b.line = line /\ b.lead = Stmt.lead /\ b.w = Stmt.w /\ b.val = x BY <2>7
    <3>6. x = OperandIn(src, line, header[seg] + Stmt.lead) % (IF Stmt.w = 1 THEN 256 ELSE 65536)
      BY <3>3
    <3> HIDE DEF b, x
    <3>7. IsPiece(src, b, header[pc], line, Read)
      BY <2>1, <2>7, <3>4, <3>5, <3>6 DEF IsPiece
    <3>8. header'[pc] = header[pc] + (b.lead + b.w) BY <2>5, <2>7, <3>5
    <3>9. BytesOK /\ UNCHANGED <<src, pc>> /\ pc = SegAt(src, line)
          /\ \A l \in DOMAIN src : \A q \in Slots(src, l) :
                 Passed(l, q)' => Passed(l, q) \/ (l = line /\ q = Read)
      BY <1>1, <2>1, <2>7 DEF OutputOK
    <3>10. QED BY <1>2, <2>1, <3>1, <3>2, <3>5, <3>7, <3>8, <3>9, BytesAdd
  <2>8. QED BY <2>6, <2>7
<1>6. QED BY <1>4, <1>5

\* The record an operand leaves is the one the source calls for.
LEMMA OutputRefs ==
    ASSUME Types, Live, TableOK, CountOK, Emit, pc # "size", seg = SegAt(src, line),
           NEW off, off = Place(src, line, Read) + Stmt.lead
    PROVE  Refs(tab, Stmt.e, ModeOf(Stmt.e, Stmt.mode), Stmt.disp, off)
              = IF Recorded(src, line, Body(src[line])) THEN <<RecordOf(src, line, Read)>> ELSE <<>>
<1> DEFINE n == Stmt.e.name
           s == Scoped(src, line, n)
           m == ModeOf(Stmt.e, Stmt.mode)
           k == KindOf(tab, n)
           Ref(y, r) == [kind |-> "ref", name |-> y, seg |-> seg, off |-> off,
                         disp |-> Stmt.disp, rel |-> r]
           rr == Refs(tab, Stmt.e, m, Stmt.disp, off)
<1>1. Reading /\ Stmt.op = "emit" /\ Stmt = Body(src[line])
  <2>1. Reading /\ Stmt.op = "emit" BY EmitIs
  <2>2. QED BY SMTT(40), <2>1, StmtNames
<1>2. /\ n = NoName => k = "unknown"
      /\ n # NoName => /\ Full(tab, n) = s /\ k = Kind(src, s)
                       /\ Kind(src, s) \in {"label", "extern", "global"} => m # 0
                       /\ m # 0 => m = Stmt.mode
                       /\ Kind(src, s) = "label" => tab.sym[s].seg = SegAt(src, DefLine(src, s))
  BY OutputOperand
<1>3. rr = IF k = "label" /\ m = 1
           THEN <<Ref(<<SegName[tab.sym[Full(tab, n)].seg]>>, "abs")>>
           ELSE IF k \in {"extern", "global"} THEN <<Ref(Full(tab, n), Rel[m])>>
           ELSE <<>>
  BY RefsAre
<1>4. Recorded(src, line, Body(src[line])) <=>
          n # NoName /\ (Kind(src, s) \in {"extern", "global"} \/ (Kind(src, s) = "label" /\ Stmt.mode = 1))
  BY <1>1 DEF Recorded
<1>5. RecordOf(src, line, Read) =
          [kind |-> "ref", seg |-> seg, off |-> off, disp |-> Stmt.disp,
           name |-> IF Kind(src, s) = "label" THEN <<SegName[SegAt(src, DefLine(src, s))]>> ELSE s,
           rel |-> Rel[Stmt.mode]]
  BY <1>1 DEF RecordOf
<1> HIDE DEF n, s, m, k
<1>6. CASE n # NoName /\ Kind(src, s) = "label" /\ Stmt.mode = 1
  <2>1. k = "label" /\ m = 1 /\ Full(tab, n) = s /\ tab.sym[s].seg = SegAt(src, DefLine(src, s))
    BY <1>2, <1>6
  <2>2. rr = <<Ref(<<SegName[SegAt(src, DefLine(src, s))]>>, "abs")>> BY <1>3, <2>1
  <2>3. Rel[1] = "abs" BY DEF Rel
  <2>4. RecordOf(src, line, Read) = Ref(<<SegName[SegAt(src, DefLine(src, s))]>>, "abs")
    BY <1>5, <1>6, <2>3
  <2>5. QED BY <1>4, <1>6, <2>2, <2>4 DEF m
<1>7. CASE n # NoName /\ Kind(src, s) \in {"extern", "global"}
  <2>1. k \in {"extern", "global"} /\ k # "label" /\ m = Stmt.mode /\ Full(tab, n) = s BY <1>2, <1>7
  <2>2. rr = <<Ref(s, Rel[Stmt.mode])>> BY <1>3, <2>1
  <2>3. RecordOf(src, line, Read) = Ref(s, Rel[Stmt.mode]) BY <1>5, <1>7
  <2>4. QED BY <1>4, <1>7, <2>2, <2>3 DEF m
<1>8. CASE ~(n # NoName /\ Kind(src, s) = "label" /\ Stmt.mode = 1)
           /\ ~(n # NoName /\ Kind(src, s) \in {"extern", "global"})
  <2>1. ~(k = "label" /\ m = 1) /\ k \notin {"extern", "global"} BY <1>2, <1>8
  <2>2. rr = <<>> BY <1>3, <2>1
  <2>3. ~Recorded(src, line, Body(src[line])) BY <1>4, <1>8
  <2>4. QED BY <2>2, <2>3 DEF m
<1>9. QED BY <1>6, <1>7, <1>8

LEMMA RecordsRise ==
    ASSUME Types, Live, RecordsOK, header' \in Sizes, \A g \in Segments : header[g] <= header'[g]
    PROVE  \A i \in DOMAIN recs : recs[i].kind = "ref" /\ recs[i].off < header[recs[i].seg]
                                      => recs[i].off < header'[recs[i].seg]
<1>1. SUFFICES ASSUME NEW i \in DOMAIN recs, recs[i].off < header[recs[i].seg]
      PROVE  recs[i].off < header'[recs[i].seg]
  OBVIOUS
<1>2. recs[i].seg \in Segments /\ recs[i].off \in Int BY RecordPlace
<1>3. recs[i].seg \in {"text", "data", "bss", "syms"} BY <1>2 DEF Segments
<1>4. header \in Sizes BY DEF Types, TypeOK
<1>5. header[recs[i].seg] \in Nat /\ header'[recs[i].seg] \in Nat BY <1>3, <1>4, SizesIs
<1>6. header[recs[i].seg] <= header'[recs[i].seg] BY <1>2
<1>7. QED BY <1>1, <1>2, <1>5, <1>6

LEMMA ReserveOutput == ASSUME Types, Live, TableOK, CountOK, OutputOK, Reserve PROVE OutputOK'
<1> DEFINE n == Value(tab, Stmt.e, 0, 0, Here(header)) * Stmt.unit
<1>1. /\ Reading /\ NextLine /\ Stmt.op = "res" /\ n \in Int
      /\ header' = Grow(header, n) /\ header' \in Sizes
      /\ UNCHANGED <<src, pc, pass, written, recs>>
  BY ReserveIs
<1>2. header \in Sizes BY DEF Types, TypeOK
<1>3. Stmt = Body(src[line]) BY <1>1, StmtIs
<1>4. ~Recorded(src, line, Body(src[line])) BY <1>1, <1>3 DEF Recorded
<1>5. ASSUME pc = "symbols"
      PROVE  header'.syms = header.syms /\ \A g \in Segments : header[g] <= header'[g]
  <2>1. /\ pass >= 2 /\ seg \in Segments /\ header[seg] \in Nat
        /\ SizeOf(src, line) \in Nat /\ header[seg] + SizeOf(src, line) <= 65535
    BY <1>1, <1>5, WritesHere
  <2>2. n = SizeOf(src, line) BY <1>1, <2>1, ReserveValue DEF CountOK
  <2>3. n \in Nat /\ header[seg] + n <= 65535 BY <2>1, <2>2
  <2> HIDE DEF n
  <2>4. /\ header'[seg] = header[seg] + n /\ header'.syms = header.syms
        /\ \A g \in {"text", "data", "bss", "syms"} : g # seg => header'[g] = header[g]
    BY <1>1, <1>2, <2>1, <2>3, GrowIs
  <2>5. \A g \in Segments : g \in {"text", "data", "bss", "syms"} /\ header[g] \in Nat
    BY <1>2, SizesIs DEF Segments
  <2>6. QED BY <2>3, <2>4, <2>5
<1> HIDE DEF n
<1>6. RecordsOK' /\ DistinctOK' BY <1>1, <1>4, <1>5, QuietRecords DEF OutputOK
<1>7. BytesOK' BY ReserveBytes
<1>8. QED BY <1>6, <1>7 DEF OutputOK

LEMMA EmitOutput == ASSUME Types, Live, TableOK, CountOK, OutputOK, Emit PROVE OutputOK'
<1> DEFINE m == ModeOf(Stmt.e, Stmt.mode)
           off == Here(Grow(header, Stmt.lead))
           rr == Refs(tab, Stmt.e, m, Stmt.disp, off)
           rec == Recorded(src, line, Body(src[line]))
           r == RecordOf(src, line, Read)
<1>1. /\ Reading /\ NextLine /\ Stmt.op = "emit" /\ IsPlain(Stmt) /\ header' \in Sizes /\ seg # "bss"
      /\ rr \in Seq(Record) /\ recs' = IF pc = "symbols" THEN recs \o rr ELSE recs
      /\ UNCHANGED <<src, pc, pass, written>>
  BY EmitIs
<1>2. header \in Sizes /\ recs \in Seq(Record) BY DEF Types, TypeOK
<1>3. BytesOK' BY EmitBytes
<1>4. CASE pc # "symbols"
  <2>1. recs' = recs BY <1>1, <1>4
  <2>2. Stmt.op # "times" BY <1>1
  <2>3. RecordsOK' /\ DistinctOK' BY <1>1, <1>4, <2>1, <2>2, QuietRecords DEF OutputOK
  <2>4. QED BY <1>3, <2>3 DEF OutputOK
<1>5. CASE pc = "symbols"
  <2>1. /\ pass >= 2 /\ seg = SegAt(src, line) /\ seg \in Segments
        /\ header[seg] \in Nat /\ header[seg] = Place(src, line, Read)
        /\ SizeOf(src, line) \in Nat /\ header[seg] + SizeOf(src, line) <= 65535
        /\ Read \in Slots(src, line) /\ line \in DOMAIN src /\ Stmt = Body(src[line])
        /\ \A l \in DOMAIN src : \A q \in Slots(src, l) :
              Passed(l, q)' <=> Passed(l, q) \/ (l = line /\ q = Read)
    BY <1>1, <1>5, WritesHere
  <2>2. SizeOf(src, line) = Stmt.lead + Stmt.w /\ Stmt.lead \in Nat /\ Stmt.w \in Nat
        /\ (Stmt.e.name # NoName => Stmt.w >= 1)
    BY <1>1, <2>1, PlainFields DEF SizeOf, SizeIn
  <2>3. header[seg] + (Stmt.lead + Stmt.w) <= 65535 BY <2>1, <2>2
  <2>4. /\ off = header[seg] + Stmt.lead
        /\ header'[seg] = header[seg] + (Stmt.lead + Stmt.w)
        /\ \A g \in Segments : g # seg => header'[g] = header[g]
        /\ Len(rr) = 0 \/ header.syms + Len(rr) <= 65535 => header'.syms = header.syms + Len(rr)
    <3>1. PICK z : z = Len(rr) OBVIOUS
    <3>2. /\ off = header[seg] + Stmt.lead
          /\ header'[seg] = header[seg] + (Stmt.lead + Stmt.w)
          /\ \A g \in Segments : g # seg => header'[g] = header[g]
          /\ z = 0 \/ header.syms + z <= 65535 => header'.syms = header.syms + z
      BY <2>1, <2>3, <3>1, EmitSizes
    <3>3. QED BY <3>1, <3>2
  <2>5. off = Place(src, line, Read) + Stmt.lead BY <2>1, <2>4
  <2>6. rr = IF rec THEN <<r>> ELSE <<>> BY <1>5, <2>1, <2>5, OutputRefs
  <2>7. \A g \in Segments : header[g] <= header'[g]
    <3>1. \A g \in Segments : g \in {"text", "data", "bss", "syms"} BY DEF Segments
    <3>2. \A g \in Segments : header[g] \in Nat BY <1>2, <3>1, SizesIs
    <3>3. header[seg] <= header'[seg] BY <2>1, <2>2, <2>4
    <3>4. ASSUME NEW g \in Segments, g # seg PROVE header[g] <= header'[g]
      <4>1. header'[g] = header[g] BY <2>4, <3>4
      <4>2. header[g] \in Nat BY <3>2
      <4>3. QED BY <4>1, <4>2
    <3>5. QED BY <3>3, <3>4
  <2>8. Stmt.op # "times" BY <1>1
  <2>9. header.syms \in Nat BY <1>2, SizesIs
  <2>10. rec => Stmt.e.name # NoName BY <1>1, <2>1 DEF Recorded
  <2>11. r.kind = "ref" /\ r.off = off /\ r.seg = seg BY <1>1, <2>1, <2>5 DEF RecordOf
  <2>12. rec => header.syms + 1 <= 65535
    <3>1. Settled BY <1>5, <2>1 DEF TableOK, PassOK, Settled
    <3>2. Settled' => Settled BY <3>1
    <3>3. QED BY <1>1, <2>1, <2>8, <3>1, <3>2, SymsGo DEF CountOK
  <2> HIDE DEF m, off, rr, rec, r
  <2>13. CASE ~rec
    <3>1. rr = <<>> BY <2>6, <2>13
    <3>2. Len(rr) = 0 /\ recs' = recs BY <1>1, <1>2, <1>5, <3>1
    <3>3. header'.syms = header.syms BY <2>4, <2>9, <3>2
    <3>4. ~Recorded(src, line, Body(src[line])) BY <2>13 DEF rec
    <3>5. RecordsOK' /\ DistinctOK' BY <1>1, <2>7, <2>8, <3>2, <3>3, <3>4, QuietRecords DEF OutputOK
    <3>6. QED BY <1>3, <3>5 DEF OutputOK
  <2>14. CASE rec
    <3>1. rr = <<r>> BY <2>6, <2>14
    <3>2. Len(rr) = 1 /\ r \in Record
      <4>1. Len(<<r>>) = 1 /\ <<r>>[1] = r OBVIOUS
      <4>2. QED BY <1>1, <3>1, <4>1
    <3>3. recs' = Append(recs, r) BY <1>1, <1>2, <1>5, <3>1, <3>2
    <3>4. header'.syms = header.syms + 1 BY <2>4, <2>12, <2>14, <3>2
    <3>5. \A i \in DOMAIN recs : recs[i] # r
      <4>1. SUFFICES ASSUME NEW i \in DOMAIN recs, recs[i] = r PROVE FALSE OBVIOUS
      <4>2. recs[i].off < header[recs[i].seg]
        BY <1>5, <2>11, <4>1 DEF OutputOK, DistinctOK
      <4>3. header[seg] + Stmt.lead < header[seg] BY <2>4, <2>11, <4>1, <4>2
      <4>4. QED BY <2>1, <2>2, <4>3
    <3>6. r.off < header'[r.seg] BY <2>1, <2>2, <2>4, <2>10, <2>11, <2>14
    <3>7. \A i \in DOMAIN recs : recs[i].kind = "ref" /\ recs[i].off < header[recs[i].seg]
                                     => recs[i].off < header'[recs[i].seg]
      BY <1>1, <2>7, RecordsRise DEF OutputOK
    <3>8. Recorded(src, line, Body(src[line])) /\ r = RecordOf(src, line, Read) BY <2>14 DEF rec, r
    <3>9. Body(src[line]).op = "emit" => SegAt(src, line) # "bss" BY <1>1, <2>1
    <3>10. RecordsOK' /\ DistinctOK'
      BY <1>1, <1>2, <1>5, <2>1, <2>9, <3>2, <3>3, <3>4, <3>5, <3>6, <3>7, <3>8, <3>9, RecordsAdd
         DEF OutputOK
    <3>11. QED BY <1>3, <3>10 DEF OutputOK
  <2>15. QED BY <2>13, <2>14
<1>6. QED BY SMTT(40), <1>4, <1>5

\* The record of a global statement.
LEMMA GlobalRecord ==
    ASSUME Types, Live, TableOK, CountOK, Global, pc = "symbols"
    PROVE  LET r == RecordOf(src, line, Read) IN
           /\ r.kind = "global" /\ r.name = Stmt.name
           /\ recs' = Append(recs, r) /\ r \in Record
<1> DEFINE n == Stmt.name
           v == IF Known(tab, n) THEN tab.sym[Full(Get(tab, n), n)].value ELSE 0
           r == RecordOf(src, line, Read)
           z == [kind |-> "global", name |-> n, seg |-> seg, off |-> v]
<1>1. /\ Reading /\ NextLine /\ Stmt.op = "global" /\ IsName(n)
      /\ recs' = Append(recs, [kind |-> "global", name |-> Full(Get(tab, n), n), seg |-> seg, off |-> v])
      /\ v \in Int
  BY GlobalIs
<1>2. Get(tab, n) = tab /\ Full(tab, n) = n BY GlobalTable DEF CountOK
<1>3. rep = 0 /\ Stmt = src[line] BY <1>1, StmtNames DEF Entering
<1>4. IsSource(src) /\ Orderly(src) /\ line \in DOMAIN src /\ line \in 1 .. Len(src)
  BY <1>1, StmtIs DEF Live
<1>5. ~IsLocal(n) /\ ~IsConst(src, n) /\ GlobalLines(src, n) = {line}
      /\ (Defined(src, n) => SegAt(src, DefLine(src, n)) = SegAt(src, line))
  BY <1>1, <1>3, <1>4 DEF Orderly, GlobalsHere
<1>6. Scoped(src, line, n) = n BY <1>5 DEF Scoped
<1>7. n \in Names(src) BY <1>1, <1>3, <1>4, <1>6, EnteredAs DEF Entering
<1>8. Settled BY DEF TableOK, PassOK, Settled, Types, TypeOK
<1>9. n \in DOMAIN tab.sym BY <1>7, <1>8, KnownNames DEF Settled
<1>10. n # NoName BY <1>1, NameIs
<1>11. v = tab.sym[n].value BY <1>2, <1>9, <1>10 DEF Known
<1>12. seg = SegAt(src, line) BY <1>1, <1>3, <1>8, HereIs DEF CountOK, Settled
<1>13. v = IF Defined(src, n) THEN Address(src, n) ELSE 0
  <2>1. CASE Defined(src, n) BY <1>5, <1>7, <1>8, <1>11, <2>1 DEF TableOK, ValuesOK
  <2>2. CASE ~Defined(src, n) BY <1>5, <1>7, <1>9, <1>11, <2>2 DEF TableOK, NumbersOK
  <2>3. QED BY <2>1, <2>2
<1>14. seg \in Segments \cup {"none"} BY DEF Types, TypeOK
<1>15. n \in Seq(STRING) BY <1>1, NameIs
<1> HIDE DEF v
<1>16. z \in Record BY <1>1, <1>14, <1>15 DEF Record
<1>17. r = z BY <1>1, <1>3, <1>6, <1>12, <1>13 DEF RecordOf, Body
<1>18. recs' = Append(recs, z) BY <1>1, <1>2
<1> HIDE DEF r
<1>19. r.kind = "global" /\ r.name = Stmt.name /\ recs' = Append(recs, r) /\ r \in Record
  BY <1>16, <1>17, <1>18
<1>20. QED BY <1>19 DEF r

LEMMA GlobalSyms ==
    ASSUME header \in Sizes, header.syms + 1 <= 65535, Global
    PROVE  header'.syms = header.syms + 1
<1> DEFINE v == (header.syms + 1) % 65536
<1>1. header' = [header EXCEPT !.syms = v] BY DEF Global
<1>2. header.syms \in Nat /\ DOMAIN header = {"text", "data", "bss", "syms"} BY SizesIs
<1>3. v = header.syms + 1 BY <1>2, WordMod
<1> HIDE DEF v
<1>4. QED BY <1>1, <1>2, <1>3

LEMMA GlobalOutput == ASSUME Types, Live, TableOK, CountOK, OutputOK, Global PROVE OutputOK'
<1> DEFINE r == RecordOf(src, line, Read)
<1>1. /\ Reading /\ NextLine /\ Stmt.op = "global" /\ header' \in Sizes
      /\ recs' = IF pc = "symbols" THEN recs' ELSE recs
      /\ UNCHANGED <<src, pc, pass, seg, written, bytes>>
  BY GlobalIs
<1>2. rep = 0 /\ Stmt = src[line] BY <1>1, StmtNames DEF Entering
<1>3. IsSource(src) /\ Orderly(src) /\ line \in DOMAIN src /\ line \in 1 .. Len(src)
  BY <1>1, StmtIs DEF Live
<1>4. header \in Sizes /\ recs \in Seq(Record) BY DEF Types, TypeOK
<1>5. \A g \in Segments : header'[g] = header[g] /\ header[g] \in Nat
  <2>1. DOMAIN header = {"text", "data", "bss", "syms"} BY <1>4, SizesIs
  <2>2. \A g \in Segments : g # "syms" /\ g \in DOMAIN header BY <2>1 DEF Segments
  <2> DEFINE v == (header.syms + 1) % 65536
  <2>3. header' = [header EXCEPT !.syms = v] BY DEF Global
  <2>4. \A g \in DOMAIN header : header[g] \in Nat BY <1>4, <2>1, SizesIs
  <2> HIDE DEF v
  <2>5. QED BY <2>2, <2>3, <2>4
<1>6. Body(src[line]) = Stmt /\ Stmt.op # "times" BY <1>1, <1>2 DEF Body
<1>7. BytesOK'
  <2>1. pc \in {"text", "data"} => header'[pc] = header[pc] BY <1>5 DEF Segments
  <2>2. Stmt.op \notin {"emit", "res"} BY <1>1
  <2>3. QED BY <1>1, <1>6, <2>1, <2>2, QuietBytes DEF OutputOK
<1>8. CASE pc # "symbols"
  <2>1. recs' = recs BY <1>1, <1>8
  <2>2. RecordsOK' /\ DistinctOK' BY <1>1, <1>6, <1>8, <2>1, QuietRecords DEF OutputOK
  <2>3. QED BY <1>7, <2>2 DEF OutputOK
<1>9. CASE pc = "symbols"
  <2>1. r.kind = "global" /\ r.name = Stmt.name /\ recs' = Append(recs, r) /\ r \in Record
    BY <1>9, GlobalRecord
  <2>2. Settled BY <1>9 DEF TableOK, PassOK, Settled, Types, TypeOK
  <2>3. Recorded(src, line, Body(src[line])) BY <1>1, <1>6 DEF Recorded
  <2>4. header.syms + 1 <= 65535
    <3>1. Settled' => Settled BY <2>2
    <3>2. QED BY <1>1, <1>6, <2>2, <2>3, <3>1, SymsGo DEF CountOK, Settled
  <2>5. header'.syms = header.syms + 1
    <3>1. header \in Sizes /\ header.syms + 1 <= 65535 BY <1>4, <2>4
    <3>2. QED BY <3>1, GlobalSyms
  <2>6. Read \in Slots(src, line) BY <1>1, <1>6, <2>2, ReadSlot DEF CountOK, Settled
  <2>7. \A l \in DOMAIN src : \A q \in Slots(src, l) :
            Passed(l, q)' <=> Passed(l, q) \/ (l = line /\ q = Read)
    BY <1>1, <1>6, <2>2, PassedStep DEF CountOK, Settled
  <2>8. \A i \in DOMAIN recs : recs[i] # r
    <3>1. SUFFICES ASSUME NEW i \in DOMAIN recs, recs[i] = r PROVE FALSE OBVIOUS
    <3>2. PICK l \in DOMAIN src : \E q \in Slots(src, l) : recs[i] = RecordOf(src, l, q) /\ Passed(l, q)
      BY <1>9 DEF OutputOK, RecordsOK, RecordsMade
    <3>3. PICK q \in Slots(src, l) : recs[i] = RecordOf(src, l, q) /\ Passed(l, q) BY <3>2
    <3>4. Body(src[l]).op = "global" BY <2>1, <3>1, <3>3 DEF RecordOf
    <3>5. src[l].op = "global" /\ Body(src[l]) = src[l] BY <1>3, <3>4 DEF Body, Orderly, Repeats
    <3>6. ~IsLocal(src[l].name) BY <1>3, <3>5 DEF Orderly, GlobalsHere
    <3>7. RecordOf(src, l, q).name = src[l].name BY <3>4, <3>5, <3>6 DEF RecordOf, Scoped
    <3>8. l \in GlobalLines(src, Stmt.name) BY <2>1, <3>1, <3>3, <3>5, <3>7 DEF GlobalLines
    <3>9. GlobalLines(src, Stmt.name) = {line} BY <1>1, <1>2, <1>3 DEF Orderly, GlobalsHere
    <3>10. l = line BY <3>8, <3>9
    <3>11. TimesOf(src, line) = 1 BY <1>1, <1>2, <1>3, LineAdds
    <3>12. q = 0 BY <3>10, <3>11 DEF Slots
    <3>13. Read = 0 BY <1>2 DEF Read
    <3>14. QED BY <1>3, <3>3, <3>10, <3>12, <3>13 DEF Passed
  <2>9. \A i \in DOMAIN recs : recs[i].kind = "ref" /\ recs[i].off < header[recs[i].seg]
                                   => recs[i].off < header'[recs[i].seg]
    <3>1. \A g \in Segments : header[g] <= header'[g] BY <1>5
    <3>2. QED BY <1>1, <3>1, RecordsRise DEF OutputOK
  <2>10. header.syms \in Nat BY <1>4, SizesIs
  <2>11. Body(src[line]).op = "emit" => SegAt(src, line) # "bss" BY <1>1, <1>6
  <2>12. r.kind # "ref" BY <2>1
  <2>13. PICK y : y = r OBVIOUS
  <2>14. y = RecordOf(src, line, Read) BY <2>13
  <2>15. y \in Record /\ recs' = Append(recs, y) /\ (\A i \in DOMAIN recs : recs[i] # y)
         /\ (y.kind = "ref" => y.off < header'[y.seg])
    BY <2>1, <2>8, <2>12, <2>13
  <2> HIDE DEF r
  <2>16. RecordsOK' /\ DistinctOK'
    BY <1>1, <1>3, <1>4, <1>9, <2>3, <2>5, <2>6, <2>7, <2>9, <2>10, <2>11, <2>14, <2>15, RecordsAdd
       DEF OutputOK
  <2>17. QED BY <1>7, <2>16 DEF OutputOK
<1>10. QED BY <1>8, <1>9

\* A pass has read every line when it ends, and none when it starts.
LEMMA PassedEnds ==
    ASSUME IsSource(src), NEW l \in DOMAIN src, NEW q \in Slots(src, l)
    PROVE  /\ line > Len(src) /\ line \in Nat => Passed(l, q)
           /\ line' = 1 /\ rep' = 0 /\ src' = src => ~Passed(l, q)'
<1>1. l \in 1 .. Len(src) /\ Len(src) \in Nat BY DEF IsSource
<1>2. l < line \/ ~(line > Len(src) /\ line \in Nat) BY <1>1
<1>3. ASSUME line' = 1, rep' = 0, Passed(l, q)' PROVE FALSE
  <2>1. Read' = 0 BY <1>3 DEF Read
  <2>2. l < 1 \/ (l = 1 /\ q < 0) BY <1>3, <2>1 DEF Passed
  <2>3. q < 0 BY <1>1, <2>2
  <2>4. QED BY <2>3 DEF Slots
<1>4. QED BY <1>2, <1>3 DEF Passed

LEMMA LaidNothing == Laid(<<>>)[Len(<<>>)] = [g \in {"text", "data"} |-> 0]
<1>1. Len(<<>>) = 0 OBVIOUS
<1>2. Laid(<<>>)[0] = NothingLaid BY <1>1, LaidStep
<1>3. QED BY <1>1, <1>2 DEF NothingLaid

LEMMA SizingOutput == ASSUME Types, Live, TableOK, CountOK, OutputOK, SizingEnds PROVE OutputOK'
<1>1. /\ pc = "size" /\ line > Len(src) /\ line' = 1 /\ header' = Zero
      /\ UNCHANGED <<src, rep, bytes, recs>>
      /\ pc' \in {"size", "text"}
  <2>1. /\ tab.grew => pc' = pc
        /\ ~tab.grew => pc' = "text"
        /\ pc = "size" /\ line > Len(src) /\ line' = 1 /\ header' = Zero
        /\ UNCHANGED <<src, rep, bytes, recs>>
    BY SizingEndsIs
  <2>2. QED BY <2>1
<1>2. IsSource(src) /\ rep = 0 BY <1>1, AtEnd
<1>3. bytes = <<>> /\ recs = <<>> BY <1>1 DEF OutputOK, BytesOK, PiecesOK, RecordsOK, NoRecords
<1>4. DOMAIN bytes' = {} /\ DOMAIN recs' = {} BY <1>1, <1>3
<1>5. LaidOK'
  <2>1. Laid(bytes')[Len(bytes')] = [g \in {"text", "data"} |-> 0] BY <1>1, <1>3, LaidNothing
  <2>2. header'["text"] = 0 BY <1>1 DEF Zero
  <2>3. CASE pc' = "size" BY <2>1, <2>3 DEF LaidOK
  <2>4. CASE pc' = "text" BY <2>1, <2>2, <2>4 DEF LaidOK
  <2>5. QED BY <1>1, <2>3, <2>4
<1>6. PiecesOK' BY <1>1, <1>3, <1>4 DEF PiecesOK
<1>7. \A l \in DOMAIN src : \A q \in Slots(src, l) : ~Passed(l, q)' BY <1>1, <1>2, PassedEnds
<1>8. AllPieces' BY <1>1, <1>7 DEF AllPieces, InOutput
<1>9. RecordsOK' BY <1>1, <1>3, <1>4 DEF RecordsOK, NoRecords, RecordsMade, AllRecords
<1>10. DistinctOK' BY <1>1, <1>4 DEF DistinctOK
<1>11. QED BY <1>5, <1>6, <1>8, <1>9, <1>10 DEF OutputOK, BytesOK

LEMMA OutputEndsOutput == ASSUME Types, Live, TableOK, CountOK, OutputOK, OutputEnds PROVE OutputOK'
<1>1. /\ pc \in {"text", "data", "symbols"} /\ line > Len(src) /\ line' = 1
      /\ UNCHANGED <<src, pass, tab, rep, seg, written, bytes, recs>>
      /\ header' = IF pc = "symbols" THEN header ELSE Zero
      /\ pc = "text" => pc' = "data"
      /\ pc = "data" => pc' = "symbols"
      /\ pc = "symbols" => pc' = "done"
  BY OutputEndsIs
<1>2. IsSource(src) /\ rep = 0 /\ line \in Nat
  <2>1. Len(src) \in Nat /\ line \in 1 .. Len(src) + 1 BY SrcIs DEF Types, TypeOK, IsSource
  <2>2. QED BY <1>1, <2>1, AtEnd
<1>3. pass >= 2 /\ Reads /\ Settled BY <1>1 DEF TableOK, PassOK, Reads, Settled
<1>4. /\ \A g \in Segments : header[g] = After(src)[Len(src)].size[g]
      /\ header.syms = After(src)[Len(src)].syms
  BY <1>1, <1>3, EndSizes
<1>5. \A l \in DOMAIN src : \A q \in Slots(src, l) : Passed(l, q) /\ ~Passed(l, q)'
  BY <1>1, <1>2, PassedEnds
<1>6. LaidOK'
  <2>1. Laid(bytes)[Len(bytes)] =
            [g \in {"text", "data"} |->
                IF pc = "size" \/ (pc = "text" /\ g = "data") THEN 0
                ELSE IF pc = g THEN header[g]
                ELSE After(src)[Len(src)].size[g]]
    BY DEF OutputOK, BytesOK, LaidOK
  <2>2. header["text"] = After(src)[Len(src)].size["text"] /\ header["data"] = After(src)[Len(src)].size["data"]
    BY <1>4 DEF Segments
  <2>3. CASE pc = "text"
    <3>1. pc' = "data" /\ header'["data"] = 0 BY <1>1, <2>3 DEF Zero
    <3>2. QED BY <1>1, <2>1, <2>2, <2>3, <3>1 DEF LaidOK
  <2>4. CASE pc = "data"
    <3>1. pc' = "symbols" BY <1>1, <2>4
    <3>2. QED BY <1>1, <2>1, <2>2, <2>4, <3>1 DEF LaidOK
  <2>5. CASE pc = "symbols"
    <3>1. pc' = "done" BY <1>1, <2>5
    <3>2. QED BY <1>1, <2>1, <2>5, <3>1 DEF LaidOK
  <2>6. QED BY <1>1, <2>3, <2>4, <2>5
<1>7. PiecesOK'
  <2>1. pc' # "size" BY <1>1
  <2>2. QED BY <1>1, <2>1 DEF OutputOK, BytesOK, PiecesOK
<1>8. AllPieces'
  <2>1. ASSUME NEW g, NEW l \in DOMAIN src, NEW q \in Slots(src, l), InOutput(g, l, q)'
        PROVE  InOutput(g, l, q)
    <3>1. ~Passed(l, q)' /\ Passed(l, q) BY <1>5
    <3>2. \/ g = "text" /\ pc' \in {"data", "symbols", "done"}
          \/ g = "data" /\ pc' \in {"symbols", "done"}
      BY <2>1, <3>1 DEF InOutput
    <3>3. QED BY <1>1, <3>1, <3>2 DEF InOutput
  <2>2. QED BY <1>1, <2>1 DEF AllPieces, OutputOK, BytesOK
<1>9. RecordsOK'
  <2>1. pc \in {"text", "data"} => recs = <<>> BY DEF OutputOK, RecordsOK, NoRecords
  <2>2. NoRecords' BY <1>1, <2>1 DEF NoRecords
  <2>3. pc' = "symbols" => DOMAIN recs = {} BY <1>1, <2>1
  <2>4. RecordsMade' BY <1>1, <2>3 DEF OutputOK, RecordsOK, RecordsMade
  <2>5. AllRecords' BY <1>1, <1>5 DEF OutputOK, RecordsOK, AllRecords
  <2>6. QED BY <2>2, <2>4, <2>5 DEF RecordsOK
<1>10. DistinctOK'
  <2>1. \A i, j \in DOMAIN recs' : recs'[i] = recs'[j] => i = j BY <1>1 DEF OutputOK, DistinctOK
  <2>2. pc' = "symbols" => Len(recs') = 0 /\ DOMAIN recs' = {} /\ header'.syms = 0
    <3>1. pc' = "symbols" => pc = "data" BY <1>1
    <3>2. pc = "data" => recs = <<>> BY DEF OutputOK, RecordsOK, NoRecords
    <3>3. QED BY <1>1, <3>1, <3>2 DEF Zero
  <2>3. pc' = "done" => Len(recs') = written'.syms
    <3>1. pc' = "done" => pc = "symbols" BY <1>1
    <3>2. pc = "symbols" => Len(recs) = header.syms BY DEF OutputOK, DistinctOK
    <3>3. written.syms = After(src)[Len(src)].syms BY <1>1 DEF CountOK, WrittenOK
    <3>4. QED BY <1>1, <1>4, <3>1, <3>2, <3>3
  <2>4. QED BY <2>1, <2>2, <2>3 DEF DistinctOK
<1>11. QED BY <1>6, <1>7, <1>8, <1>9, <1>10 DEF OutputOK, BytesOK
-----------------------------------------------------------------------------
(* The invariant is inductive. *)

LEMMA InitHolds == ASSUME Init PROVE IInv
<1>1. /\ pc = "size" /\ pass = 1 /\ line = 1 /\ rep = 0
      /\ tab.sym = <<>> /\ tab.grew = FALSE /\ bytes = <<>> /\ recs = <<>>
  BY DEF Init
<1>2. Types BY InitTyped
<1>3. IsSource(src) BY <1>2, SrcIs DEF Types
<1>4. DOMAIN tab.sym = {} BY <1>1
<1>5. TableOK
  <2>1. NamesUpTo(src, 0) = {} BY DEF NamesUpTo
  <2>2. PassOK BY <1>1, <1>4, <2>1 DEF PassOK, Later
  <2>3. KindsOK /\ NumbersOK BY <1>4 DEF KindsOK, NumbersOK
  <2>4. Root(src, 0) = NoName BY DEF Root, Roots
  <2>5. LastOK BY <1>1, <2>4 DEF LastOK
  <2>6. SeenOK BY <1>1 DEF SeenOK, Later
  <2>7. ConstsOK /\ ValuesOK BY <1>1 DEF ConstsOK, ValuesOK, Settled
  <2>8. QED BY <2>2, <2>3, <2>5, <2>6, <2>7 DEF TableOK
<1>6. CountOK
  <2>1. RepOK BY <1>1 DEF RepOK
  <2>2. Sections(src, 0) = {} BY DEF Sections
  <2>3. SegOK BY <1>1, <2>2 DEF SegOK
  <2>4. SizesOK /\ SymsOK BY <1>1 DEF SizesOK, SymsOK, Settled
  <2>5. WrittenOK BY <1>1 DEF WrittenOK
  <2>6. QED BY <2>1, <2>3, <2>4, <2>5 DEF CountOK
<1>7. OutputOK
  <2>1. DOMAIN bytes = {} /\ DOMAIN recs = {} BY <1>1
  <2>2. Laid(bytes)[Len(bytes)] = [g \in {"text", "data"} |-> 0] BY <1>1, LaidNothing
  <2>3. LaidOK BY <1>1, <2>2 DEF LaidOK
  <2>4. PiecesOK BY <1>1, <2>1 DEF PiecesOK
  <2>5. \A l \in DOMAIN src : \A q \in Slots(src, l) : ~InOutput(SegAt(src, l), l, q)
    <3>1. ASSUME NEW l \in DOMAIN src PROVE SegAt(src, l) # "size"
      <4>1. l \in 0 .. Len(src) BY <1>3 DEF IsSource
      <4>2. SegAt(src, l) \in Segments \cup {"none"} BY <1>3, <4>1, SegIs
      <4>3. QED BY <4>2 DEF Segments
    <3>2. QED BY <1>1, <3>1 DEF InOutput
  <2>6. AllPieces BY <2>5 DEF AllPieces
  <2>7. RecordsOK BY <1>1, <2>1 DEF RecordsOK, NoRecords, RecordsMade, AllRecords
  <2>8. DistinctOK BY <1>1, <2>1 DEF DistinctOK
  <2>9. QED BY <2>3, <2>4, <2>6, <2>7, <2>8 DEF OutputOK, BytesOK
<1>8. QED BY <1>2, <1>5, <1>6, <1>7 DEF IInv

LEMMA StutterHolds == ASSUME IInv, UNCHANGED vars PROVE IInv'
<1>1. UNCHANGED <<src, pc, pass, tab, line, rep, seg, header, written, bytes, recs>> BY DEF vars, output
<1>2. Types' BY StepTyped DEF IInv
<1>3. Live' <=> Live BY <1>1 DEF Live
<1>4. ASSUME Live, TableOK PROVE TableOK'
  <2>1. PassOK' /\ KindsOK' BY <1>1, <1>4 DEF TableOK, PassOK, KindsOK
  <2>2. LastOK' /\ SeenOK' BY <1>1, <1>4 DEF TableOK, LastOK, SeenOK, Astray
  <2>3. NumbersOK' /\ ConstsOK' BY <1>1, <1>4 DEF TableOK, NumbersOK, ConstsOK
  <2>4. ValuesOK' BY <1>1, <1>4 DEF TableOK, ValuesOK, Settled
  <2>5. QED BY <2>1, <2>2, <2>3, <2>4 DEF TableOK
<1>5. Read' = Read BY <1>1 DEF Read
<1>6. ASSUME Live, CountOK PROVE CountOK'
  <2>1. RepOK' /\ SegOK' /\ WrittenOK' BY <1>1, <1>6 DEF CountOK, RepOK, SegOK, WrittenOK, Reads
  <2>2. SizesOK' /\ SymsOK' BY <1>1, <1>5, <1>6 DEF CountOK, SizesOK, SymsOK, Reads, Settled
  <2>3. QED BY <2>1, <2>2 DEF CountOK
<1>7. ASSUME Live, OutputOK PROVE OutputOK'
  <2>1. \A l, q : Passed(l, q)' <=> Passed(l, q) BY <1>1, <1>5 DEF Passed
  <2>2. BytesOK' BY <1>1, <1>7, <2>1, BytesStay DEF OutputOK
  <2>3. recs \in Seq(Record) BY DEF IInv, Types, TypeOK
  <2>4. RecordsOK' /\ DistinctOK' BY <1>1, <1>7, <2>1, <2>3, RecordsStay DEF OutputOK
  <2>5. QED BY <2>2, <2>4 DEF OutputOK
<1>8. QED BY <1>2, <1>3, <1>4, <1>6, <1>7 DEF IInv

\* No statement but one that is refused, and no end of a pass, breaks the invariant.
LEMMA ParseHolds ==
    ASSUME Types, Live, TableOK, CountOK, OutputOK,
           Section \/ Label \/ Extern \/ Equ \/ Global \/ Reserve \/ Emit \/ Times
    PROVE  TableOK' /\ CountOK' /\ OutputOK'
<1>1. CASE Section BY <1>1, SectionTable, SectionCount, SectionOutput
<1>2. CASE Label BY <1>2, LabelTable, LabelCount, LabelOutput
<1>3. CASE Extern BY <1>3, ExternTable, ExternCount, ExternOutput
<1>4. CASE Equ BY <1>4, EquTable, EquCount, EquOutput
<1>5. CASE Global BY <1>5, GlobalTable, GlobalCount, GlobalOutput DEF CountOK
<1>6. CASE Reserve BY <1>6, ReserveTable, ReserveCount, ReserveOutput
<1>7. CASE Emit BY <1>7, EmitTable, EmitCount, EmitOutput
<1>8. CASE Times BY <1>8, TimesTable, TimesCount, TimesOutput
<1>9. QED BY <1>1, <1>2, <1>3, <1>4, <1>5, <1>6, <1>7, <1>8

LEMMA NextHolds == ASSUME IInv, [Next]_vars PROVE IInv'
<1>1. Types BY DEF IInv
<1>2. Types' BY <1>1, StepTyped
<1>3. CASE UNCHANGED vars BY <1>3, StutterHolds
<1>4. CASE Refused
  <2>1. pc' = "failed" BY <1>4, RefusedIs
  <2>2. QED BY <1>2, <2>1 DEF IInv, Live
<1>5. CASE Assemble /\ ~Refused
  <2>1. SUFFICES ASSUME Live' PROVE TableOK' /\ CountOK' /\ OutputOK' BY <1>2 DEF IInv
  <2>2. src' = src /\ pc # "failed"
    <3>1. CASE Section \/ Label \/ Extern BY <3>1 DEF Section, Label, Extern, At, Reading
    <3>2. CASE Equ BY <3>2 DEF Equ, At, Reading
    <3>3. CASE Global \/ Times BY <3>3 DEF Global, Times, At, Reading
    <3>4. CASE Reserve BY <3>4 DEF Reserve, At, Reading
    <3>5. CASE Emit BY <3>5 DEF Emit, At, Reading
    <3>6. CASE SizingEnds \/ OutputEnds BY <3>6 DEF SizingEnds, OutputEnds, PassEnds
    <3>7. QED BY <1>5, <3>1, <3>2, <3>3, <3>4, <3>5, <3>6 DEF Assemble, Parse
  <2>3. Live BY <2>1, <2>2 DEF Live
  <2>4. TableOK /\ CountOK /\ OutputOK BY <2>3 DEF IInv
  <2>5. CASE SizingEnds BY <1>1, <2>3, <2>4, <2>5, SizingTable, SizingCount, SizingOutput
  <2>6. CASE OutputEnds BY <1>1, <2>3, <2>4, <2>6, OutputTable, OutputCount, OutputEndsOutput
  <2>7. CASE Parse
    <3>1. Section \/ Label \/ Extern \/ Equ \/ Global \/ Reserve \/ Emit \/ Times BY <1>5, <2>7 DEF Parse
    <3>2. QED BY <1>1, <2>3, <2>4, <3>1, ParseHolds
  <2>8. QED BY <1>5, <2>5, <2>6, <2>7 DEF Assemble
<1>6. QED BY <1>3, <1>4, <1>5 DEF Next

LEMMA Invariant == Spec => []IInv
<1>1. Init => IInv BY InitHolds
<1>2. IInv /\ [Next]_vars => IInv' BY NextHolds
<1>3. QED BY <1>1, <1>2, PTL DEF Spec
-----------------------------------------------------------------------------
(* The properties. *)

\* The header that the last sizing pass counted describes what the output passes wrote.
THEOREM HeaderRight == Spec => []HeaderMatches
<1>1. ASSUME IInv, pc = "done", Orderly(src)
      PROVE  /\ written.text = Laid(bytes)[Len(bytes)].text
             /\ written.data = Laid(bytes)[Len(bytes)].data
             /\ written.bss = After(src)[Len(src)].size["bss"]
             /\ written.syms = Len(recs)
  <2>1. CountOK /\ OutputOK BY <1>1 DEF IInv, Live
  <2>2. \A g \in Segments : written[g] = After(src)[Len(src)].size[g] BY <1>1, <2>1 DEF CountOK, WrittenOK
  <2>3. Laid(bytes)[Len(bytes)] = [g \in {"text", "data"} |-> After(src)[Len(src)].size[g]]
    BY <1>1, <2>1 DEF OutputOK, BytesOK, LaidOK
  <2>4. written.syms = Len(recs) BY <1>1, <2>1 DEF OutputOK, DistinctOK
  <2>5. QED BY <2>2, <2>3, <2>4 DEF Segments
<1>2. IInv => HeaderMatches BY <1>1 DEF HeaderMatches
<1>3. QED BY <1>2, Invariant, PTL

\* A sum is what it is in M bits, whichever of its terms has lost the bits above.
LEMMA ModSum ==
    ASSUME NEW x \in Int, NEW y \in Int, NEW M \in {256, 65536}
    PROVE  (x + (y % M)) % M = (x + y) % M
<1>1. CASE M = 256
  <2>1. (x + (y % 256)) % 256 = (x + y) % 256 OBVIOUS
  <2>2. QED BY <1>1, <2>1
<1>2. CASE M = 65536
  <2>1. (x + (y % 65536)) % 65536 = (x + y) % 65536 OBVIOUS
  <2>2. QED BY <1>2, <2>1
<1>3. QED BY <1>1, <1>2

\* The i-th piece of the output, if it holds an operand.
LEMMA OperandIs ==
    ASSUME IInv, Live, NEW i \in Operands
    PROVE  LET s == StmtOf(i)
               l == bytes[i].line
           IN /\ i \in DOMAIN bytes /\ l \in DOMAIN src /\ s.op = "emit" /\ IsPlain(s)
              /\ bytes[i].seg = SegAt(src, l) /\ bytes[i].w = s.w /\ bytes[i].lead = s.lead
              /\ PosOf(i) \in Nat
              /\ bytes[i].val = OperandIn(src, l, PosOf(i)) % (IF s.w = 1 THEN 256 ELSE 65536)
              /\ s.e.name # NoName /\ Kind(src, NameOf(i)) = "label" => s.mode # 0
              /\ \E q \in Slots(src, l) : PosOf(i) = Place(src, l, q) + s.lead
<1> DEFINE s == StmtOf(i)
           l == bytes[i].line
           pos == Laid(bytes)[i - 1][bytes[i].seg]
<1>1. i \in DOMAIN bytes /\ s.op = "emit" BY DEF Operands
<1>2. OutputOK /\ bytes \in Seq(Piece) /\ IsSource(src) BY SrcIs DEF IInv, Types, TypeOK
<1>3. l \in DOMAIN src /\ \E q \in Slots(src, l) : IsPiece(src, bytes[i], pos, l, q)
  BY <1>1, <1>2 DEF OutputOK, BytesOK, PiecesOK
<1>4. PICK q \in Slots(src, l) : IsPiece(src, bytes[i], pos, l, q) BY <1>3
<1>5. s = Body(src[l]) /\ IsPlain(s) BY <1>2, <1>3, BodyPlain DEF StmtOf
<1>6. bytes[i] \in Piece /\ i \in 1 .. Len(bytes) /\ Len(bytes) \in Nat BY <1>1, <1>2
<1>7. i - 1 \in 0 .. Len(bytes) BY <1>6
<1>8. Laid(bytes)[i - 1] \in [{"text", "data"} -> Nat] BY <1>2, <1>7, LaidTyped
<1>9. bytes[i].seg \in {"text", "data"} /\ bytes[i].lead \in Nat
  <2>1. \A b \in Piece : b.seg \in {"text", "data"} /\ b.lead \in Nat BY DEF Piece
  <2>2. QED BY <1>6, <2>1
<1>10. pos \in Nat BY <1>8, <1>9
<1>11. PosOf(i) = pos + bytes[i].lead BY DEF PosOf
<1>12. NameOf(i) = Scoped(src, l, s.e.name) BY DEF NameOf
<1> HIDE DEF pos, s
<1>13. /\ bytes[i].seg = SegAt(src, l) /\ bytes[i].w = s.w /\ bytes[i].lead = s.lead
       /\ pos = Place(src, l, q)
       /\ bytes[i].val = OperandIn(src, l, pos + s.lead) % (IF s.w = 1 THEN 256 ELSE 65536)
       /\ s.e.name # NoName /\ Kind(src, NameOf(i)) = "label" => s.mode # 0
  BY <1>1, <1>4, <1>5, <1>12 DEF IsPiece
<1>14. PosOf(i) \in Nat /\ PosOf(i) = pos + s.lead BY <1>9, <1>10, <1>11, <1>13
<1>15. bytes[i].val = OperandIn(src, l, PosOf(i)) % (IF s.w = 1 THEN 256 ELSE 65536) BY <1>13, <1>14
<1>16. \E r \in Slots(src, l) : PosOf(i) = Place(src, l, r) + s.lead BY <1>13, <1>14
<1>17. QED BY <1>1, <1>3, <1>5, <1>13, <1>14, <1>15, <1>16 DEF s

LEMMA OperandRight ==
    ASSUME IInv, Live, NEW i \in Operands
    PROVE  LET n == NameOf(i)
               s == StmtOf(i)
               b == bytes[i]
               k == IF n = NoName THEN "none" ELSE Kind(src, n)
               M == IF b.w = 1 THEN 256 ELSE 65536
               rest == s.e.here * PosOf(i) + s.e.k
           IN CASE k = "const" -> b.val = (s.e.by * ConstOf(src, n) + rest) % M
                [] k = "label" /\ s.mode = 1 -> b.val = (Address(src, n) + rest) % M
                [] k = "label" /\ s.mode # 1 ->
                      SegAt(src, DefLine(src, n)) = b.seg =>
                          (PosOf(i) + b.w + b.val) % M = (Address(src, n) + rest) % M
                [] OTHER -> b.val = rest % M
<1> DEFINE s == StmtOf(i)
           l == bytes[i].line
           n == NameOf(i)
           k == IF n = NoName THEN "none" ELSE Kind(src, n)
           M == IF s.w = 1 THEN 256 ELSE 65536
           P == PosOf(i)
           H == s.e.here * P
           O == OperandIn(src, l, P)
           V == bytes[i].val
           A == Address(src, n)
<1>1. /\ l \in DOMAIN src /\ s.op = "emit" /\ IsPlain(s) /\ bytes[i].w = s.w /\ P \in Nat
      /\ V = O % M
      /\ s.e.name # NoName /\ Kind(src, n) = "label" => s.mode # 0
  BY OperandIs
<1>2. IsSource(src) /\ Orderly(src) BY SrcIs DEF IInv, Types, Live
<1>3. /\ IsExpr(s.e) /\ s.w \in Nat /\ s.mode \in 0 .. 3 /\ s.disp \in Int
      /\ s.mode = 2 => s.w = 1 /\ s.disp = -1
      /\ s.mode = 3 => s.w = 2 /\ s.disp = -2
  BY <1>1, PlainFields
<1>4. H \in Int /\ s.e.k \in Int BY <1>1, <1>3, ProductInt DEF IsExpr
<1>5. n = Scoped(src, l, s.e.name) /\ s = Body(src[l]) BY DEF NameOf, StmtOf
<1>6. O = CASE k = "const" -> s.e.by * ConstOf(src, n) + (H + s.e.k)
            [] k = "label" /\ s.mode = 1 -> A + (H + s.e.k)
            [] k = "label" /\ s.mode # 1 -> A - P + s.disp + (H + s.e.k)
            [] OTHER -> H + s.e.k
  BY <1>5 DEF OperandIn
<1>7. M \in {256, 65536} OBVIOUS
<1>8. k = "label" => /\ Defined(src, n) /\ A \in Int /\ s.e.name # NoName
  <2>1. k = "label" => n # NoName /\ Kind(src, n) = "label" OBVIOUS
  <2>2. s.e.name = NoName => n = NoName BY <1>5 DEF Scoped
  <2>3. k = "label" => Defined(src, n) BY <1>2, <2>1, KindSays
  <2>4. QED BY <1>2, <2>1, <2>2, <2>3, DefinedInt
<1>9. k = "label" => Kind(src, n) = "label" OBVIOUS
<1>10. M = IF bytes[i].w = 1 THEN 256 ELSE 65536 BY <1>1
<1> HIDE DEF M, O, H, V, A, k, P, n, s
<1>11. CASE k = "const"
  <2>1. V = (s.e.by * ConstOf(src, n) + (H + s.e.k)) % M BY <1>1, <1>6, <1>11
  <2>2. QED BY <1>10, <1>11, <2>1 DEF H, V, k, P, n, s
<1>12. CASE k = "label" /\ s.mode = 1
  <2>1. V = (A + (H + s.e.k)) % M BY <1>1, <1>6, <1>12
  <2>2. QED BY <1>10, <1>12, <2>1 DEF H, V, k, P, n, s, A
<1>13. CASE k = "label" /\ s.mode # 1
  <2>1. O = A - P + s.disp + (H + s.e.k) BY <1>6, <1>13
  <2>2. A \in Int /\ s.mode # 0 BY <1>1, <1>8, <1>9, <1>13
  <2>3. s.disp = -s.w /\ s.w \in Nat BY <1>3, <1>13, <2>2
  <2>4. O \in Int /\ P + s.w \in Int BY <1>1, <1>3, <1>4, <2>1, <2>2
  <2>5. ((P + s.w) + (O % M)) % M = ((P + s.w) + O) % M BY <1>7, <2>4, ModSum
  <2>6. (P + s.w) + O = A + (H + s.e.k) BY <1>1, <1>3, <1>4, <2>1, <2>2, <2>3
  <2>7. (P + s.w + V) % M = (A + (H + s.e.k)) % M BY <1>1, <2>5, <2>6
  <2>8. (P + bytes[i].w + V) % M = (A + (H + s.e.k)) % M BY <1>1, <2>7
  <2>9. QED BY <1>10, <1>13, <2>8 DEF H, V, k, P, n, s, A
<1>14. CASE k # "const" /\ k # "label"
  <2>1. V = (H + s.e.k) % M BY <1>1, <1>6, <1>14
  <2>2. QED BY <1>10, <1>14, <2>1 DEF H, V, k, P, n, s
<1>15. QED BY <1>11, <1>12, <1>13, <1>14

\* Each operand in the output is what its name finally stands for.
THEOREM OperandsAreRight == Spec => []OperandsRight
<1>1. ASSUME IInv, pc = "done", Orderly(src), NEW i \in Operands
      PROVE  LET n == NameOf(i)
                 s == StmtOf(i)
                 b == bytes[i]
                 k == IF n = NoName THEN "none" ELSE Kind(src, n)
                 M == IF b.w = 1 THEN 256 ELSE 65536
                 rest == s.e.here * PosOf(i) + s.e.k
             IN CASE k = "const" -> b.val = (s.e.by * ConstOf(src, n) + rest) % M
                  [] k = "label" /\ s.mode = 1 -> b.val = (Address(src, n) + rest) % M
                  [] k = "label" /\ s.mode # 1 ->
                        SegAt(src, DefLine(src, n)) = b.seg =>
                            (PosOf(i) + b.w + b.val) % M = (Address(src, n) + rest) % M
                  [] OTHER -> b.val = rest % M
  <2>1. Live BY <1>1 DEF Live
  <2>2. QED BY <1>1, <2>1, OperandRight
<1>2. IInv => OperandsRight BY <1>1 DEF OperandsRight
<1>3. QED BY <1>2, Invariant, PTL

\* A sequence without repetitions is as long as the set of its elements is large.
LEMMA DistinctCount ==
    ASSUME NEW s, Len(s) \in Nat, DOMAIN s = 1 .. Len(s), s = [i \in 1 .. Len(s) |-> s[i]],
           \A i, j \in DOMAIN s : s[i] = s[j] => i = j
    PROVE  IsFiniteSet(ToSet(s)) /\ Cardinality(ToSet(s)) = Len(s)
<1> DEFINE N == Len(s)
           D == 1 .. N
<1>1. s \in [D -> ToSet(s)] BY DEF ToSet
<1>2. \A i, j \in D : s[i] = s[j] => i = j OBVIOUS
<1>3. \A t \in ToSet(s) : \E i \in D : s[i] = t BY DEF ToSet
<1>4. N \in Nat OBVIOUS
<1> HIDE DEF N
<1>5. s \in Bijection(D, ToSet(s)) BY <1>1, <1>2, <1>3 DEF Bijection, Injection, Surjection, IsInjective
<1>6. ExistsBijection(D, ToSet(s)) BY <1>5 DEF ExistsBijection
<1>7. IsFiniteSet(D) BY <1>4, FS_Interval
<1> HIDE DEF D
<1>8. IsFiniteSet(ToSet(s)) BY <1>6, <1>7, FS_Bijection
<1>9. Cardinality(ToSet(s)) = N BY <1>4, <1>6, FS_CountingElements DEF D
<1>10. QED BY <1>8, <1>9 DEF N

\* The records the operands and the global statements call for.
RefOf(i) ==
    [kind |-> "ref", seg |-> bytes[i].seg, off |-> PosOf(i), disp |-> StmtOf(i).disp,
     name |-> IF Kind(src, NameOf(i)) = "label"
              THEN <<SegName[SegAt(src, DefLine(src, NameOf(i)))]>>
              ELSE NameOf(i),
     rel |-> Rel[StmtOf(i).mode]]
Recording == {j \in Operands : Recorded(src, bytes[j].line, StmtOf(j))}
PublicOf(g) ==
    [kind |-> "global", name |-> src[g].name, seg |-> SegAt(src, g),
     off |-> IF Defined(src, src[g].name) THEN Address(src, src[g].name) ELSE 0]
Globals == {l \in DOMAIN src : src[l].op = "global"}
References == {RefOf(i) : i \in Recording}
Publics == {PublicOf(g) : g \in Globals}

LEMMA RefMade ==
    ASSUME IInv, Live, pc = "done", NEW i \in Recording
    PROVE  \E j \in DOMAIN recs : recs[j] = RefOf(i)
<1> DEFINE l == bytes[i].line
           s == StmtOf(i)
<1>1. i \in Operands /\ Recorded(src, l, s) BY DEF Recording
<1>2. /\ l \in DOMAIN src /\ s.op = "emit" /\ bytes[i].seg = SegAt(src, l)
      /\ \E q \in Slots(src, l) : PosOf(i) = Place(src, l, q) + s.lead
  BY <1>1, OperandIs
<1>3. PICK q \in Slots(src, l) : PosOf(i) = Place(src, l, q) + s.lead BY <1>2
<1>4. s = Body(src[l]) /\ NameOf(i) = Scoped(src, l, s.e.name) BY DEF StmtOf, NameOf
<1> HIDE DEF s
<1>5. RefOf(i) = RecordOf(src, l, q) BY <1>2, <1>3, <1>4 DEF RefOf, RecordOf, s
<1>6. Recorded(src, l, Body(src[l])) BY <1>1, <1>4
<1>7. OutputOK BY DEF IInv
<1>8. \E j \in DOMAIN recs : recs[j] = RecordOf(src, l, q)
  BY <1>2, <1>6, <1>7 DEF OutputOK, RecordsOK, AllRecords
<1>9. QED BY <1>5, <1>8

LEMMA PublicMade ==
    ASSUME IInv, Live, pc = "done", NEW g \in Globals
    PROVE  \E j \in DOMAIN recs : recs[j] = PublicOf(g)
<1>1. g \in DOMAIN src /\ src[g].op = "global" /\ Body(src[g]) = src[g] BY DEF Globals, Body
<1>2. IsSource(src) /\ Orderly(src) BY SrcIs DEF IInv, Types, Live
<1>3. ~IsLocal(src[g].name) BY <1>1, <1>2 DEF Orderly, GlobalsHere
<1>4. Scoped(src, g, src[g].name) = src[g].name BY <1>3 DEF Scoped
<1>5. RecordOf(src, g, 0) = PublicOf(g) BY <1>1, <1>4 DEF RecordOf, PublicOf
<1>6. g \in 1 .. Len(src) BY <1>1, <1>2 DEF IsSource
<1>7. TimesOf(src, g) = 1 BY <1>1, <1>2, <1>6, LineAdds
<1>8. 0 \in Slots(src, g) BY <1>7 DEF Slots
<1>9. Recorded(src, g, Body(src[g])) BY <1>1 DEF Recorded
<1>10. OutputOK BY DEF IInv
<1>11. \E j \in DOMAIN recs : recs[j] = RecordOf(src, g, 0)
  BY <1>1, <1>8, <1>9, <1>10 DEF OutputOK, RecordsOK, AllRecords
<1>12. QED BY <1>5, <1>11

LEMMA RecordCalledFor ==
    ASSUME IInv, Live, pc = "done", NEW j \in DOMAIN recs
    PROVE  recs[j] \in References \cup Publics
<1>1. IsSource(src) /\ Orderly(src) /\ OutputOK BY SrcIs DEF IInv, Types, Live
<1>2. PICK l \in DOMAIN src : \E q \in Slots(src, l) :
          /\ Recorded(src, l, Body(src[l])) /\ recs[j] = RecordOf(src, l, q)
          /\ Body(src[l]).op = "emit" => SegAt(src, l) # "bss"
  BY <1>1 DEF OutputOK, RecordsOK, RecordsMade
<1>3. PICK q \in Slots(src, l) :
          /\ Recorded(src, l, Body(src[l])) /\ recs[j] = RecordOf(src, l, q)
          /\ Body(src[l]).op = "emit" => SegAt(src, l) # "bss"
  BY <1>2
<1>4. CASE Body(src[l]).op = "global"
  <2>1. src[l].op = "global" /\ Body(src[l]) = src[l] BY <1>1, <1>4 DEF Body, Orderly, Repeats
  <2>2. ~IsLocal(src[l].name) BY <1>1, <2>1 DEF Orderly, GlobalsHere
  <2>3. Scoped(src, l, src[l].name) = src[l].name BY <2>2 DEF Scoped
  <2>4. recs[j] = PublicOf(l) BY <1>3, <2>1, <2>3 DEF RecordOf, PublicOf
  <2>5. l \in Globals BY <2>1 DEF Globals
  <2>6. QED BY <2>4, <2>5 DEF Publics
<1>5. CASE Body(src[l]).op # "global"
  <2>1. Body(src[l]).op = "emit" BY <1>3, <1>5 DEF Recorded
  <2>2. l \in 0 .. Len(src) BY <1>1 DEF IsSource
  <2>3. SegAt(src, l) \in {"text", "data"} BY <1>1, <1>3, <2>1, <2>2, SegIs DEF Segments, Orderly
  <2>4. InOutput(SegAt(src, l), l, q) BY <2>3 DEF InOutput
  <2>5. PICK i \in DOMAIN bytes : IsPiece(src, bytes[i], Laid(bytes)[i - 1][SegAt(src, l)], l, q)
    BY <1>1, <2>1, <2>4 DEF OutputOK, BytesOK, AllPieces
  <2>6. /\ bytes[i].line = l /\ bytes[i].seg = SegAt(src, l) /\ bytes[i].lead = Body(src[l]).lead
        /\ Laid(bytes)[i - 1][SegAt(src, l)] = Place(src, l, q)
    BY <2>1, <2>5 DEF IsPiece
  <2>7. StmtOf(i) = Body(src[l]) /\ NameOf(i) = Scoped(src, l, Body(src[l]).e.name)
    BY <2>6 DEF StmtOf, NameOf
  <2>8. PosOf(i) = Place(src, l, q) + Body(src[l]).lead BY <2>6 DEF PosOf
  <2>9. i \in Recording BY <1>3, <2>1, <2>6, <2>7 DEF Recording, Operands
  <2>10. recs[j] = RefOf(i) BY <1>3, <2>1, <2>6, <2>7, <2>8 DEF RecordOf, RefOf
  <2>11. QED BY <2>9, <2>10 DEF References
<1>6. QED BY <1>4, <1>5

\* The records are those that are called for, each once.
LEMMA RecordsAre ==
    ASSUME IInv, Live, pc = "done"
    PROVE  /\ ToSet(recs) = References \cup Publics
           /\ Len(recs) = Cardinality(References) + Cardinality(Publics)
<1>1. recs \in Seq(Record) /\ OutputOK BY DEF IInv, Types, TypeOK
<1>2. \A i, j \in DOMAIN recs : recs[i] = recs[j] => i = j BY <1>1 DEF OutputOK, DistinctOK
<1>3. IsFiniteSet(ToSet(recs)) /\ Cardinality(ToSet(recs)) = Len(recs) BY <1>1, <1>2, DistinctCount
<1>4. References \subseteq ToSet(recs) BY RefMade DEF References, ToSet
<1>5. Publics \subseteq ToSet(recs) BY PublicMade DEF Publics, ToSet
<1>6. ToSet(recs) \subseteq References \cup Publics BY RecordCalledFor DEF ToSet
<1>7. ToSet(recs) = References \cup Publics BY <1>4, <1>5, <1>6
<1>8. IsFiniteSet(References) /\ IsFiniteSet(Publics) BY <1>3, <1>4, <1>5, FS_Subset
<1>9. References \cap Publics = {}
  <2>1. \A x \in References : x.kind = "ref" BY DEF References, RefOf
  <2>2. \A x \in Publics : x.kind = "global" BY DEF Publics, PublicOf
  <2>3. QED BY <2>1, <2>2
<1>10. Cardinality(References \cap Publics) = 0 BY <1>9, FS_EmptySet
<1>11. Cardinality(ToSet(recs)) = Cardinality(References) + Cardinality(Publics) - 0
  BY <1>7, <1>8, <1>10, FS_Union
<1>12. Cardinality(References) \in Nat /\ Cardinality(Publics) \in Nat BY <1>8, FS_CardinalityType
<1>13. QED BY <1>3, <1>7, <1>11, <1>12

\* The symbol records are exactly those the operands and the globals need, each once.
THEOREM RecordsAreRight == Spec => []RecordsRight
<1>1. ASSUME IInv, pc = "done", Orderly(src)
      PROVE  /\ ToSet(recs) = References \cup Publics
             /\ Len(recs) = Cardinality(References) + Cardinality(Publics)
  <2>1. Live BY <1>1 DEF Live
  <2>2. QED BY <1>1, <2>1, RecordsAre
<1>2. IInv => RecordsRight
  BY <1>1 DEF RecordsRight, References, Publics, Recording, Globals, RefOf, PublicOf
<1>3. QED BY <1>2, Invariant, PTL
=============================================================================
