---------------------------- MODULE Linker_proofs ----------------------------
(***************************************************************************)
(* What ld promises, for every list of objects and every size of the       *)
(* symbol table.  The invariant follows the loops: each part says what the *)
(* loop has done up to its cursor, and what the loops before it left.      *)
(***************************************************************************)
EXTENDS Linker, FiniteSets, Functions, WellFoundedInduction, FiniteSetTheorems, SequenceTheorems, TLAPS

Loops == {"sizes", "text", "data", "values", "reloc"}
Cursor == [lib : 1 .. N + 1, s : Nat \ {0}]

\* The symbol k of file f is before the cursor c.
Passed(c, f, k) == f < c.lib \/ (f = c.lib /\ k < c.s)

\* The linked files before file f, and those the running loop has passed.
Below(f) == {g \in included : g < f}
Before == Below(lib)

\* Types, the cursors, and what an error means.
Shape ==
    /\ TypeOK
    /\ stack \in Seq(Cursor)
    /\ pc = "entry" => Known = {} /\ included = {}
    /\ pc = "tree" => stack # <<>>
    /\ pc \notin {"entry", "failed"} => included # {}
    /\ pc \in Loops => lib \in 1..N
    /\ pc \notin Loops \cup {"failed", "crashed"} => lib = 1
    /\ pc \notin {"values", "reloc", "failed", "crashed"} => s = 1
    /\ pc \in {"values", "reloc"} => off.text >= Origin /\ off.data >= Origin
    /\ pc # "failed" => error = "none" /\ out # "removed"

\* make_symbol_tree(): what is in the table, and what its calls have passed.
TreeOK(f, k) ==
    LET e == Files[f].syms[k] IN
    /\ e.kind = "global" => e.name \in Known \/ Full
    /\ e.kind = "ref" => e.name \in LinkerNames \/
                         (DefinedIn(e.name) # {} /\ FirstDef(e.name) \in included)

Wanted == Referenced \cup {"_start"}

Tree ==
    /\ IsFiniteSet(Known)
    /\ pc = "tree" =>
          /\ \A f \in included : \E n \in Wanted : DefinedIn(n) # {} /\ f = FirstDef(n)
          /\ DefinedIn("_start") # {} /\ FirstDef("_start") \in included
          /\ \A n \in LinkerNames : where[n] = NOFILE
          /\ \A n \in Known \ LinkerNames : DefinedIn(n) # {} /\ where[n] = FirstDef(n)
          /\ \A i \in DOMAIN stack, f \in 1..N : \A k \in DOMAIN Files[f].syms :
                Passed(stack[i], f, k) => TreeOK(f, k)
    /\ pc \notin {"entry", "tree", "failed"} =>
          /\ \A n \in Wanted : DefinedIn(n) # {}
          /\ included = {FirstDef(n) : n \in Wanted}
    /\ NotFoundMeansUndefined
    /\ FailureRemovesOutput

\* The sizes, while they are added up.
Fit == IF IsBin THEN Origin + JumpLen + TextLen + DataLen + BssLen < 65504
       ELSE TextLen < 65520 /\ DataLen + BssLen < 65504

SumsOf(fs) ==
    /\ value["__etext"] = (IF IsBin THEN JumpLen ELSE 0) + Total("text", fs)
    /\ value["__edata"] = Total("data", fs)
    /\ value["__end"] = job.stack + Total("bss", fs)
    /\ value["__segoff"] = 0
    /\ aout = Zero
    /\ fs = {} => total = Origin
    /\ fs # {} =>
         IF IsBin
         THEN /\ total >= Origin + value["__etext"] + value["__edata"] + value["__end"]
              /\ total < 65504
         ELSE value["__etext"] < 65520 /\ value["__edata"] + value["__end"] < 65504

Measured ==
    /\ pc = "entry" => value = [n \in Names |-> 0] /\ aout = Zero
    /\ pc \in {"tree", "sizes"} => SumsOf(Before)
    /\ pc = "layout" => SumsOf(included)
    /\ OverflowIsReal

\* The layout, and what the copying loops have written.
LaidOutPcs == {"text", "datapos", "data", "tail", "values", "reloc", "finish", "done", "crashed"}

LaidOut ==
    /\ aout = IF IsBin THEN Zero ELSE [text |-> Round16(TextLen), data |-> Round16(DataLen),
                                       bss |-> Round16(BssLen)]
    /\ value["__etext"] = EndText /\ value["__edata"] = EndData /\ value["__end"] = EndBss
    /\ value["__segoff"] = aout.text \div 16
    /\ Fit

Piece(f, seg, pos) == [file |-> f, seg |-> seg, pos |-> pos, len |-> SizeOf(f)[seg]]
DataBase == HeaderLen + (IF IsBin THEN TextLen ELSE aout.text)
TextAt(f) == HeaderLen + Total("text", Below(f))
DataAt(f) == DataBase + Total("data", Below(f))
TextPieces(fs) == {Piece(f, "text", TextAt(f)) : f \in fs}
DataPieces(fs) == {Piece(f, "data", DataAt(f)) : f \in fs}
Written(ts, ds) == pieces = TextPieces(ts) \cup DataPieces(ds)
Copied ==
    /\ pc \in {"entry", "tree", "sizes", "layout"} => pieces = {}
    /\ pc = "text" => Written(Before, {}) /\ at = HeaderLen + Total("text", Before)
    /\ pc = "datapos" => Written(included, {}) /\ at = HeaderLen + TextLen
    /\ pc = "data" => Written(included, Before) /\ at = DataBase + Total("data", Before)
    /\ pc \in {"tail", "values", "reloc", "finish", "done"} => Written(included, included)

\* The offsets, and the addresses of the globals.
OffAt(f) == [seg \in Segments |-> Starts[seg] + Total(seg, Below(f))]
OffOK == pc \in {"values", "reloc"} =>
             off = IF \E f \in included : f >= lib THEN OffAt(lib) ELSE Starts

AtCursor == [lib |-> lib, s |-> s]
OffsetOf(d) == LET e == Files[d.file].syms[d.k] IN OffAt(d.file)[e.seg] + e.off
Valued(n) == \E d \in Defs(n) : value[n] = OffsetOf(d)
ValuesOK ==
    pc \in {"values", "reloc", "finish", "done"} =>
        \A f \in included : \A k \in DOMAIN Files[f].syms :
            Files[f].syms[k].kind = "global" /\ (pc # "values" \/ Passed(AtCursor, f, k)) =>
                Valued(Files[f].syms[k].name)

\* The output of a v7tiny link: all of it within 16 bits, and no reference in data.
Resolvable ==
    job.fmt = "v7tiny" =>
        /\ EndBss <= 65535
        /\ \A f \in included : \A r \in Refs(f) : r.seg # "data"

RelocOK ==
    Resolvable /\ pc \in {"reloc", "finish", "done"} =>
        \A f \in included : \A k \in DOMAIN Files[f].syms :
            Patchable(Files[f].syms[k]) /\ (pc # "reloc" \/ Passed(AtCursor, f, k)) =>
                ReferencePatched(f, k)
-----------------------------------------------------------------------------
-----------------------------------------------------------------------------
(* The smallest of a set of natural numbers, induction on them, and sums.  Induction is
   stated for a set of numbers, where the library states it for an operator P(_), which
   the provers cannot instantiate: a proof defines the set of the numbers it is about,
   and shows that it holds 0 and the successor of each of its elements. *)

LEMMA NatWellFounded ==
    \E R : IsWellFoundedOn(R, Nat) /\ \A x, y \in Nat : y < x => <<y, x>> \in R
<1>1. IsWellFoundedOn(OpToRel(<,Nat), Nat) BY NatLessThanWellFounded
<1>2. \A x, y \in Nat : y < x => <<y, x>> \in OpToRel(<,Nat) BY DEF OpToRel
<1>3. QED BY <1>1, <1>2

\* A set of natural numbers has a smallest element.
LEMMA LeastNat ==
    ASSUME NEW S \in SUBSET Nat, S # {}
    PROVE  \E m \in S : \A k \in S : m <= k
<1>1. PICK R : IsWellFoundedOn(R, Nat) /\ \A x, y \in Nat : y < x => <<y, x>> \in R
  BY NatWellFounded
<1>4. \E x \in S : \A y \in S : ~(<<y, x>> \in R) BY <1>1, WFMin
<1>5. PICK m \in S : \A k \in S : ~(<<k, m>> \in R) BY <1>4
<1>6. ASSUME NEW k \in S PROVE m <= k
  <2>1. ~(k < m) BY <1>1, <1>5, Zenon
  <2>2. QED BY <2>1
<1>7. QED BY <1>6

\* Induction.
LEMMA NatIndSet ==
    ASSUME NEW S, 0 \in S, \A n \in Nat : n \in S => n + 1 \in S
    PROVE  Nat \subseteq S
<1>1. SUFFICES ASSUME Nat \ S # {} PROVE FALSE OBVIOUS
<1>2. PICK m \in Nat \ S : \A k \in Nat \ S : m <= k BY <1>1, LeastNat
<1>3. m - 1 \in Nat /\ m - 1 \notin Nat \ S BY <1>2
<1>4. QED BY <1>2, <1>3
\* G[u] is the sum of a over u, whatever the order it is taken in.
IsSum(G, a, m) ==
    /\ G \in [SUBSET (1 .. m) -> Nat] /\ G[{}] = 0
    /\ \A u \in SUBSET (1 .. m) : \A x \in u : G[u] = a[x] + G[u \ {x}]
    /\ \A u, t \in SUBSET (1 .. m) : u \subseteq t => G[u] <= G[t]

LEMMA SumExists ==
    ASSUME NEW n \in Nat, NEW a \in [1 .. n -> Nat]
    PROVE  \E G : IsSum(G, a, n)
<1> DEFINE S == {m \in Nat : m <= n => \E G : IsSum(G, a, m)}
<1>1. 0 \in S
  <2> DEFINE G == [u \in SUBSET (1 .. 0) |-> 0]
  <2>1. 1 .. 0 = {} OBVIOUS
  <2>2. IsSum(G, a, 0) BY <2>1 DEF IsSum
  <2>3. QED BY <2>2
<1>2. ASSUME NEW m \in Nat, m \in S PROVE m + 1 \in S
  <2>1. SUFFICES ASSUME m + 1 <= n PROVE \E G : IsSum(G, a, m + 1) OBVIOUS
  <2>2. PICK g : IsSum(g, a, m) BY <1>2, <2>1
  <2> DEFINE y == m + 1
             G == [u \in SUBSET (1 .. y) |-> IF y \in u THEN a[y] + g[u \ {y}] ELSE g[u]]
  <2>3. y \in 1 .. n /\ a[y] \in Nat /\ y \notin 1 .. m BY <2>1
  <2>4. \A u \in SUBSET (1 .. y) : u \ {y} \in SUBSET (1 .. m) /\ (y \notin u => u \in SUBSET (1 .. m))
    OBVIOUS
  <2>5. \A u \in SUBSET (1 .. m) : g[u] \in Nat BY <2>2 DEF IsSum
  <2>6. G \in [SUBSET (1 .. y) -> Nat] BY <2>3, <2>4, <2>5
  <2>7. G[{}] = 0 BY <2>2 DEF IsSum
  <2>8. ASSUME NEW u \in SUBSET (1 .. y), NEW x \in u PROVE G[u] = a[x] + G[u \ {x}]
    <3>1. x \in 1 .. n /\ a[x] \in Nat BY <2>1, <2>3
    <3>2. u \ {x} \in SUBSET (1 .. y) OBVIOUS
    <3>3. CASE x = y
      <4>1. G[u] = a[y] + g[u \ {y}] BY <3>3
      <4>2. G[u \ {y}] = g[u \ {y}] BY <3>2, <3>3
      <4>3. QED BY <3>3, <4>1, <4>2
    <3>4. CASE x # y /\ y \notin u
      <4>1. G[u] = g[u] /\ G[u \ {x}] = g[u \ {x}] BY <3>2, <3>4
      <4>2. u \in SUBSET (1 .. m) BY <2>4, <3>4
      <4>3. g[u] = a[x] + g[u \ {x}] BY <2>2, <4>2 DEF IsSum
      <4>4. QED BY <4>1, <4>3
    <3>5. CASE x # y /\ y \in u
      <4> DEFINE t == u \ {y}
      <4>1. t \in SUBSET (1 .. m) /\ x \in t BY <2>4, <3>5
      <4>2. g[t] = a[x] + g[t \ {x}] BY <2>2, <4>1 DEF IsSum
      <4>3. G[u] = a[y] + g[t] BY <3>5
      <4>4. (u \ {x}) \ {y} = t \ {x} OBVIOUS
      <4>5. G[u \ {x}] = a[y] + g[t \ {x}] BY <3>2, <3>5, <4>4
      <4>6. t \ {x} \in SUBSET (1 .. m) BY <4>1
      <4>7. g[t \ {x}] \in Nat /\ g[t] \in Nat BY <2>5, <4>1, <4>6
      <4> HIDE DEF G, t
      <4>8. QED BY <2>3, <3>1, <4>2, <4>3, <4>5, <4>7
    <3>6. QED BY <3>3, <3>4, <3>5
  <2>9. ASSUME NEW u \in SUBSET (1 .. y), NEW t \in SUBSET (1 .. y), u \subseteq t
        PROVE  G[u] <= G[t]
    <3>1. u \ {y} \subseteq t \ {y} BY <2>9
    <3>2. g[u \ {y}] <= g[t \ {y}] BY <2>2, <2>4, <3>1 DEF IsSum
    <3>3. g[u \ {y}] \in Nat /\ g[t \ {y}] \in Nat BY <2>4, <2>5
    <3>4. \A w \in SUBSET (1 .. y) : y \notin w => w \ {y} = w OBVIOUS
    <3>5. G[u] = IF y \in u THEN a[y] + g[u \ {y}] ELSE g[u \ {y}] BY <3>4
    <3>6. G[t] = IF y \in t THEN a[y] + g[t \ {y}] ELSE g[t \ {y}] BY <3>4
    <3> HIDE DEF G
    <3>7. CASE y \in u BY <2>3, <2>9, <3>2, <3>3, <3>5, <3>6, <3>7
    <3>8. CASE y \notin u BY <2>3, <3>2, <3>3, <3>5, <3>6, <3>8
    <3>9. QED BY <3>7, <3>8
  <2> HIDE DEF G
  <2>10. IsSum(G, a, y) BY <2>6, <2>7, <2>8, <2>9 DEF IsSum
  <2>11. QED BY <2>10
<1> HIDE DEF S
<1>3. Nat \subseteq S BY <1>1, <1>2, NatIndSet
<1>4. n \in S BY <1>3
<1>5. QED BY <1>4 DEF S

LEMMA SumIs ==
    ASSUME NEW n \in Nat, NEW a, NEW G, IsSum(G, a, n), NEW I \in SUBSET (1 .. n)
    PROVE  SumFunctionOnSet(a, I) = G[I]
<1> DEFINE F(g) == [u \in SUBSET I |-> IF u = {} THEN 0
                       ELSE a[CHOOSE x \in u : TRUE] + g[u \ {CHOOSE x \in u : TRUE}]]
           iter == CHOOSE g : g = F(g)
           h == [u \in SUBSET I |-> G[u]]
<1>1. SumFunctionOnSet(a, I) = iter[I]
  BY DEF SumFunctionOnSet, FoldFunctionOnSet, MapThenFoldSet
<1>2. h = F(h)
  <2>1. ASSUME NEW u \in SUBSET I
        PROVE  G[u] = IF u = {} THEN 0
                       ELSE a[CHOOSE x \in u : TRUE] + h[u \ {CHOOSE x \in u : TRUE}]
    <3>1. CASE u = {} BY <3>1 DEF IsSum
    <3>2. CASE u # {}
      <4>1. PICK x \in u : x = CHOOSE y \in u : TRUE BY <3>2
      <4>2. G[u] = a[x] + G[u \ {x}] BY DEF IsSum
      <4>3. h[u \ {x}] = G[u \ {x}] OBVIOUS
      <4>4. QED BY <3>2, <4>1, <4>2, <4>3
    <3>3. QED BY <3>1, <3>2
  <2>2. QED BY <2>1
<1> HIDE DEF h
<1>3. iter = F(iter) BY <1>2
<1> HIDE DEF iter
<1> DEFINE Bad == {u \in SUBSET I : iter[u] # G[u]}
           Cards == {Cardinality(u) : u \in Bad}
<1>4. \A u \in SUBSET I : IsFiniteSet(u) /\ Cardinality(u) \in Nat
  <2>1. TAKE u \in SUBSET I
  <2>2. IsFiniteSet(1 .. n) BY FS_Interval
  <2>3. u \in SUBSET (1 .. n) OBVIOUS
  <2>4. IsFiniteSet(u) BY <2>2, <2>3, FS_Subset
  <2>5. QED BY <2>4, FS_CardinalityType
<1>5. SUFFICES ASSUME Bad # {} PROVE FALSE BY <1>1
<1>6. Cards \in SUBSET Nat /\ Cards # {} BY <1>4, <1>5
<1>7. PICK m \in Cards : \A k \in Cards : m <= k BY <1>6, LeastNat
<1>8. PICK u \in Bad : Cardinality(u) = m BY <1>7
<1>9. u # {}
  <2>1. iter[{}] = 0 BY <1>3
  <2>2. G[{}] = 0 BY DEF IsSum
  <2>3. QED BY <1>8, <2>1, <2>2
<1>10. PICK x \in u : x = CHOOSE y \in u : TRUE BY <1>9
<1>11. iter[u] = a[x] + iter[u \ {x}] BY <1>3, <1>8, <1>9, <1>10
<1>12. G[u] = a[x] + G[u \ {x}] BY <1>8 DEF IsSum
<1>13. u \ {x} \in Bad BY <1>8, <1>11, <1>12
<1>14. Cardinality(u \ {x}) = Cardinality(u) - 1 BY <1>4, <1>8, FS_RemoveElement
<1>15. Cardinality(u \ {x}) \in Cards /\ Cardinality(u) \in Nat BY <1>4, <1>8, <1>13
<1> HIDE DEF Cards, Bad
<1>16. QED BY <1>7, <1>8, <1>14, <1>15

\* The sum over no index, over one index more, and over a larger set.
THEOREM SumOfNats ==
    ASSUME NEW n \in Nat, NEW a \in [1 .. n -> Nat], NEW I \in SUBSET (1 .. n)
    PROVE  /\ SumFunctionOnSet(a, I) \in Nat
           /\ SumFunctionOnSet(a, {}) = 0
           /\ \A x \in 1 .. n : x \notin I =>
                 SumFunctionOnSet(a, I \cup {x}) = SumFunctionOnSet(a, I) + a[x]
           /\ \A J \in SUBSET I : SumFunctionOnSet(a, J) <= SumFunctionOnSet(a, I)
<1>1. PICK G : IsSum(G, a, n) BY SumExists
<1>2. \A J \in SUBSET (1 .. n) : SumFunctionOnSet(a, J) = G[J] BY <1>1, SumIs
<1>3. G \in [SUBSET (1 .. n) -> Nat] /\ G[{}] = 0 BY <1>1 DEF IsSum
<1>4. ASSUME NEW x \in 1 .. n, x \notin I
      PROVE  SumFunctionOnSet(a, I \cup {x}) = SumFunctionOnSet(a, I) + a[x]
  <2>1. I \cup {x} \in SUBSET (1 .. n) /\ (I \cup {x}) \ {x} = I BY <1>4
  <2>2. \A J \in SUBSET (1 .. n) : \A y \in J : G[J] = a[y] + G[J \ {y}] BY <1>1 DEF IsSum
  <2>3. x \in I \cup {x} OBVIOUS
  <2>4. G[I \cup {x}] = a[x] + G[I] BY <2>1, <2>2, <2>3
  <2>5. a[x] \in Nat /\ G[I] \in Nat BY <1>3
  <2>6. QED BY <1>2, <2>1, <2>4, <2>5
<1>5. ASSUME NEW J \in SUBSET I PROVE SumFunctionOnSet(a, J) <= SumFunctionOnSet(a, I)
  <2>1. J \in SUBSET (1 .. n) OBVIOUS
  <2>2. G[J] <= G[I] BY <1>1, <2>1 DEF IsSum
  <2>3. QED BY <1>2, <2>1, <2>2
<1>6. QED BY <1>2, <1>3, <1>4, <1>5
-----------------------------------------------------------------------------
\* What the command line holds.
LEMMA JobTyped ==
    ASSUME job \in Jobs
    PROVE  /\ job.fmt \in Bin \cup Aout /\ job.stack \in Nat /\ job.b \in BOOLEAN
           /\ N \in Nat /\ DOMAIN Files = 1..N
           /\ Origin \in Nat /\ HeaderLen \in Nat
           /\ \A f \in 1..N :
                 /\ Files[f] \in Object
                 /\ Files[f].text \in Nat /\ Files[f].data \in Nat /\ Files[f].bss \in Nat
                 /\ SizeOf(f) \in Sizes
                 /\ DOMAIN Files[f].syms = 1..Len(Files[f].syms)
                 /\ Len(Files[f].syms) \in Nat
                 /\ \A k \in DOMAIN Files[f].syms :
                       /\ Files[f].syms[k] \in Global \cup Ref
                       /\ InSection(Files[f].syms[k], Files[f])
<1>1. Files \in Seq(Object) /\ job.fmt \in Bin \cup Aout /\ job.stack \in Nat /\ job.b \in BOOLEAN
  BY LinkerAssumption DEF Files
<1>2. N \in Nat /\ DOMAIN Files = 1..N BY <1>1 DEF N
<1>3. Origin \in Nat /\ HeaderLen \in Nat
  <2>1. Bin = {"com", "sys", "pcboot"} BY DEF Bin
  <2>2. CASE IsBin BY <2>1, <2>2 DEF Origin, HeaderLen, IsBin, BinOffset
  <2>3. CASE ~IsBin BY <2>3 DEF Origin, HeaderLen
  <2>4. QED BY <2>2, <2>3
<1>4. ASSUME NEW f \in 1..N
      PROVE  /\ Files[f] \in Object
             /\ Files[f].text \in Nat /\ Files[f].data \in Nat /\ Files[f].bss \in Nat
             /\ SizeOf(f) \in Sizes
             /\ Files[f].syms \in Seq(Global \cup Ref)
             /\ \A k \in DOMAIN Files[f].syms : InSection(Files[f].syms[k], Files[f])
  <2>1. Files[f] \in Object BY <1>1, <1>2
  <2>2. /\ Files[f].text \in Nat /\ Files[f].data \in Nat /\ Files[f].bss \in Nat
        /\ Files[f].syms \in Seq(Global \cup Ref)
    BY <2>1 DEF Object
  <2>3. SizeOf(f) \in Sizes BY <2>2 DEF SizeOf, Sizes, Segments
  <2>4. \A k \in DOMAIN Files[f].syms : InSection(Files[f].syms[k], Files[f])
    BY <1>2, LinkerAssumption DEF Files
  <2>5. QED BY <2>1, <2>2, <2>3, <2>4
<1>5. QED BY <1>1, <1>2, <1>3, <1>4

\* The fields of a symbol.
LEMMA SymTyped ==
    ASSUME NEW e \in Global \cup Ref
    PROVE  /\ e.kind \in {"global", "ref"} /\ e.name \in Names
           /\ e.seg \in Segments /\ e.off \in Nat
           /\ e.kind = "global" => e \in Global /\ e.name \notin LinkerNames
           /\ e.kind = "ref" => e \in Ref /\ e.disp \in Int /\ e.addend \in Int
                                /\ e.rel \in {"abs", "rel16", "rel8"}
<1>1. CASE e \in Global BY <1>1 DEF Global
<1>2. CASE e \in Ref BY <1>2 DEF Ref
<1>3. QED BY <1>1, <1>2

\* The first file that defines a name.
LEMMA FirstDefIs ==
    ASSUME job \in Jobs, NEW n, DefinedIn(n) # {}
    PROVE  /\ FirstDef(n) \in DefinedIn(n) /\ FirstDef(n) \in 1..N
           /\ \A f \in DefinedIn(n) : FirstDef(n) <= f
<1>1. DefinedIn(n) \in SUBSET Nat /\ DefinedIn(n) \subseteq 1..N BY JobTyped DEF DefinedIn
<1>2. \E m \in DefinedIn(n) : \A k \in DefinedIn(n) : m <= k BY <1>1, LeastNat
<1>3. QED BY <1>1, <1>2 DEF FirstDef, Min

\* A symbol that defines a name is in a file that does.
LEMMA DefinedHere ==
    ASSUME NEW f \in 1..N, NEW k \in DOMAIN Files[f].syms, Files[f].syms[k].kind = "global"
    PROVE  f \in DefinedIn(Files[f].syms[k].name)
BY DEF DefinedIn
-----------------------------------------------------------------------------
\* What some files have in a segment.
LEMMA Totals ==
    ASSUME job \in Jobs, NEW seg \in Segments, NEW fs \in SUBSET (1..N)
    PROVE  /\ Total(seg, fs) \in Nat
           /\ Total(seg, {}) = 0
           /\ \A f \in 1..N : f \notin fs =>
                 Total(seg, fs \cup {f}) = Total(seg, fs) + Files[f][seg]
           /\ \A gs \in SUBSET fs : Total(seg, gs) <= Total(seg, fs)
<1>1. N \in Nat BY JobTyped
<1>2. Length(seg) \in [1..N -> Nat] BY JobTyped DEF Length, Segments
<1>3. \A f \in 1..N : Length(seg)[f] = Files[f][seg] BY DEF Length
<1>4. /\ SumFunctionOnSet(Length(seg), fs) \in Nat
      /\ SumFunctionOnSet(Length(seg), {}) = 0
      /\ \A f \in 1..N : f \notin fs =>
             SumFunctionOnSet(Length(seg), fs \cup {f})
                = SumFunctionOnSet(Length(seg), fs) + Length(seg)[f]
      /\ \A gs \in SUBSET fs : SumFunctionOnSet(Length(seg), gs)
                               <= SumFunctionOnSet(Length(seg), fs)
  BY <1>1, <1>2, SumOfNats
<1>5. QED BY <1>3, <1>4, Zenon DEF Total

LEMMA TotalsTyped ==
    ASSUME job \in Jobs, included \subseteq 1..N
    PROVE  /\ TextLen \in Nat /\ DataLen \in Nat /\ BssLen \in Nat
           /\ \A seg \in Segments, f \in Int :
                /\ Total(seg, Below(f)) \in Nat
                /\ Total(seg, Below(f)) <= Total(seg, included)
<1>1. \A f \in Int : Below(f) \in SUBSET included BY DEF Below
<1>2. \A seg \in Segments, f \in Int :
         /\ Total(seg, included) \in Nat
         /\ Total(seg, Below(f)) \in Nat
         /\ Total(seg, Below(f)) <= Total(seg, included)
  BY <1>1, Totals
<1>3. job.stack \in Nat BY JobTyped
<1>4. QED BY <1>2, <1>3 DEF TextLen, DataLen, BssLen, Segments

\* The files before the cursor, when it moves.
LEMMA BelowMoves ==
    ASSUME job \in Jobs, included \subseteq 1..N
    PROVE  /\ Below(1) = {}
           /\ \A f \in 1..N : f \notin included => Below(f + 1) = Below(f)
           /\ \A f \in 1..N : f \in included => Below(f + 1) = Below(f) \cup {f}
           /\ \A f \in 1..N : f \notin Below(f)
           /\ Below(N + 1) = included
<1>1. N \in Nat BY JobTyped
<1>2. Below(1) = {}
  <2>1. \A g \in 1..N : ~(g < 1) BY <1>1
  <2>2. QED BY <2>1, Zenon DEF Below
<1>3. ASSUME NEW f \in 1..N, f \notin included PROVE Below(f + 1) = Below(f)
  <2>1. \A g \in included : g < f + 1 <=> g < f BY <1>3
  <2>2. QED BY <2>1, Zenon DEF Below
<1>4. ASSUME NEW f \in 1..N, f \in included PROVE Below(f + 1) = Below(f) \cup {f}
  <2>1. \A g \in included : g < f + 1 <=> (g < f \/ g = f) OBVIOUS
  <2>2. \A g : g \in Below(f + 1) <=> g \in Below(f) \cup {f} BY <1>4, <2>1, Zenon DEF Below
  <2>3. QED BY <2>2, Zenon
<1>5. \A f \in 1..N : f \notin Below(f) BY DEF Below
<1>6. Below(N + 1) = included
  <2>1. \A g \in included : g < N + 1 BY <1>1
  <2>2. QED BY <2>1, Zenon DEF Below
<1>7. QED BY <1>2, <1>3, <1>4, <1>5, <1>6
-----------------------------------------------------------------------------
\* No step changes the command line, nor what follows from it.
LEMMA SameJob ==
    ASSUME [Next]_vars
    PROVE  /\ job' = job /\ Files' = Files /\ N' = N /\ Origin' = Origin
           /\ IsBin' = IsBin /\ HeaderLen' = HeaderLen
           /\ \A n : DefinedIn(n)' = DefinedIn(n) /\ FirstDef(n)' = FirstDef(n)
           /\ Referenced' = Referenced /\ Wanted' = Wanted
<1>1. job' = job
  <2>1. CASE UNCHANGED vars BY <2>1 DEF vars
  <2>2. CASE NoEntry \/ Entry BY <2>2 DEF NoEntry, Entry
  <2>3. CASE TreeNextFile \/ TreeReturn \/ TreeGlobal \/ TreeRef \/ TreeNotFound \/ NamesOverflow
    BY <2>3 DEF TreeNextFile, TreeReturn, TreeGlobal, TreeRef, TreeNotFound, NamesOverflow
  <2>4. CASE SkipFile \/ AddSizes BY <2>4 DEF SkipFile, AddSizes
  <2>5. CASE Layout \/ SeekData \/ AfterData BY <2>5 DEF Layout, SeekData, AfterData
  <2>6. CASE Copy("text") \/ Copy("data") BY <2>6 DEF Copy
  <2>7. CASE NextObject \/ SetValue BY <2>7 DEF NextObject, SetValue
  <2>8. CASE Relocate \/ Finish BY <2>8 DEF Relocate, Finish
  <2>9. QED BY <2>1, <2>2, <2>3, <2>4, <2>5, <2>6, <2>7, <2>8 DEF Next, Link
<1>2. Files' = Files /\ N' = N /\ IsBin' = IsBin BY <1>1 DEF Files, N, IsBin
<1>3. Origin' = Origin /\ HeaderLen' = HeaderLen BY <1>1, <1>2 DEF Origin, HeaderLen
<1>4. \A n : DefinedIn(n)' = DefinedIn(n) BY <1>2 DEF DefinedIn
<1>5. \A n : FirstDef(n)' = FirstDef(n) BY <1>4 DEF FirstDef
<1>6. Referenced' = Referenced BY <1>2 DEF Referenced, Refs
<1>7. QED BY <1>1, <1>2, <1>3, <1>4, <1>5, <1>6 DEF Wanted

LEMMA ShapeInit == Init => Shape
<1> SUFFICES ASSUME Init PROVE Shape OBVIOUS
<1>1. job \in Jobs BY DEF Init
<1>2. N \in Nat BY <1>1, JobTyped
<1>3. TypeOK
  <2>1. where \in [Names -> {ABSENT, NOFILE} \cup 1..N] /\ value \in [Names -> Nat]
    BY DEF Init
  <2>2. aout \in Sizes /\ off \in Sizes BY DEF Init, Sizes, Zero, Segments
  <2>3. \A i \in DOMAIN stack : stack[i].lib \in 1 .. N + 1 /\ stack[i].s \in Nat \ {0}
    BY DEF Init
  <2>4. QED BY <1>1, <2>1, <2>2, <2>3 DEF Init, TypeOK
<1>4. stack \in Seq(Cursor) BY EmptySeq DEF Init
<1>5. Known = {} BY DEF Init, Known
<1>6. QED BY <1>3, <1>4, <1>5 DEF Init, Shape, Loops

\* The walks of make_symbol_tree().
LEMMA FrameTyped ==
    ASSUME Shape, pc = "tree"
    PROVE  /\ Len(stack) \in Nat \ {0} /\ Frame \in Cursor
           /\ Frame.lib \in 1 .. N + 1 /\ Frame.s \in Nat \ {0}
           /\ InFile => Frame.lib \in 1..N /\ Frame.s \in DOMAIN Files[Frame.lib].syms
                        /\ Cur \in Global \cup Ref
<1>1. stack \in Seq(Cursor) /\ stack # <<>> /\ job \in Jobs BY DEF Shape, TypeOK
<1>2. Len(stack) \in Nat \ {0} /\ Len(stack) \in DOMAIN stack BY <1>1, EmptySeq, LenProperties
<1>3. Frame \in Cursor BY <1>1, <1>2, ElementOfSeq, LenProperties DEF Frame
<1>4. Frame.lib \in 1 .. N + 1 /\ Frame.s \in Nat \ {0}
  BY <1>2 DEF Shape, TypeOK, Frame
<1>5. ASSUME InFile
      PROVE  Frame.lib \in 1..N /\ Frame.s \in DOMAIN Files[Frame.lib].syms
  BY <1>1, <1>4, <1>5, JobTyped DEF InFile
<1>6. InFile => Cur \in Global \cup Ref BY <1>1, <1>5, JobTyped DEF Cur
<1>7. QED BY <1>2, <1>3, <1>4, <1>5, <1>6

LEMMA Stepped ==
    ASSUME Shape, pc = "tree", InFile
    PROVE  /\ Step(stack) \in Seq(Cursor) /\ Len(Step(stack)) = Len(stack)
           /\ Step(stack) # <<>>
           /\ \A i \in DOMAIN stack : Step(stack)[i] =
                 IF i = Len(stack) THEN [lib |-> Frame.lib, s |-> Frame.s + 1] ELSE stack[i]
<1>1. stack \in Seq(Cursor) BY DEF Shape
<1>2. Len(stack) \in Nat \ {0} /\ Frame \in Cursor BY FrameTyped
<1>3. [lib |-> Frame.lib, s |-> Frame.s + 1] \in Cursor BY <1>2 DEF Cursor
<1>4. [Frame EXCEPT !.s = @ + 1] = [lib |-> Frame.lib, s |-> Frame.s + 1] BY <1>2 DEF Cursor
<1>5. Step(stack) = [stack EXCEPT ![Len(stack)] = [Frame EXCEPT !.s = @ + 1]] BY DEF Step, Frame
<1>6. Step(stack) = [stack EXCEPT ![Len(stack)] = [lib |-> Frame.lib, s |-> Frame.s + 1]]
  BY <1>4, <1>5, Zenon
<1>7. QED BY <1>1, <1>2, <1>3, <1>6, ExceptSeq, LenProperties, EmptySeq

LEMMA CursorsIn ==
    ASSUME NEW st \in Seq(Cursor)
    PROVE  \A i \in DOMAIN st : st[i].lib \in 1 .. N + 1 /\ st[i].s \in Nat \ {0}
<1>1. \A i \in DOMAIN st : st[i] \in Cursor BY ElementOfSeq, LenProperties
<1>2. QED BY <1>1 DEF Cursor

LEMMA OneLess ==
    ASSUME NEW l \in Nat \ {0}, NEW m, m = IF 1 <= l - 1 THEN l - 1 - 1 + 1 ELSE 0
    PROVE  m = l - 1
OBVIOUS

LEMMA ExceptTyped ==
    ASSUME NEW A, NEW B, NEW f \in [A -> B], NEW x, NEW y \in B
    PROVE  [f EXCEPT ![x] = y] \in [A -> B]
BY Zenon

LEMMA NextFileShape ==
    ASSUME Shape, pc \in Loops, NextFile, N' = N
    PROVE  /\ lib' \in 1..N /\ s' = 1 /\ pc' = (IF lib < N THEN pc ELSE Following[pc])
           /\ pc' \in {"sizes", "layout", "text", "datapos", "data", "tail", "values", "reloc", "finish"}
           /\ pc' \notin Loops => lib' = 1
           /\ pc' \in {"values", "reloc"} => pc \in {"values", "reloc"}
<1>1. lib \in 1..N /\ N \in Nat BY JobTyped DEF Shape, TypeOK
<1>2. lib' \in 1..N /\ s' = 1 /\ pc' = (IF lib < N THEN pc ELSE Following[pc])
  BY <1>1 DEF NextFile
<1>3. CASE lib < N BY <1>2, <1>3 DEF Loops
<1>4. CASE ~(lib < N) BY <1>2, <1>4 DEF NextFile, Loops, Following
<1>5. QED BY <1>2, <1>3, <1>4

\* Offsets stay where the section they belong to may start.
LEMMA StartsTyped ==
    ASSUME Shape
    PROVE  Starts \in Sizes /\ Starts.text >= Origin /\ Starts.data >= Origin
<1>1. /\ job \in Jobs /\ value \in [Names -> Nat] /\ aout \in Sizes
      /\ {"__etext", "__edata"} \subseteq Names
  BY LinkerAssumption DEF Shape, TypeOK, LinkerNames
<1>2. Origin \in Nat /\ JumpLen \in Nat BY <1>1, JobTyped DEF JumpLen
<1>3. value["__etext"] \in Nat /\ value["__edata"] \in Nat BY <1>1
<1>4. aout.text \in Nat /\ aout.data \in Nat BY <1>1 DEF Sizes, Segments
<1>5. CASE IsBin
  <2>a. job.fmt # "v7tiny" BY <1>5 DEF IsBin, Bin
  <2>1. Starts = [text |-> Origin + JumpLen, data |-> Origin + value["__etext"],
                  bss |-> Origin + value["__edata"]]
    BY <1>5, <2>a DEF Starts
  <2>2. QED BY <1>2, <1>3, <2>1 DEF Sizes, Segments
<1>6. CASE ~IsBin
  <2>1. Starts = IF job.fmt = "v7tiny"
                 THEN [text |-> 0, data |-> aout.text, bss |-> aout.data + aout.text]
                 ELSE [text |-> 0, data |-> 0, bss |-> aout.data]
    BY <1>6 DEF Starts
  <2>2. Origin = 0 BY <1>6 DEF Origin
  <2>3. QED BY <1>4, <2>1, <2>2 DEF Sizes, Segments
<1>7. QED BY <1>5, <1>6

LEMMA PlusTyped ==
    ASSUME NEW x \in Sizes, NEW y \in Sizes
    PROVE  /\ Plus(x, y) \in Sizes
           /\ \A seg \in Segments : Plus(x, y)[seg] = x[seg] + y[seg]
BY DEF Plus, Sizes

LEMMA ShapeFacts ==
    ASSUME Shape
    PROVE  /\ job \in Jobs /\ where \in [Names -> {ABSENT, NOFILE} \cup 1..N]
           /\ value \in [Names -> Nat] /\ included \subseteq 1..N
           /\ off \in Sizes /\ aout \in Sizes /\ total \in Nat /\ at \in Nat
           /\ stack \in Seq(Cursor)
BY DEF Shape, TypeOK

LEMMA SizesTyped ==
    ASSUME NEW x \in Sizes
    PROVE  x.text \in Nat /\ x.data \in Nat /\ x.bss \in Nat
BY DEF Sizes, Segments

LEMMA JobNumbers ==
    ASSUME job \in Jobs
    PROVE  /\ N \in Nat /\ Origin \in Nat /\ HeaderLen \in Nat /\ job.stack \in Nat
           /\ \A f \in 1..N : SizeOf(f) \in Sizes /\ Files[f].text \in Nat
                              /\ Files[f].data \in Nat /\ Files[f].bss \in Nat
BY JobTyped

LEMMA LinkersNames ==
    /\ LinkerNames \subseteq Names /\ "_start" \in Names
    /\ "__segoff" \in Names /\ "__etext" \in Names /\ "__edata" \in Names /\ "__end" \in Names
BY LinkerAssumption DEF LinkerNames

\* The assignments to _symbols.
LEMMA Sum3Is ==
    ASSUME value \in [Names -> Nat], job \in Jobs, lib \in 1..N
    PROVE  /\ Sum3 \in [Names -> Nat]
           /\ Sum3["__etext"] = value["__etext"] + Files[lib].text
           /\ Sum3["__edata"] = value["__edata"] + Files[lib].data
           /\ Sum3["__end"] = value["__end"] + Files[lib].bss
           /\ Sum3["__segoff"] = value["__segoff"]
<1> DEFINE t == value["__etext"] + Files[lib].text
           d == value["__edata"] + Files[lib].data
           b == value["__end"] + Files[lib].bss
<1>1. t \in Nat /\ d \in Nat /\ b \in Nat BY JobNumbers, LinkersNames
<1>2. Sum3 = [value EXCEPT !["__etext"] = t, !["__edata"] = d, !["__end"] = b]
  BY LinkersNames DEF Sum3
<1> HIDE DEF t, d, b
<1>3. QED BY <1>1, <1>2, LinkersNames DEF t, d, b

LEMMA LaidOutBinIs ==
    ASSUME value \in [Names -> Nat], LayoutBin
    PROVE  /\ value' \in [Names -> Nat]
           /\ value'["__etext"] = value["__etext"]
           /\ value'["__edata"] = value["__edata"] + value["__etext"]
           /\ value'["__end"] = value["__end"] + value["__edata"] + value["__etext"]
           /\ value'["__segoff"] = value["__segoff"]
<1> DEFINE d == value["__edata"] + value["__etext"]
           b == value["__end"] + d
<1>1. value' = [value EXCEPT !["__edata"] = d, !["__end"] = b]
  BY LinkersNames DEF LayoutBin
<1>2. d \in Nat /\ b \in Nat BY LinkersNames
<1>3. b = value["__end"] + value["__edata"] + value["__etext"] BY LinkersNames
<1> HIDE DEF b, d
<1>4. QED BY <1>1, <1>2, <1>3, LinkersNames DEF d

LEMMA LaidOutAoutIs ==
    ASSUME value \in [Names -> Nat], LayoutAout
    PROVE  /\ Rounded \in Sizes /\ aout' = Rounded
           /\ value' \in [Names -> Nat]
           /\ value'["__segoff"] = Rounded.text \div 16
           /\ value'["__etext"] = Rounded.text
           /\ value'["__edata"] = IF job.fmt = "v7tiny" THEN Rounded.text + Rounded.data
                                  ELSE Rounded.data
           /\ value'["__end"] = value'["__edata"] + Rounded.bss
<1> DEFINE d == IF job.fmt = "v7tiny" THEN Rounded.text + Rounded.data ELSE Rounded.data
           g == Rounded.text \div 16
           x == Rounded.text
           b == d + Rounded.bss
<1>1. \A n \in Nat : Round16(n) \in Nat BY DEF Round16
<1>2. value["__etext"] \in Nat /\ value["__edata"] \in Nat /\ value["__end"] \in Nat
  BY LinkersNames
<1>3. Rounded \in Sizes BY <1>1, <1>2 DEF Rounded, Sizes, Segments
<1>4. Rounded.text \in Nat /\ Rounded.data \in Nat /\ Rounded.bss \in Nat BY <1>3, SizesTyped
<1>5. /\ aout' = Rounded
      /\ value' = [value EXCEPT !["__segoff"] = g, !["__etext"] = x, !["__edata"] = d, !["__end"] = b]
  BY DEF LayoutAout
<1>6. g \in Nat /\ x \in Nat /\ d \in Nat /\ b \in Nat BY <1>4
<1>7. b = d + Rounded.bss OBVIOUS
<1> HIDE DEF g, x, d, b
<1>8. /\ value' \in [Names -> Nat]
      /\ value'["__segoff"] = g /\ value'["__etext"] = x /\ value'["__edata"] = d
      /\ value'["__end"] = b
  BY <1>5, <1>6, LinkersNames
<1>9. QED BY <1>3, <1>5, <1>7, <1>8 DEF g, x, d

LEMMA ShapeNext ==
    ASSUME Shape, [Next]_vars
    PROVE  Shape'
<1>1. job' = job /\ N' = N /\ Origin' = Origin /\ IsBin' = IsBin BY SameJob
<1>b. Cursor' = Cursor BY <1>1, Zenon DEF Cursor
<1>2. /\ job \in Jobs /\ where \in [Names -> {ABSENT, NOFILE} \cup 1..N]
      /\ value \in [Names -> Nat] /\ included \subseteq 1..N
      /\ off \in Sizes /\ aout \in Sizes /\ total \in Nat /\ at \in Nat
      /\ stack \in Seq(Cursor)
  BY ShapeFacts
<1>3. /\ N \in Nat /\ Origin \in Nat /\ HeaderLen \in Nat /\ job.stack \in Nat
      /\ \A f \in 1..N : SizeOf(f) \in Sizes /\ Files[f].text \in Nat
                         /\ Files[f].data \in Nat /\ Files[f].bss \in Nat
  BY <1>2, JobNumbers
<1>4. /\ off.text \in Nat /\ off.data \in Nat /\ off.bss \in Nat
      /\ aout.text \in Nat /\ aout.data \in Nat /\ aout.bss \in Nat
  BY <1>2, SizesTyped
<1>5. \A i \in DOMAIN stack : stack[i].lib \in 1 .. N + 1 /\ stack[i].s \in Nat \ {0}
  BY DEF Shape, TypeOK
<1>6. pc \notin {"entry", "failed"} => 1 \in 1..N
  <2>1. SUFFICES ASSUME pc \notin {"entry", "failed"} PROVE 1 \in 1..N OBVIOUS
  <2>a. included # {} BY <2>1 DEF Shape
  <2>b. included \subseteq 1..N BY <1>2
  <2>2. PICK f \in included : f \in 1..N BY <2>a, <2>b, Zenon
  <2>3. QED BY <1>3, <2>2
<1>7. ASSUME NEW f \in 1..N PROVE 0 <= f /\ f # 0 /\ f \in Nat BY <1>3
<1>8. CASE NoEntry BY <1>1, <1>b, <1>8 DEF Known, Shape, TypeOK, NoEntry, Fail, Loops, symtab, output
<1>9. CASE UNCHANGED vars BY <1>1, <1>b, <1>9 DEF Known, Shape, TypeOK, vars, symtab, output
<1>10. CASE Entry
  <2>1. DefinedIn("_start") # {}
    <3>1. Findable("_start") /\ Known = {} BY <1>10 DEF Entry, Shape
    <3>2. QED BY <3>1 DEF Findable
  <2>2. FirstDef("_start") \in 1..N BY <1>2, <2>1, FirstDefIs
  <2>3. where' \in [Names -> {ABSENT, NOFILE} \cup 1..N] BY <1>10, <2>2 DEF Entry
  <2>c. /\ [value EXCEPT !["__end"] = job.stack] \in [Names -> Nat]
        /\ (IF IsBin THEN JumpLen ELSE 0) \in Nat
    BY <1>2, <1>3, ExceptTyped DEF JumpLen
  <2>4. value' \in [Names -> Nat] BY <1>10, <2>c, ExceptTyped DEF Entry
  <2>b. stack' = <<[lib |-> 1, s |-> 1]>> BY <1>10 DEF Entry
  <2>5. stack' \in Seq(Cursor) /\ stack' # <<>>
    <3>1. [lib |-> 1, s |-> 1] \in Cursor BY <1>3 DEF Cursor
    <3>2. QED BY <2>b, <3>1
  <2>6. \A i \in DOMAIN stack' : stack'[i].lib \in 1 .. N + 1 /\ stack'[i].s \in Nat \ {0}
    BY <2>5, CursorsIn
  <2>a. pieces' = pieces /\ pieces = {}
    <3>1. pieces' = pieces /\ pc = "entry" BY <1>10 DEF Entry, output
    <3>2. included = {} BY <3>1 DEF Shape
    <3>3. \A x \in pieces : x.file \in included BY DEF Shape, TypeOK
    <3>4. QED BY <3>1, <3>2, <3>3
  <2>7. QED BY <2>a, <1>1, <1>b, <1>3, <1>10, <2>2, <2>3, <2>4, <2>5, <2>6 DEF Shape, TypeOK, Entry, Loops, output
<1>11. CASE TreeNextFile
  <2>1. pc = "tree" /\ Frame.lib <= N /\ Frame \in Cursor
    BY <1>11, FrameTyped DEF TreeNextFile
  <2>2. Len(stack) \in Nat \ {0} /\ Frame.lib \in 1 .. N + 1 BY <2>1, FrameTyped
  <2>3. stack' = [stack EXCEPT ![Len(stack)] = [lib |-> Frame.lib + 1, s |-> 1]]
    BY <1>11 DEF TreeNextFile, Frame
  <2>4. [lib |-> Frame.lib + 1, s |-> 1] \in Cursor BY <1>3, <2>1, <2>2 DEF Cursor
  <2>5. stack' \in Seq(Cursor) /\ Len(stack') = Len(stack)
    BY <1>2, <2>2, <2>3, <2>4, ExceptSeq
  <2>6. \A i \in DOMAIN stack' : stack'[i].lib \in 1 .. N + 1 /\ stack'[i].s \in Nat \ {0}
    BY <2>5, CursorsIn
  <2>7. stack' # <<>> BY <2>2, <2>5, EmptySeq
  <2>8. QED BY <1>1, <1>b, <1>11, <2>5, <2>6, <2>7 DEF Shape, TypeOK, TreeNextFile, Loops, symtab, output, Known
<1>12. CASE TreeReturn
  <2>1. Len(stack) \in Nat \ {0} BY <1>12, FrameTyped DEF TreeReturn
  <2>a. \A i \in 1 .. Len(stack) - 1 : stack[i] \in Cursor BY <1>2, <2>1, ElementOfSeq
  <2>2. stack' \in Seq(Cursor) /\ Len(stack') = Len(stack) - 1
    <3> DEFINE r == SubSeq(stack, 1, Len(stack) - 1)
    <3>1. stack' = r BY <1>12 DEF TreeReturn
    <3>2. Len(stack) - 1 \in Int /\ 1 \in Int BY <2>1
    <3>3. r \in Seq(Cursor) /\ Len(r) = IF 1 <= Len(stack) - 1 THEN Len(stack) - 1 - 1 + 1 ELSE 0
      BY <2>a, <3>2, SubSeqProperties
    <3> HIDE DEF r
    <3>a. Len(r) = IF 1 <= Len(stack) - 1 THEN Len(stack) - 1 - 1 + 1 ELSE 0 BY <3>3, Zenon
    <3>4. Len(r) = Len(stack) - 1 BY <2>1, <3>a, OneLess, Zenon
    <3>5. QED BY <3>1, <3>3, <3>4, Zenon
  <2>3. Len(stack) # 1 => stack' # <<>> BY <2>1, <2>2
  <2>4. \A i \in DOMAIN stack' : stack'[i].lib \in 1 .. N + 1 /\ stack'[i].s \in Nat \ {0}
    BY <2>2, CursorsIn
  <2>5. 1 \in 1..N BY <1>6, <1>12 DEF TreeReturn
  <2>6. QED
    BY <1>1, <1>b, <1>12, <2>2, <2>3, <2>4, <2>5 DEF Shape, TypeOK, TreeReturn, Loops, symtab, output, Known
<1>13. ASSUME pc = "tree", InFile
       PROVE  /\ Step(stack) \in Seq(Cursor) /\ Step(stack) # <<>>
              /\ \A i \in DOMAIN Step(stack) :
                    Step(stack)[i].lib \in 1 .. N + 1 /\ Step(stack)[i].s \in Nat \ {0}
  <2>1. Step(stack) \in Seq(Cursor) /\ Step(stack) # <<>> BY <1>13, Stepped
  <2>2. QED BY <2>1, CursorsIn
<1>14. CASE TreeGlobal
  <2>1. pc = "tree" /\ InFile /\ stack' = Step(stack) BY <1>14 DEF TreeGlobal
  <2>2. Frame.lib \in 1..N BY <2>1, FrameTyped
  <2>3. where' \in [Names -> {ABSENT, NOFILE} \cup 1..N]
    BY <1>2, <1>14, <2>2, ExceptTyped DEF TreeGlobal
  <2>4. QED BY <1>1, <1>b, <1>13, <1>14, <2>1, <2>3 DEF Shape, TypeOK, TreeGlobal, Loops, output
<1>15. CASE TreeRef
  <2> DEFINE f == FileOf(Cur.name)
             new == [lib |-> 1, s |-> 1]
             more == Append(Step(stack), new)
  <2>1. pc = "tree" /\ InFile /\ Findable(Cur.name) BY <1>15 DEF TreeRef
  <2>2. Cur.name \in Names BY <2>1, FrameTyped, SymTyped
  <2>3. f \in {NOFILE} \cup 1..N
    <3>1. CASE Cur.name \in Known
      <4>1. where[Cur.name] \in {ABSENT, NOFILE} \cup 1..N BY <1>2, <2>2
      <4>2. QED BY <3>1, <4>1 DEF FileOf, Known
    <3>2. CASE Cur.name \notin Known
      <4>1. DefinedIn(Cur.name) # {} BY <2>1, <3>2 DEF Findable
      <4>2. QED BY <1>2, <3>2, <4>1, FirstDefIs DEF FileOf
    <3>3. QED BY <3>1, <3>2
  <2>4. where' \in [Names -> {ABSENT, NOFILE} \cup 1..N]
    <3>1. where' = [where EXCEPT ![Cur.name] = f] BY <1>15 DEF TreeRef
    <3>2. f \in {ABSENT, NOFILE} \cup 1..N BY <2>3
    <3> HIDE DEF f
    <3>3. QED BY <1>2, <3>1, <3>2, ExceptTyped
  <2>5. new \in Cursor BY <1>3 DEF Cursor
  <2>6. more \in Seq(Cursor) /\ Len(more) # 0 BY <1>13, <2>1, <2>5
  <2> HIDE DEF more
  <2>7. \A i \in DOMAIN more : more[i].lib \in 1 .. N + 1 /\ more[i].s \in Nat \ {0}
    BY <2>6, CursorsIn
  <2>8. more # <<>> BY <2>6, EmptySeq
  <2>9. /\ stack' \in {Step(stack), more} /\ included' \in {included, included \cup {f}}
        /\ f = NOFILE => included' = included
    BY <1>15 DEF TreeRef, more
  <2> HIDE DEF f
  <2>10. /\ stack' \in Seq(Cursor) /\ stack' # <<>>
         /\ \A i \in DOMAIN stack' : stack'[i].lib \in 1 .. N + 1 /\ stack'[i].s \in Nat \ {0}
    BY <1>13, <2>1, <2>6, <2>7, <2>8, <2>9
  <2>11. included \subseteq included' /\ included' \subseteq 1..N BY <1>2, <2>3, <2>9
  <2>12. QED BY <1>1, <1>b, <1>15, <2>4, <2>10, <2>11 DEF Shape, TypeOK, TreeRef, Loops, output
<1>16. CASE TreeNotFound
  BY <1>1, <1>b, <1>16 DEF Shape, TypeOK, TreeNotFound, Fail, Loops, symtab, output, Known
<1>16n. CASE NamesOverflow
  <2>1. pc' = "failed" /\ out' = "removed" BY <1>16n DEF NamesOverflow, Fail
  <2>2. QED
    BY <1>1, <1>b, <1>16n, <2>1 DEF Shape, TypeOK, NamesOverflow, Loops, symtab, output, Known
<1>17. CASE SkipFile
  <2>1. pc \in Loops /\ NextFile BY <1>17 DEF SkipFile, Loops
  <2>2. QED BY <1>1, <1>b, <1>17, <2>1, NextFileShape DEF Shape, TypeOK, SkipFile, Loops, symtab, output, Known
<1>18. CASE AddSizes
  <2>1. pc \in Loops /\ lib \in included /\ lib \in 1..N BY <1>2, <1>18 DEF AddSizes, Loops
  <2>2. Files[lib].text \in Nat /\ Files[lib].data \in Nat /\ Files[lib].bss \in Nat
    BY <1>3, <2>1
  <2>6. Sum3 \in [Names -> Nat] BY <1>2, <2>1, Sum3Is
  <2>7. Sum3["__etext"] \in Nat /\ Sum3["__edata"] \in Nat /\ Sum3["__end"] \in Nat
    BY <2>6, LinkersNames
  <2>8. value' \in [Names -> Nat] BY <1>18, <2>6 DEF AddSizes
  <2>9. total' \in Nat BY SMTT(40), <1>2, <1>18, <2>7 DEF AddSizes, SizeOfBin
  <2>10. CASE Overflows
    BY <1>1, <1>b, <1>18, <2>8, <2>9, <2>10 DEF Shape, TypeOK, AddSizes, Fail, Loops, output, Known
  <2>11. CASE ~Overflows
    <3>1. NextFile BY <1>18, <2>11 DEF AddSizes
    <3>2. QED
      BY <1>1, <1>b, <1>18, <2>1, <2>8, <2>9, <2>11, <3>1, NextFileShape
      DEF Shape, TypeOK, AddSizes, Loops, output, Known
  <2>12. QED BY <2>10, <2>11
<1>19. CASE Layout
  <2>3. value' \in [Names -> Nat] /\ aout' \in Sizes
    <3>1. CASE LayoutBin
      <4>1. value' \in [Names -> Nat] BY <1>2, <3>1, LaidOutBinIs
      <4>2. aout' = aout BY <3>1 DEF LayoutBin
      <4>3. QED BY <1>2, <4>1, <4>2
    <3>2. CASE LayoutAout BY <1>2, <3>2, LaidOutAoutIs
    <3>3. LayoutBin \/ LayoutAout BY <1>19 DEF Layout
    <3>4. QED BY <3>1, <3>2, <3>3
  <2>4. pc = "layout" BY <1>19 DEF Layout, LayoutBin, LayoutAout
  <2>5. 1 \in 1..N BY <1>6, <2>4
  <2>6. QED
    BY <1>1, <1>b, <1>3, <1>19, <2>3, <2>4, <2>5 DEF Shape, TypeOK, Layout, Loops, Known
<1>20. ASSUME NEW seg \in {"text", "data"}, Copy(seg) PROVE Shape'
  <2>1. pc \in Loops /\ lib \in included /\ lib \in 1..N BY <1>2, <1>20 DEF Copy, Loops
  <2>2. SizeOf(lib)[seg] \in Nat BY <1>3, <2>1 DEF Sizes, Segments
  <2>3. at' \in Nat BY <1>2, <1>20, <2>2 DEF Copy
  <2>4. \A x \in pieces : x.file \in included /\ x.pos \in Nat /\ x.len \in Nat
    BY DEF Shape, TypeOK
  <2>5. \A x \in pieces' : x.file \in included /\ x.pos \in Nat /\ x.len \in Nat
    BY <1>2, <1>20, <2>1, <2>2, <2>4 DEF Copy
  <2>6. NextFile BY <1>20 DEF Copy
  <2>7. QED
    BY SMTT(40), <1>1, <1>b, <1>20, <2>1, <2>3, <2>5, <2>6, NextFileShape DEF Shape, TypeOK, Copy, Loops, symtab, Known
<1>21. CASE SeekData
  <2>1. at' \in Nat BY SMTT(40), <1>2, <1>3, <1>4, <1>21 DEF SeekData
  <2>2. 1 \in 1..N BY <1>6, <1>21 DEF SeekData
  <2>3. QED BY <1>1, <1>b, <1>21, <2>1, <2>2 DEF Shape, TypeOK, SeekData, Loops, symtab, Known
<1>22. CASE AfterData
  <2>a. (IF job.b THEN aout.bss ELSE 0) \in Nat BY <1>4
  <2>b. at' = IF IsBin THEN (IF job.b THEN at + 1 ELSE at)
              ELSE HeaderLen + aout.text + aout.data + (IF job.b THEN aout.bss ELSE 0) + 10
    BY <1>22 DEF AfterData
  <2>c. at \in Nat /\ at + 1 \in Nat BY <1>2
  <2>d. HeaderLen + aout.text + aout.data + (IF job.b THEN aout.bss ELSE 0) + 10 \in Nat
    BY <1>3, <1>4, <2>a
  <2>1. at' \in Nat BY <2>b, <2>c, <2>d
  <2>2. 1 \in 1..N BY <1>6, <1>22 DEF AfterData
  <2>3. QED
    BY <1>1, <1>b, <1>22, <2>1, <2>2, StartsTyped DEF Shape, TypeOK, AfterData, Loops, symtab, Known
<1>23. CASE NextObject
  <2>1. pc \in {"values", "reloc"} /\ pc \in Loops /\ lib \in included /\ lib \in 1..N
    BY <1>2, <1>23 DEF NextObject, Loops
  <2>2. off.text >= Origin /\ off.data >= Origin BY <2>1 DEF Shape
  <2>3. SizeOf(lib) \in Sizes BY <1>3, <2>1
  <2>4. SizeOf(lib).text \in Nat /\ SizeOf(lib).data \in Nat BY <2>3, SizesTyped
  <2> DEFINE p == Plus(off, SizeOf(lib))
  <2>5. p \in Sizes /\ p.text = off.text + SizeOf(lib).text /\ p.data = off.data + SizeOf(lib).data
    BY <1>2, <2>3, PlusTyped DEF Segments
  <2>6. p.text >= Origin /\ p.data >= Origin BY <1>3, <1>4, <2>2, <2>4, <2>5
  <2>7. off' \in {p, Starts} BY <1>23 DEF NextObject
  <2> HIDE DEF p
  <2>8. off' \in Sizes /\ off'.text >= Origin /\ off'.data >= Origin
    BY <2>5, <2>6, <2>7, StartsTyped
  <2>9. NextFile BY <1>23 DEF NextObject
  <2>10. QED
    BY <1>1, <1>b, <1>23, <2>1, <2>8, <2>9, NextFileShape
    DEF Shape, TypeOK, NextObject, Loops, symtab, output, Known
<1>24. CASE SetValue
  <2>1. pc = "values" /\ pc \in Loops /\ lib \in included /\ lib \in 1..N /\ More
    BY <1>2, <1>24 DEF SetValue, Loops
  <2>2. s \in DOMAIN Files[lib].syms
    <3>1. s \in Nat \ {0} BY DEF Shape, TypeOK
    <3>2. QED BY <1>2, <2>1, <3>1, JobTyped DEF More
  <2>3. Sym \in Global \cup Ref BY <1>2, <2>1, <2>2, JobTyped DEF Sym
  <2>4. off[Sym.seg] + Sym.off \in Nat
    <3>1. Sym.seg \in Segments /\ Sym.off \in Nat BY <2>3, SymTyped
    <3>2. off[Sym.seg] \in Nat BY <1>2, <3>1 DEF Sizes
    <3>3. QED BY <3>1, <3>2
  <2>5. value' \in [Names -> Nat]
    <3>1. value' \in {value, [value EXCEPT ![Sym.name] = off[Sym.seg] + Sym.off]}
      BY <1>24 DEF SetValue, symtab
    <3>2. QED BY SMTT(40), <1>2, <2>4, <3>1, ExceptTyped
  <2>6. where' \in [Names -> {ABSENT, NOFILE} \cup 1..N]
    <3>1. where' \in {where, [where EXCEPT ![Sym.name] = NOFILE]}
      BY <1>24 DEF SetValue, symtab
    <3>2. NOFILE \in {ABSENT, NOFILE} \cup 1..N OBVIOUS
    <3>3. QED BY <1>2, <3>1, <3>2, ExceptTyped
  <2>7. pc' \in {pc, "crashed"} BY <1>24 DEF SetValue
  <2>8. s' \in Nat \ {0}
    <3>1. s \in Nat BY DEF Shape, TypeOK
    <3>2. QED BY <1>24, <3>1 DEF SetValue
  <2>9. QED BY <1>1, <1>b, <1>24, <2>1, <2>5, <2>6, <2>7, <2>8 DEF Shape, TypeOK, SetValue, Loops, output
<1>25. CASE Relocate
  <2>1. pc = "reloc" /\ pc \in Loops /\ lib \in included /\ lib \in 1..N /\ More
    BY <1>2, <1>25 DEF Relocate, Loops
  <2>2. s \in DOMAIN Files[lib].syms
    <3>1. s \in Nat \ {0} BY DEF Shape, TypeOK
    <3>2. QED BY <1>2, <2>1, <3>1, JobTyped DEF More
  <2>3. Sym \in Global \cup Ref BY <1>2, <2>1, <2>2, JobTyped DEF Sym
  <2>4. Sym.off \in Nat /\ Sym.name \in Names BY <2>3, SymTyped
  <2>5. PatchPos(Sym) \in Nat
    <3>1. off.text >= Origin /\ off.data >= Origin BY <2>1 DEF Shape
    <3>2. QED BY <1>3, <1>4, <2>4, <3>1 DEF PatchPos
  <2>6. Sym.kind = "ref" => PatchValue(Sym) \in Nat /\ PatchValue(Sym) < 65536
    <3>1. SUFFICES ASSUME Sym.kind = "ref" PROVE PatchValue(Sym) \in Nat /\ PatchValue(Sym) < 65536
      OBVIOUS
    <3>2. Sym.addend \in Int /\ Sym.disp \in Int BY <2>3, <3>1, SymTyped
    <3>3. ValueOf(Sym.name) \in Nat BY <1>2, <1>4, <2>4 DEF ValueOf
    <3>4. QED BY <1>4, <2>4, <3>2, <3>3 DEF PatchValue
  <2>7. \A x \in patches : x.pos \in Nat /\ x.val \in Nat /\ x.val < 65536
    BY DEF Shape, TypeOK
  <2>8. \A x \in patches' : x.pos \in Nat /\ x.val \in Nat /\ x.val < 65536
    BY <1>25, <2>5, <2>6, <2>7 DEF Relocate
  <2>9. s' \in Nat \ {0}
    <3>1. s \in Nat BY DEF Shape, TypeOK
    <3>2. QED BY <1>25, <3>1 DEF Relocate
  <2>10. QED BY <1>1, <1>b, <1>25, <2>1, <2>8, <2>9 DEF Shape, TypeOK, Relocate, Loops, symtab, Known
<1>26. CASE Finish
  <2>1. value["_start"] \in Nat BY <1>2, LinkersNames
  <2>2. \A x \in patches : x.pos \in Nat /\ x.val \in Nat /\ x.val < 65536
    BY DEF Shape, TypeOK
  <2>3. \A x \in patches' : x.pos \in Nat /\ x.val \in Nat /\ x.val < 65536
    BY <1>3, <1>26, <2>1, <2>2 DEF Finish, JumpLen
  <2>4. QED BY <1>1, <1>b, <1>26, <2>3 DEF Shape, TypeOK, Finish, Loops, symtab, Known
<1>30. QED
  BY <1>8, <1>9, <1>10, <1>11, <1>12, <1>14, <1>15, <1>16, <1>16n, <1>17, <1>18, <1>19, <1>20, <1>21,
     <1>22, <1>23, <1>24, <1>25, <1>26, Zenon DEF Next, Link
-----------------------------------------------------------------------------
\* A full table stays full.
LEMMA FullStays ==
    ASSUME IsFiniteSet(Known'), Known \subseteq Known', Full
    PROVE  Full'
<1>1. Cardinality(Known) <= Cardinality(Known') /\ IsFiniteSet(Known) BY FS_Subset
<1>2. Cardinality(Known) \in Nat /\ Cardinality(Known') \in Nat BY <1>1, FS_CardinalityType
<1>3. SYMBOLS_MAX \in Nat BY LinkerAssumption
<1>4. QED BY <1>1, <1>2, <1>3 DEF Full

LEMMA LinkerNamesFinite == IsFiniteSet(LinkerNames)
<1>1. \A S, x : IsFiniteSet(S) => IsFiniteSet(S \cup {x}) BY FS_AddElement
<1>2. IsFiniteSet({}) BY FS_EmptySet
<1>3. IsFiniteSet({} \cup {"__segoff"} \cup {"__etext"} \cup {"__edata"} \cup {"__end"})
  BY <1>1, <1>2, Zenon
<1>4. IsFiniteSet({} \cup {"__segoff"} \cup {"__etext"} \cup {"__edata"} \cup {"__end"}
                  \cup {"__textoff"} \cup {"__dataoff"} \cup {"__bssoff"})
  BY <1>1, <1>3, Zenon
<1>5. {} \cup {"__segoff"} \cup {"__etext"} \cup {"__edata"} \cup {"__end"}
         \cup {"__textoff"} \cup {"__dataoff"} \cup {"__bssoff"} = LinkerNames
  BY Zenon DEF LinkerNames
<1>6. QED BY <1>4, <1>5

LEMMA EmptyNotFull == Known = {} => ~Full
<1>1. SUFFICES ASSUME Known = {} PROVE ~Full OBVIOUS
<1>3. Cardinality(LinkerNames) \in Nat BY LinkerNamesFinite, FS_CardinalityType
<1>4. SYMBOLS_MAX \in Nat /\ SYMBOLS_MAX > Cardinality(LinkerNames) BY LinkerAssumption
<1>5. Cardinality(Known) = 0 BY <1>1, FS_EmptySet
<1>6. QED BY <1>3, <1>4, <1>5 DEF Full

\* The steps after make_symbol_tree().
LEMMA TreeKeeps ==
    ASSUME Shape, Tree, [Next]_vars, included' = included, IsFiniteSet(Known'),
           pc \notin {"entry", "tree", "failed"}, pc' \notin {"entry", "tree"},
           error' # "undefined", pc' = "failed" => out' = "removed"
    PROVE  Tree'
BY SameJob DEF Tree, NotFoundMeansUndefined, FailureRemovesOutput

LEMMA TreeInit == Init => Tree
<1>1. SUFFICES ASSUME Init PROVE Tree OBVIOUS
<1>2. Known = {} BY <1>1 DEF Init, Known
<1>3. IsFiniteSet(Known) BY <1>2, FS_EmptySet
<1>4. QED BY <1>1, <1>3 DEF Init, Tree, NotFoundMeansUndefined, FailureRemovesOutput

\* A reference is to one of the linker's own names or to one that is wanted.
LEMMA RefIsWanted ==
    ASSUME job \in Jobs, NEW f \in 1..N, NEW k \in DOMAIN Files[f].syms,
           Files[f].syms[k].kind = "ref", Files[f].syms[k].name \notin LinkerNames
    PROVE  Files[f].syms[k].name \in Referenced
<1>1. Files[f].syms[k] \in Range(Files[f].syms) BY DEF Range
<1>2. Files[f].syms[k] \in Refs(f) BY <1>1 DEF Refs
<1>3. QED BY <1>2 DEF Referenced

LEMMA WantedIsRef ==
    ASSUME job \in Jobs, NEW n \in Referenced
    PROVE  \E f \in 1..N : \E k \in DOMAIN Files[f].syms :
              /\ Files[f].syms[k].kind = "ref" /\ Files[f].syms[k].name = n
              /\ n \notin LinkerNames
<1>1. \E f \in 1..N : \E r \in Refs(f) : r.name = n /\ n \notin LinkerNames BY DEF Referenced
<1>a. PICK f \in 1..N : \E r \in Refs(f) : r.name = n /\ n \notin LinkerNames BY <1>1
<1>b. PICK r \in Refs(f) : r.name = n /\ n \notin LinkerNames BY <1>a
<1>2. r \in Range(Files[f].syms) /\ r.kind = "ref" BY DEF Refs
<1>3. PICK k \in DOMAIN Files[f].syms : r = Files[f].syms[k] BY <1>2 DEF Range
<1>4. QED BY <1>b, <1>2, <1>3

\* What a call has passed stays right.
LEMMA TreeOKStays ==
    ASSUME job \in Jobs, [Next]_vars, NEW f \in 1..N, NEW k \in DOMAIN Files[f].syms,
           Known \subseteq Known', included \subseteq included', Full => Full', TreeOK(f, k)
    PROVE  TreeOK(f, k)'
BY SameJob DEF TreeOK

\* A step of a call passes the symbol at its cursor, and no other.
LEMMA StepPasses ==
    ASSUME Shape, pc = "tree", InFile, NEW i \in DOMAIN stack,
           NEW f \in 1..N, NEW k \in DOMAIN Files[f].syms, Passed(Step(stack)[i], f, k)
    PROVE  Passed(stack[i], f, k) \/ (f = Frame.lib /\ k = Frame.s)
<1>1. Frame.lib \in 1..N /\ Frame.s \in Nat /\ job \in Jobs BY FrameTyped, ShapeFacts
<1>2. k \in Nat /\ f \in Nat BY SMTT(40), <1>1, JobTyped
<1>3. Step(stack)[i] = IF i = Len(stack) THEN [lib |-> Frame.lib, s |-> Frame.s + 1] ELSE stack[i]
  BY Stepped
<1>4. CASE i = Len(stack)
  <2>1. stack[i] = Frame BY <1>4 DEF Frame
  <2>2. QED BY <1>1, <1>2, <1>3, <1>4, <2>1 DEF Passed
<1>5. CASE i # Len(stack) BY <1>3, <1>5
<1>6. QED BY <1>4, <1>5

LEMMA TreeNext ==
    ASSUME Shape, Shape', Tree, [Next]_vars
    PROVE  Tree'
<1>1. /\ job' = job /\ Files' = Files /\ N' = N /\ Referenced' = Referenced /\ Wanted' = Wanted
      /\ \A n : DefinedIn(n)' = DefinedIn(n) /\ FirstDef(n)' = FirstDef(n)
  BY SameJob
<1>2. job \in Jobs /\ where \in [Names -> {ABSENT, NOFILE} \cup 1..N] /\ N \in Nat
  BY ShapeFacts, JobNumbers
<1>3. IsFiniteSet(Known) BY DEF Tree
<1>4. ASSUME where' = where PROVE Known' = Known /\ Full' = Full
  BY <1>4 DEF Known, Full
<1>5. ASSUME pc \notin {"entry", "tree", "failed"}, pc' \notin {"entry", "tree"},
             included' = included, where' = where,
             error' # "undefined", pc' = "failed" => out' = "removed"
      PROVE  Tree'
  BY <1>3, <1>4, <1>5, TreeKeeps
<1>6. CASE UNCHANGED vars
  BY <1>1, <1>6 DEF vars, symtab, Tree, TreeOK, NotFoundMeansUndefined,
     FailureRemovesOutput, Known, Full
<1>7. CASE NoEntry
  <2>1. pc = "entry" /\ ~Findable("_start") /\ pc' = "failed" /\ error' = "no_entry"
        /\ where' = where
    BY <1>7 DEF NoEntry, Fail, symtab
  <2>2. Known = {} BY <2>1 DEF Shape
  <2>3. DefinedIn("_start") = {} BY <2>1, <2>2, EmptyNotFull DEF Findable
  <2>4. QED
    BY <1>1, <1>3, <1>4, <2>1, <2>3 DEF Tree, NotFoundMeansUndefined, FailureRemovesOutput
<1>8. CASE Entry
  <2>1. pc = "entry" /\ pc' = "tree" /\ Findable("_start") /\ error' = error
        /\ included' = {FirstDef("_start")} /\ stack' = <<[lib |-> 1, s |-> 1]>>
        /\ where' = [n \in Names |-> IF n = "_start" THEN FirstDef(n)
                                     ELSE IF n \in LinkerNames THEN NOFILE ELSE ABSENT]
    BY <1>8 DEF Entry
  <2>2. Known = {} /\ error = "none" BY <2>1 DEF Shape
  <2>3. DefinedIn("_start") # {} BY <2>1, <2>2 DEF Findable
  <2>4. "_start" \notin LinkerNames BY DEF LinkerNames
  <2>5. Known' \subseteq LinkerNames \cup {"_start"} BY <2>1 DEF Known
  <2>a. IsFiniteSet(LinkerNames \cup {"_start"}) BY LinkerNamesFinite, FS_AddElement, Zenon
  <2>6. IsFiniteSet(Known') BY <2>5, <2>a, FS_Subset, Zenon
  <2>7. \A n \in LinkerNames : where'[n] = NOFILE BY <2>1, <2>4, LinkersNames
  <2>8. where'["_start"] = FirstDef("_start") BY <2>1, LinkersNames
  <2>9. \A i \in DOMAIN stack', f \in 1..N : \A k \in DOMAIN Files[f].syms :
            ~Passed(stack'[i], f, k)
    <3>1. DOMAIN stack' = {1} /\ stack'[1] = [lib |-> 1, s |-> 1] BY <2>1
    <3>2. \A f \in 1..N : \A k \in DOMAIN Files[f].syms : f \in Nat /\ f >= 1 /\ k \in Nat /\ k >= 1
      BY <1>2, JobTyped
    <3>3. QED BY <3>1, <3>2 DEF Passed
  <2>10. "_start" \in Wanted BY DEF Wanted
  <2>11. QED
    BY <1>1, <2>1, <2>2, <2>3, <2>5, <2>6, <2>7, <2>8, <2>9, <2>10
    DEF Tree, NotFoundMeansUndefined, FailureRemovesOutput
<1>9. CASE TreeNextFile
  <2>1. pc = "tree" /\ pc' = pc /\ Frame.lib <= N /\ ~InFile /\ included' = included
        /\ where' = where /\ error' = error
        /\ stack' = [stack EXCEPT ![Len(stack)] = [lib |-> Frame.lib + 1, s |-> 1]]
    BY <1>9 DEF TreeNextFile, symtab, Frame
  <2>2. Frame \in Cursor /\ Frame.lib \in Nat /\ Frame.s \in Nat /\ error = "none"
        /\ Len(stack) \in Nat \ {0}
    BY <1>2, <2>1, FrameTyped DEF Shape
  <2>3. ASSUME NEW i \in DOMAIN stack', NEW f \in 1..N, NEW k \in DOMAIN Files[f].syms,
               Passed(stack'[i], f, k)
        PROVE  TreeOK(f, k)'
    <3>1. i \in DOMAIN stack /\ k \in Nat /\ f \in Nat BY SMTT(40), <1>2, <2>1, JobTyped
    <3>2. Passed(stack[i], f, k)
      <4>1. CASE i = Len(stack)
        <5>1. stack[i] = Frame /\ stack'[i] = [lib |-> Frame.lib + 1, s |-> 1]
          BY <2>1, <3>1, <4>1 DEF Frame
        <5>2. f <= Frame.lib BY SMTT(40), <2>2, <2>3, <3>1, <5>1, <1>2, JobTyped DEF Passed
        <5>3. f = Frame.lib => k < Frame.s
          <6>1. ASSUME f = Frame.lib PROVE k < Frame.s
            <7>1. k <= Len(Files[f].syms) /\ Len(Files[f].syms) \in Nat BY <1>2, JobTyped
            <7>2. ~(Frame.s <= Len(Files[f].syms)) BY <2>1, <6>1 DEF InFile
            <7>3. QED BY <2>2, <3>1, <7>1, <7>2
          <6>2. QED BY <6>1
        <5>4. QED BY <2>2, <3>1, <5>1, <5>2, <5>3 DEF Passed
      <4>2. CASE i # Len(stack)
        <5>1. stack'[i] = stack[i] BY <2>1, <3>1, <4>2
        <5>2. QED BY <2>3, <5>1
      <4>3. QED BY <4>1, <4>2
    <3>3. TreeOK(f, k) BY <2>1, <3>1, <3>2 DEF Tree
    <3>4. QED BY <1>2, <1>4, <2>1, <3>3, TreeOKStays
  <2>4. QED
    BY <1>1, <1>3, <1>4, <2>1, <2>2, <2>3 DEF Tree, NotFoundMeansUndefined, FailureRemovesOutput
<1>10. CASE TreeReturn
  <2>1. pc = "tree" /\ Frame.lib > N /\ included' = included /\ where' = where /\ error' = error
        /\ stack' = SubSeq(stack, 1, Len(stack) - 1)
        /\ pc' = IF Len(stack) = 1 THEN "sizes" ELSE "tree"
    BY <1>10 DEF TreeReturn, symtab
  <2>2. Frame \in Cursor /\ Frame.lib \in 1 .. N + 1 /\ error = "none" /\ Len(stack) \in Nat \ {0}
        /\ stack \in Seq(Cursor)
    BY <1>2, <2>1, FrameTyped DEF Shape
  <2>3. CASE Len(stack) = 1
    <3>1. pc' = "sizes" BY <2>1, <2>3
    <3>2. ASSUME NEW n \in Wanted PROVE DefinedIn(n) # {} /\ FirstDef(n) \in included
      <4>1. CASE n = "_start" BY <2>1, <4>1 DEF Tree
      <4>2. CASE n \in Referenced
        <5>1. PICK f \in 1..N : \E k \in DOMAIN Files[f].syms :
                 /\ Files[f].syms[k].kind = "ref" /\ Files[f].syms[k].name = n
                 /\ n \notin LinkerNames
          BY <1>2, <4>2, WantedIsRef
        <5>2. PICK k \in DOMAIN Files[f].syms :
                 /\ Files[f].syms[k].kind = "ref" /\ Files[f].syms[k].name = n
                 /\ n \notin LinkerNames
          BY <5>1
        <5>3. Passed(stack[Len(stack)], f, k) BY <1>2, <2>1, <2>2 DEF Passed, Frame
        <5>4. Len(stack) \in DOMAIN stack BY <2>2
        <5>5. TreeOK(f, k) BY <2>1, <5>3, <5>4 DEF Tree
        <5>6. QED BY <5>2, <5>5 DEF TreeOK
      <4>3. QED BY <4>1, <4>2 DEF Wanted
    <3>3. \A f \in included : \E n \in Wanted : f = FirstDef(n) BY <2>1 DEF Tree
    <3>4. included = {FirstDef(n) : n \in Wanted} BY <3>2, <3>3
    <3>5. QED
      BY <1>1, <1>3, <1>4, <2>1, <2>2, <3>1, <3>2, <3>4
      DEF Tree, NotFoundMeansUndefined, FailureRemovesOutput
  <2>4. CASE Len(stack) # 1
    <3>1. pc' = "tree" BY <2>1, <2>4
    <3>2. \A i \in DOMAIN stack' : i \in DOMAIN stack /\ stack'[i] = stack[i] BY <2>1, <2>2
    <3>3. ASSUME NEW i \in DOMAIN stack', NEW f \in 1..N, NEW k \in DOMAIN Files[f].syms,
                 Passed(stack'[i], f, k)
          PROVE  TreeOK(f, k)'
      <4>1. TreeOK(f, k) BY <2>1, <3>2, <3>3 DEF Tree
      <4>2. QED BY <1>2, <1>4, <2>1, <4>1, TreeOKStays
    <3>4. QED
      BY <1>1, <1>3, <1>4, <2>1, <2>2, <3>1, <3>3
      DEF Tree, NotFoundMeansUndefined, FailureRemovesOutput
  <2>5. QED BY <2>3, <2>4
<1>11. CASE TreeGlobal
  <2> DEFINE n == Cur.name
  <2>1. pc = "tree" /\ pc' = pc /\ InFile /\ Cur.kind = "global" /\ included' = included
        /\ error' = error /\ stack' = Step(stack)
        /\ where' = IF n \in Known \/ Full THEN where ELSE [where EXCEPT ![n] = Frame.lib]
    BY <1>11 DEF TreeGlobal
  <2>2. /\ Frame.lib \in 1..N /\ Frame.s \in DOMAIN Files[Frame.lib].syms /\ Cur \in Global \cup Ref
        /\ error = "none"
    BY <2>1, FrameTyped DEF Shape
  <2>3. n \in Names /\ n \notin LinkerNames BY <2>1, <2>2, SymTyped
  <2>4. Frame.lib \in DefinedIn(n) BY <2>1, <2>2, DefinedHere DEF Cur
  <2>5. FirstDef(n) \in 1..N /\ FirstDef(n) <= Frame.lib /\ FirstDef(n) \in DefinedIn(n)
    BY <1>2, <2>4, FirstDefIs
  <2>6. stack \in Seq(Cursor) /\ Len(stack) \in DOMAIN stack /\ Frame = stack[Len(stack)]
    BY <2>1, FrameTyped DEF Shape, Frame
  <2>7. n \in Known \/ Full \/ FirstDef(n) = Frame.lib
    <3>1. SUFFICES ASSUME FirstDef(n) # Frame.lib PROVE n \in Known \/ Full OBVIOUS
    <3>2. PICK k \in DOMAIN Files[FirstDef(n)].syms :
             /\ Files[FirstDef(n)].syms[k].kind = "global"
             /\ Files[FirstDef(n)].syms[k].name = n
      BY <2>5 DEF DefinedIn
    <3>3. FirstDef(n) < Frame.lib BY <1>2, <2>2, <2>5, <3>1
    <3>4. Passed(stack[Len(stack)], FirstDef(n), k) BY <2>6, <3>3 DEF Passed
    <3>5. TreeOK(FirstDef(n), k) BY <2>1, <2>5, <2>6, <3>4 DEF Tree
    <3>6. QED BY <3>2, <3>5 DEF TreeOK
  <2> HIDE DEF n
  <2>8. Known' \subseteq Known \cup {n} /\ Known \subseteq Known'
    <3>1. Frame.lib # ABSENT BY <1>2, <2>2 DEF ABSENT
    <3>2. QED BY <1>2, <2>1, <3>1 DEF Known
  <2>9. IsFiniteSet(Known')
    <3>1. IsFiniteSet(Known \cup {n}) BY <1>3, FS_AddElement
    <3>2. QED BY <2>8, <3>1, FS_Subset
  <2>10. Full => Full' BY <2>8, <2>9, FullStays
  <2>11. n \in Known' \/ Full'
    <3>1. CASE n \in Known \/ Full BY <2>8, <2>10, <3>1
    <3>2. CASE ~(n \in Known \/ Full)
      <4>1. where'[n] = Frame.lib BY <1>2, <2>1, <2>3, <3>2
      <4>2. Frame.lib # ABSENT BY <1>2, <2>2 DEF ABSENT
      <4>3. QED BY <2>3, <4>1, <4>2 DEF Known
    <3>3. QED BY <3>1, <3>2
  <2>12. \A m \in LinkerNames : where'[m] = NOFILE
    <3>1. \A m \in LinkerNames : where[m] = NOFILE /\ m \in Names
      BY <2>1, LinkersNames DEF Tree
    <3>2. QED BY <1>2, <2>1, <2>3, <3>1
  <2>13. \A m \in Known' \ LinkerNames : DefinedIn(m) # {} /\ where'[m] = FirstDef(m)
    <3>1. TAKE m \in Known' \ LinkerNames
    <3>2. m \in Names BY DEF Known
    <3>3. CASE m \in Known
      <4>1. DefinedIn(m) # {} /\ where[m] = FirstDef(m) BY <2>1, <3>3 DEF Tree
      <4>2. where'[m] = where[m] BY <1>2, <2>1, <3>2, <3>3
      <4>3. QED BY <4>1, <4>2
    <3>4. CASE m \notin Known
      <4>1. m = n BY <2>8, <3>4
      <4>2. ~(n \in Known \/ Full)
        <5>1. ASSUME Full PROVE FALSE
          <6>1. where' = where BY <2>1, <5>1
          <6>2. QED BY <1>4, <3>4, <6>1
        <5>2. QED BY <3>4, <4>1, <5>1
      <4>3. where'[n] = Frame.lib BY <1>2, <2>1, <2>3, <4>2
      <4>4. QED BY <2>5, <2>7, <4>1, <4>2, <4>3
    <3>5. QED BY <3>3, <3>4
  <2>14. ASSUME NEW i \in DOMAIN stack', NEW f \in 1..N, NEW k \in DOMAIN Files[f].syms,
                Passed(stack'[i], f, k)
         PROVE  TreeOK(f, k)'
    <3>1. i \in DOMAIN stack BY <2>1, <2>6, Stepped, LenProperties
    <3>2. Passed(stack[i], f, k) \/ (f = Frame.lib /\ k = Frame.s)
      BY <2>1, <2>14, <3>1, StepPasses
    <3>3. CASE Passed(stack[i], f, k)
      <4>1. TreeOK(f, k) BY <2>1, <3>1, <3>3 DEF Tree
      <4>2. QED BY <1>2, <2>1, <2>8, <2>10, <4>1, TreeOKStays
    <3>4. CASE f = Frame.lib /\ k = Frame.s
      <4>1. Files[f].syms[k] = Cur BY <3>4 DEF Cur
      <4>2. QED BY <1>1, <2>1, <2>11, <4>1 DEF TreeOK, n
    <3>5. QED BY <3>2, <3>3, <3>4
  <2>15. QED
    BY <1>1, <2>1, <2>2, <2>9, <2>12, <2>13, <2>14
    DEF Tree, NotFoundMeansUndefined, FailureRemovesOutput
<1>12. CASE TreeRef
  <2> DEFINE n == Cur.name
             f == FileOf(n)
             new == [lib |-> 1, s |-> 1]
  <2>1. pc = "tree" /\ pc' = pc /\ InFile /\ Cur.kind = "ref" /\ Findable(n)
        /\ error' = error /\ where' = [where EXCEPT ![n] = f]
    BY <1>12 DEF TreeRef
  <2>2. IF f # NOFILE /\ f \notin included
        THEN included' = included \cup {f} /\ stack' = Append(Step(stack), new)
        ELSE included' = included /\ stack' = Step(stack)
    BY <1>12 DEF TreeRef
  <2>3. /\ Frame.lib \in 1..N /\ Frame.s \in DOMAIN Files[Frame.lib].syms /\ Cur \in Global \cup Ref
        /\ error = "none"
    BY <2>1, FrameTyped DEF Shape
  <2>4. n \in Names BY <2>3, SymTyped
  <2>5. n \in LinkerNames => f = NOFILE
    <3>1. SUFFICES ASSUME n \in LinkerNames PROVE f = NOFILE OBVIOUS
    <3>2. where[n] = NOFILE BY <2>1, <3>1 DEF Tree
    <3>3. n \in Known BY <2>4, <3>2 DEF Known, NOFILE, ABSENT
    <3>4. QED BY <3>2, <3>3 DEF FileOf
  <2>6. n \notin LinkerNames => f = FirstDef(n) /\ DefinedIn(n) # {} /\ f \in 1..N /\ n \in Wanted
    <3>1. SUFFICES ASSUME n \notin LinkerNames
                   PROVE  f = FirstDef(n) /\ DefinedIn(n) # {} /\ f \in 1..N /\ n \in Wanted
      OBVIOUS
    <3>2. DefinedIn(n) # {} /\ f = FirstDef(n)
      <4>1. CASE n \in Known BY <2>1, <3>1, <4>1 DEF Tree, FileOf
      <4>2. CASE n \notin Known BY <2>1, <4>2 DEF Findable, FileOf
      <4>3. QED BY <4>1, <4>2
    <3>3. f \in 1..N BY SMTT(40), <1>2, <3>2, FirstDefIs
    <3>4. n \in Wanted BY <1>2, <2>1, <2>3, <3>1, RefIsWanted DEF Cur, Wanted
    <3>5. QED BY <3>2, <3>3, <3>4
  <2>7. f # ABSENT BY <1>2, <2>5, <2>6 DEF ABSENT, NOFILE
  <2>8. stack \in Seq(Cursor) /\ Len(stack) \in DOMAIN stack /\ Frame = stack[Len(stack)]
    BY <2>1, FrameTyped DEF Shape, Frame
  <2>9. where'[n] = f /\ \A m \in Names : m # n => where'[m] = where[m]
    BY <1>2, <2>1, <2>4
  <2>10. included \subseteq included' /\ (n \notin LinkerNames => f \in included')
         /\ included' \subseteq included \cup {f} /\ (n \in LinkerNames => included' = included)
    <3>1. n \notin LinkerNames => f # NOFILE BY <1>2, <2>6 DEF NOFILE
    <3> HIDE DEF f
    <3>2. QED BY <2>2, <2>5, <3>1
  <2> HIDE DEF n, f
  <2>11. Known' = Known \cup {n}
    BY <2>4, <2>7, <2>9, <1>2, <2>1 DEF Known
  <2>12. IsFiniteSet(Known') BY <1>3, <2>11, FS_AddElement
  <2>13. Full => Full' BY <2>11, <2>12, FullStays
  <2>14. \A m \in LinkerNames : where'[m] = NOFILE
    <3>1. TAKE m \in LinkerNames
    <3>2. where[m] = NOFILE /\ m \in Names BY <2>1, LinkersNames DEF Tree
    <3>3. QED BY <2>5, <2>9, <3>2
  <2>15. \A m \in Known' \ LinkerNames : DefinedIn(m) # {} /\ where'[m] = FirstDef(m)
    <3>1. TAKE m \in Known' \ LinkerNames
    <3>2. CASE m = n BY <2>6, <2>9, <3>2
    <3>3. CASE m # n
      <4>1. m \in Known /\ m \in Names BY <2>11, <3>3 DEF Known
      <4>2. QED BY <2>1, <2>9, <3>3, <4>1 DEF Tree
    <3>4. QED BY <3>2, <3>3
  <2>16. \A g \in included' : \E m \in Wanted : DefinedIn(m) # {} /\ g = FirstDef(m)
    <3>1. \A g \in included : \E m \in Wanted : DefinedIn(m) # {} /\ g = FirstDef(m)
      BY <2>1 DEF Tree
    <3>2. CASE n \in LinkerNames BY <2>10, <3>1, <3>2
    <3>3. CASE n \notin LinkerNames BY <2>6, <2>10, <3>1, <3>3
    <3>4. QED BY <3>2, <3>3
  <2>17. ASSUME NEW i \in DOMAIN Step(stack), NEW g \in 1..N, NEW k \in DOMAIN Files[g].syms,
                Passed(Step(stack)[i], g, k)
         PROVE  TreeOK(g, k)'
    <3>1. i \in DOMAIN stack BY <2>1, <2>8, Stepped, LenProperties
    <3>2. Passed(stack[i], g, k) \/ (g = Frame.lib /\ k = Frame.s)
      BY <2>1, <2>17, <3>1, StepPasses
    <3>3. CASE Passed(stack[i], g, k)
      <4>1. TreeOK(g, k) BY <2>1, <3>1, <3>3 DEF Tree
      <4>2. QED BY <1>2, <2>10, <2>11, <2>13, <4>1, TreeOKStays
    <3>4. CASE g = Frame.lib /\ k = Frame.s
      <4>1. Files[g].syms[k] = Cur BY <3>4 DEF Cur
      <4>2. Cur.kind = "ref" /\ (n \in LinkerNames \/ (DefinedIn(n) # {} /\ FirstDef(n) \in included'))
        BY <2>1, <2>6, <2>10
      <4>3. QED BY <1>1, <4>1, <4>2 DEF TreeOK, n
    <3>5. QED BY <3>2, <3>3, <3>4
  <2>18. ASSUME NEW i \in DOMAIN stack', NEW g \in 1..N, NEW k \in DOMAIN Files[g].syms,
                Passed(stack'[i], g, k)
         PROVE  TreeOK(g, k)'
    <3>1. CASE stack' = Step(stack) BY <2>17, <2>18, <3>1
    <3>2. CASE stack' = Append(Step(stack), new)
      <4>1. Step(stack) \in Seq(Cursor) BY <2>1, Stepped
      <4>2. i \in DOMAIN Step(stack) => stack'[i] = Step(stack)[i] BY <3>2, <4>1
      <4>3. i \notin DOMAIN Step(stack) => stack'[i] = new BY <3>2, <4>1
      <4>4. ~Passed(new, g, k) BY <1>2, JobTyped DEF Passed
      <4>5. QED BY <2>17, <2>18, <4>2, <4>3, <4>4
    <3>3. QED BY <2>2, <3>1, <3>2
  <2>19. QED
    BY <1>1, <2>1, <2>3, <2>10, <2>12, <2>14, <2>15, <2>16, <2>18
    DEF Tree, NotFoundMeansUndefined, FailureRemovesOutput
<1>13n. CASE NamesOverflow
  <2>1. pc \in {"entry", "tree"} /\ pc' = "failed" /\ error' = "names" /\ out' = "removed"
        /\ where' = where
    BY <1>13n DEF NamesOverflow, Fail, symtab
  <2>2. QED
    BY <1>1, <1>3, <1>4, <2>1 DEF Tree, NotFoundMeansUndefined, FailureRemovesOutput
<1>13. CASE TreeNotFound
  <2>1. pc = "tree" /\ InFile /\ Cur.kind = "ref" /\ ~Findable(Cur.name)
        /\ pc' = "failed" /\ error' = "undefined" /\ out' = "removed" /\ where' = where
    BY <1>13 DEF TreeNotFound, Fail, symtab
  <2>2. Frame.lib \in 1..N /\ Frame.s \in DOMAIN Files[Frame.lib].syms /\ Cur \in Global \cup Ref
    BY <2>1, FrameTyped
  <2>3. Cur.name \notin LinkerNames
    <3>1. \A n \in LinkerNames : where[n] = NOFILE BY <2>1 DEF Tree
    <3>2. \A n \in LinkerNames : n \in Known
      BY <3>1, LinkersNames DEF Known, NOFILE, ABSENT
    <3>3. QED BY <2>1, <3>2 DEF Findable
  <2>4. Cur.name \in Referenced BY <1>2, <2>1, <2>2, <2>3, RefIsWanted DEF Cur
  <2>5. Full \/ DefinedIn(Cur.name) = {} BY <2>1 DEF Findable
  <2>6. NotFoundMeansUndefined' BY <1>1, <1>4, <2>1, <2>4, <2>5 DEF NotFoundMeansUndefined
  <2>7. QED BY <1>3, <1>4, <2>1, <2>6 DEF Tree, FailureRemovesOutput
<1>14. CASE SkipFile
  <2>1. pc \in Loops /\ NextFile /\ included' = included /\ where' = where
        /\ error' = error /\ out' = out
    BY <1>14 DEF SkipFile, Loops, symtab
  <2>2. pc' \notin {"entry", "tree", "failed"} BY <1>1, <2>1, NextFileShape
  <2>3. error = "none" BY <2>1 DEF Shape, Loops
  <2>4. QED BY <1>5, <2>1, <2>2, <2>3 DEF Loops
<1>15. CASE AddSizes
  <2>1. pc = "sizes" /\ included' = included /\ where' = where BY <1>15 DEF AddSizes
  <2>2. CASE Overflows BY <1>5, <1>15, <2>1, <2>2 DEF AddSizes, Fail
  <2>3. CASE ~Overflows
    <3>1. NextFile /\ error' = error BY <1>15, <2>3 DEF AddSizes
    <3>2. pc' \notin {"entry", "tree", "failed"} BY <1>1, <2>1, <3>1, NextFileShape DEF Loops
    <3>3. error = "none" BY <2>1 DEF Shape
    <3>4. QED BY <1>5, <2>1, <3>1, <3>2, <3>3
  <2>4. QED BY <2>2, <2>3
<1>16. CASE Layout \/ SeekData \/ AfterData \/ Finish
  <2>1. pc \in {"layout", "datapos", "tail", "finish"} /\ pc' \in {"text", "data", "values", "done"}
        /\ included' = included /\ where' = where /\ error' = error
    BY <1>16 DEF Layout, LayoutBin, LayoutAout, SeekData, AfterData, Finish, symtab
  <2>2. error = "none" BY <2>1 DEF Shape
  <2>3. QED BY <1>5, <2>1, <2>2
<1>17. ASSUME NEW seg \in {"text", "data"}, Copy(seg) PROVE Tree'
  <2>1. pc \in {"text", "data"} /\ NextFile /\ included' = included /\ where' = where
        /\ error' = error
    BY <1>17 DEF Copy, symtab
  <2>2. pc' \notin {"entry", "tree", "failed"} BY <1>1, <2>1, NextFileShape DEF Loops
  <2>3. error = "none" BY <2>1 DEF Shape
  <2>4. QED BY <1>5, <2>1, <2>2, <2>3
<1>18. CASE NextObject
  <2>1. pc \in {"values", "reloc"} /\ NextFile /\ included' = included /\ where' = where
        /\ error' = error
    BY <1>18 DEF NextObject, symtab
  <2>2. pc' \notin {"entry", "tree", "failed"} BY <1>1, <2>1, NextFileShape DEF Loops
  <2>3. error = "none" BY <2>1 DEF Shape
  <2>4. QED BY <1>5, <2>1, <2>2, <2>3
<1>19. CASE SetValue
  <2>1. pc = "values" /\ pc' \in {"values", "crashed"} /\ included' = included /\ error' = error
        /\ where' \in {where, [where EXCEPT ![Sym.name] = NOFILE]}
    BY <1>19 DEF SetValue, symtab
  <2>2. error = "none" BY <2>1 DEF Shape
  <2>3. IsFiniteSet(Known')
    <3>1. Known' \subseteq Known \cup {Sym.name}
      BY <1>2, <2>1 DEF Known
    <3>2. IsFiniteSet(Known \cup {Sym.name}) BY <1>3, FS_AddElement
    <3>3. QED BY <3>1, <3>2, FS_Subset
  <2>4. QED BY <2>1, <2>2, <2>3, TreeKeeps
<1>20. CASE Relocate
  <2>1. pc = "reloc" /\ pc' = pc /\ included' = included /\ where' = where /\ error' = error
    BY <1>20 DEF Relocate, symtab
  <2>2. error = "none" BY <2>1 DEF Shape
  <2>3. QED BY <1>5, <2>1, <2>2
<1>21. QED
  BY <1>6, <1>7, <1>8, <1>9, <1>10, <1>11, <1>12, <1>13, <1>13n, <1>14, <1>15, <1>16, <1>17, <1>18,
     <1>19, <1>20, Zenon DEF Next, Link
-----------------------------------------------------------------------------
LEMMA TotalSame ==
    ASSUME [Next]_vars
    PROVE  \A seg, fs : Total(seg, fs)' = Total(seg, fs)
<1>1. Files' = Files /\ N' = N BY SameJob
<1>2. \A seg : Length(seg)' = Length(seg) BY <1>1 DEF Length
<1>3. QED BY <1>2 DEF Total

LEMMA SumsStay ==
    ASSUME [Next]_vars, value' = value, total' = total, aout' = aout, NEW fs, NEW gs, fs = gs,
           SumsOf(fs)
    PROVE  /\ value'["__etext"] = (IF IsBin THEN JumpLen ELSE 0) + Total("text", gs)
           /\ value'["__edata"] = Total("data", gs)
           /\ value'["__end"] = job.stack + Total("bss", gs)
           /\ value'["__segoff"] = 0
           /\ aout' = Zero
           /\ gs = {} => total' = Origin
           /\ gs # {} =>
                IF IsBin
                THEN /\ total' >= Origin + value'["__etext"] + value'["__edata"] + value'["__end"]
                     /\ total' < 65504
                ELSE value'["__etext"] < 65520 /\ value'["__edata"] + value'["__end"] < 65504
BY DEF SumsOf

LEMMA MeasuredInit == Init => Measured
<1>1. SUFFICES ASSUME Init PROVE Measured OBVIOUS
<1>2. pc = "entry" /\ error = "none" /\ aout = Zero /\ value = [n \in Names |-> 0]
  BY <1>1 DEF Init
<1>3. QED BY <1>2 DEF Measured, OverflowIsReal

\* The steps that measure nothing.
LEMMA MeasuredElsewhere ==
    ASSUME pc' \notin {"entry", "tree", "sizes", "layout"}, error' # "overflow"
    PROVE  Measured'
BY DEF Measured, OverflowIsReal

LEMMA MeasuredNext ==
    ASSUME Shape, Shape', Measured, [Next]_vars
    PROVE  Measured'
<1>1. job' = job /\ N' = N /\ Origin' = Origin /\ IsBin' = IsBin BY SameJob
<1>2. job \in Jobs /\ value \in [Names -> Nat] /\ included \subseteq 1..N /\ total \in Nat
  BY ShapeFacts
<1>3. N \in Nat /\ Origin \in Nat /\ job.stack \in Nat
      /\ \A f \in 1..N : Files[f].text \in Nat /\ Files[f].data \in Nat /\ Files[f].bss \in Nat
  BY <1>2, JobNumbers
<1>4. \A seg, fs : Total(seg, fs)' = Total(seg, fs) BY TotalSame
<1>5. \A seg \in Segments : Total(seg, {}) = 0 BY <1>2, Totals
<1>6. Segments = {"text", "data", "bss"} BY DEF Segments
<1>7. included' \subseteq 1..N BY <1>1 DEF Shape, TypeOK
<1>8. lib' = 1 => Before' = {}
  <2>1. Before' = {g \in included' : g < lib'} BY DEF Before, Below
  <2>2. ASSUME lib' = 1, NEW g \in included' PROVE ~(g < lib') BY <1>3, <1>7, <2>2
  <2>3. QED BY <2>1, <2>2
<1>9. lib = 1 => Before = {}
  <2>1. ASSUME lib = 1, NEW g \in included PROVE ~(g < lib) BY <1>2, <1>3, <2>1
  <2>2. QED BY <2>1 DEF Before, Below
<1>10. ASSUME NEW fs, SumsOf(fs), value' = value, total' = total, aout' = aout,
              \/ pc' \in {"tree", "sizes"} /\ Before' = fs
              \/ pc' = "layout" /\ included' = fs,
              error' # "overflow"
       PROVE  Measured'
  <2>1. /\ value'["__etext"] = (IF IsBin THEN JumpLen ELSE 0) + Total("text", fs)
        /\ value'["__edata"] = Total("data", fs)
        /\ value'["__end"] = job.stack + Total("bss", fs)
        /\ value'["__segoff"] = 0
        /\ aout' = Zero
        /\ fs = {} => total' = Origin
        /\ fs # {} =>
             IF IsBin
             THEN /\ total' >= Origin + value'["__etext"] + value'["__edata"] + value'["__end"]
                  /\ total' < 65504
             ELSE value'["__etext"] < 65520 /\ value'["__edata"] + value'["__end"] < 65504
    BY <1>10, SumsStay
  <2>2. CASE pc' \in {"tree", "sizes"} /\ Before' = fs
    BY <1>1, <1>4, <1>10, <2>1, <2>2 DEF Measured, SumsOf, OverflowIsReal
  <2>3. CASE pc' = "layout" /\ included' = fs
    BY <1>1, <1>4, <1>10, <2>1, <2>3 DEF Measured, SumsOf, OverflowIsReal
  <2>4. QED BY <1>10, <2>2, <2>3
<1>11. CASE UNCHANGED vars
  <2>1. /\ pc' = pc /\ error' = error /\ included' = included /\ lib' = lib /\ value' = value
        /\ aout' = aout /\ total' = total
    BY <1>11 DEF vars, symtab
  <2>2. Before' = Before BY <2>1 DEF Before, Below
  <2>3. OverflowIsReal' = OverflowIsReal /\ OneFile' = OneFile
    BY <1>1, <1>4, <2>1 DEF OverflowIsReal, OneFile, TextLen, DataLen, BssLen, JumpLen
  <2>4. CASE pc = "entry" BY <1>1, <2>1, <2>3, <2>4 DEF Measured
  <2>5. CASE pc \in {"tree", "sizes"}
    <3>1. SumsOf(Before) BY <2>5 DEF Measured
    <3>2. error # "overflow" BY <2>5 DEF Shape
    <3>3. PICK fs : fs = Before OBVIOUS
    <3>4. QED BY <1>10, <2>1, <2>2, <2>5, <3>1, <3>2, <3>3
  <2>6. CASE pc = "layout"
    <3>1. SumsOf(included) BY <2>6 DEF Measured
    <3>2. error # "overflow" BY <2>6 DEF Shape
    <3>3. PICK fs : fs = included OBVIOUS
    <3>4. QED BY <1>10, <2>1, <2>6, <3>1, <3>2, <3>3
  <2>7. CASE pc \notin {"entry", "tree", "sizes", "layout"}
    BY <1>1, <2>1, <2>3, <2>7 DEF Measured
  <2>8. QED BY <2>4, <2>5, <2>6, <2>7
<1>12. CASE NoEntry BY <1>12, MeasuredElsewhere DEF NoEntry, Fail
<1>13. CASE Entry
  <2>1. pc = "entry" /\ pc' = "tree" /\ error' = error /\ lib' = lib /\ aout' = aout
        /\ total' = Origin
        /\ value' = [value EXCEPT !["__end"] = job.stack,
                                  !["__etext"] = IF IsBin THEN JumpLen ELSE 0]
    BY <1>13 DEF Entry
  <2>2. lib = 1 /\ error = "none" BY <2>1 DEF Shape, Loops
  <2>3. value = [n \in Names |-> 0] /\ aout = Zero BY <2>1 DEF Measured
  <2>4. /\ value'["__etext"] = (IF IsBin THEN JumpLen ELSE 0) /\ value'["__edata"] = 0
        /\ value'["__end"] = job.stack /\ value'["__segoff"] = 0
    BY <2>1, <2>3, LinkersNames
  <2>5. Before' = {} BY <1>8, <2>1, <2>2
  <2>6. SumsOf(Before)'
    BY <1>1, <1>3, <1>4, <1>5, <1>6, <2>1, <2>3, <2>4, <2>5 DEF SumsOf, JumpLen
  <2>7. QED BY <2>1, <2>2, <2>6 DEF Measured, OverflowIsReal
<1>14. CASE TreeNextFile \/ TreeReturn \/ TreeGlobal \/ TreeRef
  <2>1. pc = "tree" /\ pc' \in {"tree", "sizes"} /\ value' = value /\ total' = total
        /\ aout' = aout /\ error' = error /\ lib' = lib
    BY <1>14 DEF TreeNextFile, TreeReturn, TreeGlobal, TreeRef, symtab
  <2>2. lib = 1 /\ error = "none" BY <2>1 DEF Shape, Loops
  <2>3. SumsOf(Before) BY <2>1 DEF Measured
  <2>4. PICK fs : fs = {} BY Zenon
  <2>5. SumsOf(fs) BY <1>9, <2>2, <2>3, <2>4
  <2>6. Before' = fs BY <1>8, <2>1, <2>2, <2>4
  <2>7. QED BY <1>10, <2>1, <2>2, <2>5, <2>6
<1>15. CASE TreeNotFound \/ NamesOverflow
  BY <1>15, MeasuredElsewhere DEF TreeNotFound, NamesOverflow, Fail
<1>16. CASE SkipFile
  <2>1. /\ pc \in Loops /\ lib \notin included /\ NextFile /\ value' = value /\ total' = total
        /\ aout' = aout /\ error' = error /\ included' = included
    BY <1>16 DEF SkipFile, symtab, Loops
  <2>2. error = "none" /\ lib \in 1..N BY <2>1 DEF Shape, Loops
  <2>3. Below(lib + 1) = Before BY <1>2, <2>1, <2>2, BelowMoves DEF Before
  <2>4. CASE pc = "sizes" /\ lib < N
    <3>1. pc' = "sizes" /\ lib' = lib + 1 BY <2>1, <2>4 DEF NextFile
    <3>2. PICK fs : fs = Before OBVIOUS
    <3>3. Before' = fs BY <2>1, <2>3, <3>1, <3>2 DEF Before, Below
    <3>4. SumsOf(fs) BY <2>4, <3>2 DEF Measured
    <3>5. QED BY <1>10, <2>1, <2>2, <3>1, <3>3, <3>4
  <2>5. CASE pc = "sizes" /\ ~(lib < N)
    <3>1. pc' = "layout" /\ lib = N BY <1>3, <2>1, <2>2, <2>5 DEF NextFile, Following
    <3>2. PICK fs : fs = Before OBVIOUS
    <3>3. included' = fs BY <1>2, <2>1, <2>3, <3>1, <3>2, BelowMoves
    <3>4. SumsOf(fs) BY <2>5, <3>2 DEF Measured
    <3>5. QED BY <1>10, <2>1, <2>2, <3>1, <3>3, <3>4
  <2>6. CASE pc # "sizes"
    <3>1. pc' \notin {"entry", "tree", "sizes", "layout"}
      BY <2>1, <2>6 DEF NextFile, Following, Loops
    <3>2. QED BY <2>1, <2>2, <3>1, MeasuredElsewhere
  <2>7. QED BY <2>4, <2>5, <2>6
<1>17. CASE AddSizes
  <2>1. /\ pc = "sizes" /\ lib \in included /\ value' = Sum3 /\ included' = included /\ aout' = aout
        /\ total' = IF IsBin THEN SizeOfBin ELSE total
    BY <1>17 DEF AddSizes
  <2>2. error = "none" /\ lib \in 1..N BY <2>1 DEF Shape, Loops
  <2>3. PICK fs : fs = Before OBVIOUS
  <2>4. PICK new : new = Before \cup {lib} BY Zenon
  <2>5. Below(lib + 1) = new /\ lib \notin fs /\ fs \in SUBSET (1..N) /\ new \in SUBSET (1..N)
        /\ new \in SUBSET included
    <3>1. Below(lib + 1) = new /\ lib \notin fs
      BY <1>2, <2>1, <2>2, <2>3, <2>4, BelowMoves DEF Before
    <3>2. fs \in SUBSET included BY <2>3 DEF Before, Below
    <3>3. QED BY <1>2, <2>1, <2>3, <2>4, <3>1, <3>2
  <2>6. \A seg \in Segments : /\ Total(seg, fs) \in Nat /\ Total(seg, new) \in Nat
                              /\ Total(seg, included) \in Nat
                              /\ Total(seg, new) = Total(seg, fs) + Files[lib][seg]
                              /\ Total(seg, new) <= Total(seg, included)
    <3>1. TAKE seg \in Segments
    <3>2. /\ Total(seg, fs) \in Nat
          /\ \A f \in 1..N : f \notin fs => Total(seg, fs \cup {f}) = Total(seg, fs) + Files[f][seg]
      BY <1>2, <2>5, Totals
    <3>3. Total(seg, new) = Total(seg, fs) + Files[lib][seg] BY <2>2, <2>3, <2>4, <2>5, <3>2
    <3>4. Total(seg, new) \in Nat BY <1>2, <2>5, Totals
    <3>5. Total(seg, included) \in Nat /\ Total(seg, new) <= Total(seg, included)
      BY <1>2, <2>5, Totals
    <3>6. QED BY <3>2, <3>3, <3>4, <3>5
  <2>7. /\ value["__etext"] = (IF IsBin THEN JumpLen ELSE 0) + Total("text", fs)
        /\ value["__edata"] = Total("data", fs)
        /\ value["__end"] = job.stack + Total("bss", fs)
        /\ value["__segoff"] = 0
        /\ aout = Zero
        /\ fs = {} => total = Origin
        /\ IsBin /\ fs # {} =>
              total >= Origin + value["__etext"] + value["__edata"] + value["__end"]
    BY <2>1, <2>3 DEF Measured, SumsOf
  <2>8. /\ Sum3["__etext"] = value["__etext"] + Files[lib].text
        /\ Sum3["__edata"] = value["__edata"] + Files[lib].data
        /\ Sum3["__end"] = value["__end"] + Files[lib].bss
        /\ Sum3["__segoff"] = value["__segoff"]
    BY <1>2, <2>2, Sum3Is
  <2>9. /\ Files[lib].text \in Nat /\ Files[lib].data \in Nat /\ Files[lib].bss \in Nat
        /\ Total("text", new) \in Nat /\ Total("data", new) \in Nat /\ Total("bss", new) \in Nat
        /\ Total("text", new) = Total("text", fs) + Files[lib].text
        /\ Total("data", new) = Total("data", fs) + Files[lib].data
        /\ Total("bss", new) = Total("bss", fs) + Files[lib].bss
        /\ Total("text", fs) \in Nat /\ Total("data", fs) \in Nat /\ Total("bss", fs) \in Nat
        /\ Total("text", new) <= Total("text", included) /\ Total("text", included) \in Nat
        /\ Total("data", new) <= Total("data", included) /\ Total("data", included) \in Nat
        /\ Total("bss", new) <= Total("bss", included) /\ Total("bss", included) \in Nat
    BY <1>3, <1>6, <2>2, <2>6
  <2>10. /\ Sum3["__etext"] = (IF IsBin THEN JumpLen ELSE 0) + Total("text", new)
         /\ Sum3["__edata"] = Total("data", new)
         /\ Sum3["__end"] = job.stack + Total("bss", new)
         /\ Sum3["__segoff"] = 0
    BY <1>3, <2>7, <2>8, <2>9 DEF JumpLen
  <2>11. /\ Sum3["__etext"] \in Nat /\ Sum3["__edata"] \in Nat /\ Sum3["__end"] \in Nat
    BY <1>3, <2>9, <2>10 DEF JumpLen
  <2>12. IsBin => total >= Origin /\ (fs = {} => total = Origin)
    <3>1. value["__etext"] \in Nat /\ value["__edata"] \in Nat /\ value["__end"] \in Nat
      BY <1>2, LinkersNames
    <3>2. QED BY <1>2, <1>3, <2>7, <3>1
  <2>13. SizeOfBin = total + Sum3["__etext"] + Sum3["__edata"] + Sum3["__end"] BY DEF SizeOfBin
  <2>14. CASE Overflows
    <3>1. pc' = "failed" BY <1>17, <2>14 DEF AddSizes, Fail
    <3>2. CASE ~IsBin
      <4>1. Sum3["__etext"] >= 65520 \/ Sum3["__edata"] + Sum3["__end"] >= 65504
        BY <2>14, <3>2 DEF Overflows
      <4>2. TextLen >= 65520 \/ DataLen + BssLen >= 65504
        BY <1>3, <2>9, <2>10, <3>2, <4>1 DEF TextLen, DataLen, BssLen
      <4>3. OverflowIsReal'
        BY <1>1, <1>4, <2>1, <3>2, <4>2 DEF OverflowIsReal, TextLen, DataLen, BssLen
      <4>4. QED BY <3>1, <4>3 DEF Measured
    <3>3. CASE IsBin /\ OneFile
      <4>1. included = new /\ fs = {}
        <5>1. \A g \in included : g = lib BY <2>1, <3>3 DEF OneFile
        <5>2. fs \subseteq included BY <2>3 DEF Before, Below
        <5>3. fs = {} BY <2>5, <5>1, <5>2
        <5>4. included = new BY <2>1, <2>3, <2>4, <5>1, <5>3
        <5>5. QED BY <5>3, <5>4
      <4>2. SizeOfBin >= 65504 BY <2>14, <3>3 DEF Overflows
      <4>3. Origin + JumpLen + TextLen + DataLen + BssLen >= 65504
        <5>1. total = Origin BY <2>12, <3>3, <4>1
        <5>2. /\ TextLen = Total("text", new) /\ DataLen = Total("data", new)
              /\ BssLen = job.stack + Total("bss", new)
          BY <4>1 DEF TextLen, DataLen, BssLen
        <5>3. Sum3["__etext"] = JumpLen + TextLen /\ Sum3["__edata"] = DataLen
              /\ Sum3["__end"] = BssLen
          BY <2>10, <3>3, <5>2
        <5>4. QED BY <1>3, <2>9, <2>13, <4>2, <5>1, <5>2, <5>3 DEF JumpLen
      <4>4. OverflowIsReal'
        BY <1>1, <1>4, <2>1, <3>3, <4>3 DEF OverflowIsReal, TextLen, DataLen, BssLen, JumpLen
      <4>5. QED BY <3>1, <4>4 DEF Measured
    <3>4. CASE IsBin /\ ~OneFile
      <4>1. IsBin' /\ ~OneFile' BY <1>1, <2>1, <3>4 DEF OneFile
      <4>2. QED BY <3>1, <4>1 DEF Measured, OverflowIsReal
    <3>5. QED BY <3>2, <3>3, <3>4
  <2>15. CASE ~Overflows
    <3>1. NextFile /\ error' = error BY <1>17, <2>15 DEF AddSizes
    <3>2. /\ value'["__etext"] = (IF IsBin THEN JumpLen ELSE 0) + Total("text", new)
          /\ value'["__edata"] = Total("data", new)
          /\ value'["__end"] = job.stack + Total("bss", new)
          /\ value'["__segoff"] = 0
          /\ aout' = Zero
      BY <2>1, <2>7, <2>10
    <3>3. /\ new # {}
          /\ IF IsBin
             THEN /\ total' >= Origin + value'["__etext"] + value'["__edata"] + value'["__end"]
                  /\ total' < 65504
             ELSE value'["__etext"] < 65520 /\ value'["__edata"] + value'["__end"] < 65504
      <4>1. new # {} BY <2>4
      <4>2. CASE IsBin
        <5>1. ~(SizeOfBin >= 65504) /\ total' = SizeOfBin BY <2>1, <2>15, <4>2 DEF Overflows
        <5>2. QED BY <1>2, <1>3, <2>1, <2>11, <2>12, <2>13, <4>1, <4>2, <5>1
      <4>3. CASE ~IsBin
        <5>1. ~(Sum3["__etext"] >= 65520 \/ Sum3["__edata"] + Sum3["__end"] >= 65504)
          BY <2>15, <4>3 DEF Overflows
        <5>2. QED BY <2>1, <2>11, <4>1, <4>3, <5>1
      <4>4. QED BY <4>2, <4>3
    <3>4. CASE lib < N
      <4>1. pc' = "sizes" /\ lib' = lib + 1 BY <2>1, <3>1, <3>4 DEF NextFile
      <4>2. Before' = new BY <2>1, <2>5, <4>1 DEF Before, Below
      <4>3. SumsOf(Before)' BY <1>1, <1>4, <3>2, <3>3, <4>2 DEF SumsOf
      <4>4. QED BY <2>2, <3>1, <4>1, <4>3 DEF Measured, OverflowIsReal
    <3>5. CASE ~(lib < N)
      <4>1. pc' = "layout" /\ lib = N BY <1>3, <2>1, <2>2, <3>1, <3>5 DEF NextFile, Following
      <4>2. included' = new BY <1>2, <2>1, <2>5, <4>1, BelowMoves
      <4>3. SumsOf(included)' BY <1>1, <1>4, <3>2, <3>3, <4>2 DEF SumsOf
      <4>4. QED BY <2>2, <3>1, <4>1, <4>3 DEF Measured, OverflowIsReal
    <3>6. QED BY <3>4, <3>5
  <2>16. QED BY <2>14, <2>15
<1>18. CASE Layout \/ SeekData \/ AfterData \/ Finish
  <2>1. pc \in {"layout", "datapos", "tail", "finish"} /\ pc' \in {"text", "data", "values", "done"}
        /\ error' = error
    BY <1>18 DEF Layout, LayoutBin, LayoutAout, SeekData, AfterData, Finish
  <2>2. error = "none" BY <2>1 DEF Shape
  <2>3. QED BY <2>1, <2>2, MeasuredElsewhere
<1>19. ASSUME NEW seg \in {"text", "data"}, Copy(seg) PROVE Measured'
  <2>1. pc \in {"text", "data"} /\ pc' \in {pc, Following[pc]} /\ error' = error
    BY <1>19 DEF Copy, NextFile
  <2>2. pc' \notin {"entry", "tree", "sizes", "layout"} BY <2>1 DEF Following
  <2>3. error = "none" BY <2>1 DEF Shape
  <2>4. QED BY <2>1, <2>2, <2>3, MeasuredElsewhere
<1>20. CASE NextObject \/ SetValue \/ Relocate
  <2>1. pc \in {"values", "reloc"} /\ pc' \in {pc, Following[pc], "crashed"} /\ error' = error
    BY <1>20 DEF NextObject, SetValue, Relocate, NextFile
  <2>2. pc' \notin {"entry", "tree", "sizes", "layout"} BY <2>1 DEF Following
  <2>3. error = "none" BY <2>1 DEF Shape
  <2>4. QED BY <2>1, <2>2, <2>3, MeasuredElsewhere
<1>21. QED
  BY <1>11, <1>12, <1>13, <1>14, <1>15, <1>16, <1>17, <1>18, <1>19, <1>20, Zenon DEF Next, Link
-----------------------------------------------------------------------------
\* Once the layout is made, only the values of the objects' own symbols change.
LEMMA AfterLayout ==
    ASSUME Shape, [Next]_vars, pc \in LaidOutPcs
    PROVE  /\ pc' \in LaidOutPcs /\ included' = included /\ aout' = aout
           /\ \A n \in LinkerNames : value'[n] = value[n]
<1>1. CASE UNCHANGED vars BY <1>1 DEF vars, symtab
<1>2. CASE NoEntry \/ Entry \/ TreeNextFile \/ TreeReturn \/ TreeGlobal \/ TreeRef
           \/ TreeNotFound \/ NamesOverflow \/ AddSizes \/ Layout
  BY <1>2 DEF LaidOutPcs, NoEntry, Entry, TreeNextFile, TreeReturn, TreeGlobal, TreeRef,
              TreeNotFound, NamesOverflow, AddSizes, Layout, LayoutBin, LayoutAout
<1>3. CASE SkipFile BY <1>3 DEF SkipFile, NextFile, Following, LaidOutPcs, symtab
<1>4. ASSUME NEW seg \in {"text", "data"}, Copy(seg)
      PROVE  /\ pc' \in LaidOutPcs /\ included' = included /\ aout' = aout
             /\ \A n \in LinkerNames : value'[n] = value[n]
  BY <1>4 DEF Copy, NextFile, Following, LaidOutPcs, symtab
<1>5. CASE SeekData \/ AfterData \/ Finish
  BY <1>5 DEF SeekData, AfterData, Finish, LaidOutPcs, symtab
<1>6. CASE NextObject BY <1>6 DEF NextObject, NextFile, Following, LaidOutPcs, symtab
<1>7. CASE Relocate BY <1>7 DEF Relocate, LaidOutPcs, symtab
<1>8. CASE SetValue
  <2>1. pc = "values" /\ pc' \in {"values", "crashed"} /\ included' = included /\ aout' = aout
    BY <1>8 DEF SetValue
  <2>2. CASE value' = value BY <2>1, <2>2 DEF LaidOutPcs
  <2>3. CASE value' # value
    <3>1. lib \in included /\ More /\ Sym.kind = "global"
          /\ value' = [value EXCEPT ![Sym.name] = off[Sym.seg] + Sym.off]
      BY <1>8, <2>3 DEF SetValue, symtab
    <3>2. lib \in 1..N /\ s \in Nat \ {0} /\ job \in Jobs BY <3>1 DEF Shape, TypeOK
    <3>3. s \in DOMAIN Files[lib].syms BY <3>1, <3>2, JobTyped DEF More
    <3>4. Sym \in Global \cup Ref BY <3>2, <3>3, JobTyped DEF Sym
    <3>5. Sym.name \notin LinkerNames BY <3>1, <3>4, SymTyped
    <3>6. value \in [Names -> Nat] BY ShapeFacts
    <3>7. \A n \in LinkerNames : value'[n] = value[n] BY <3>1, <3>5, <3>6, LinkersNames
    <3>8. QED BY <2>1, <3>7 DEF LaidOutPcs
  <2>4. QED BY <2>2, <2>3
<1>9. QED BY <1>1, <1>2, <1>3, <1>4, <1>5, <1>6, <1>7, <1>8, Zenon DEF Next, Link

\* What follows from the command line, the linked files and the layout.
LEMMA LinkedSame ==
    ASSUME [Next]_vars, included' = included
    PROVE  /\ TextLen' = TextLen /\ DataLen' = DataLen /\ BssLen' = BssLen /\ Fit' = Fit
           /\ \A f : Below(f)' = Below(f)
           /\ aout' = aout => EndText' = EndText /\ EndData' = EndData /\ EndBss' = EndBss
                              /\ DataBase' = DataBase
<1>1. job' = job /\ Origin' = Origin /\ IsBin' = IsBin /\ HeaderLen' = HeaderLen BY SameJob
<1>2. \A seg, fs : Total(seg, fs)' = Total(seg, fs) BY TotalSame
<1>3. TextLen' = TextLen /\ DataLen' = DataLen /\ BssLen' = BssLen
  BY <1>1, <1>2 DEF TextLen, DataLen, BssLen
<1>4. Fit' = Fit BY <1>1, <1>3 DEF Fit, JumpLen
<1>5. \A f : Below(f)' = Below(f) BY DEF Below
<1>6. aout' = aout => EndText' = EndText /\ EndData' = EndData BY <1>1, <1>3 DEF EndText, EndData, JumpLen
<1>7. aout' = aout => EndBss' = EndBss BY <1>1, <1>3, <1>6 DEF EndBss
<1>8. aout' = aout => DataBase' = DataBase BY <1>1, <1>3 DEF DataBase
<1>9. QED BY <1>3, <1>4, <1>5, <1>6, <1>7, <1>8

LaidOutWhenSo == pc \in LaidOutPcs => LaidOut

LEMMA LaidOutNext ==
    ASSUME Shape, Measured, LaidOutWhenSo, [Next]_vars
    PROVE  LaidOutWhenSo'
<1>1. job' = job /\ IsBin' = IsBin BY SameJob
<1>2. job \in Jobs /\ value \in [Names -> Nat] /\ included \subseteq 1..N /\ total \in Nat
  BY ShapeFacts
<1>3. Origin \in Nat BY <1>2, JobNumbers
<1>4. TextLen \in Nat /\ DataLen \in Nat /\ BssLen \in Nat BY <1>2, TotalsTyped
<1>5. CASE pc \in LaidOutPcs
  <2>1. included' = included /\ aout' = aout /\ \A n \in LinkerNames : value'[n] = value[n]
    BY <1>5, AfterLayout
  <2>2. /\ value'["__etext"] = value["__etext"] /\ value'["__edata"] = value["__edata"]
        /\ value'["__end"] = value["__end"] /\ value'["__segoff"] = value["__segoff"]
    BY <2>1 DEF LinkerNames
  <2>3. LaidOut BY <1>5 DEF LaidOutWhenSo
  <2>4. /\ TextLen' = TextLen /\ DataLen' = DataLen /\ BssLen' = BssLen /\ Fit' = Fit
        /\ EndText' = EndText /\ EndData' = EndData /\ EndBss' = EndBss
    BY <2>1, LinkedSame
  <2>5. QED BY <1>1, <2>1, <2>2, <2>3, <2>4 DEF LaidOutWhenSo, LaidOut, Zero, Round16
<1>6. CASE Layout
  <2>1. pc = "layout" /\ included' = included BY <1>6 DEF Layout, LayoutBin, LayoutAout
  <2>2. SumsOf(included) /\ included # {} BY <2>1 DEF Measured, Shape
  <2>3. /\ value["__etext"] = (IF IsBin THEN JumpLen ELSE 0) + TextLen
        /\ value["__edata"] = DataLen /\ value["__end"] = BssLen
        /\ value["__segoff"] = 0 /\ aout = Zero
        /\ IF IsBin
           THEN /\ total >= Origin + value["__etext"] + value["__edata"] + value["__end"]
                /\ total < 65504
           ELSE value["__etext"] < 65520 /\ value["__edata"] + value["__end"] < 65504
    BY <2>2 DEF SumsOf, TextLen, DataLen, BssLen
  <2>4. Fit BY <1>2, <1>3, <1>4, <2>3 DEF Fit, JumpLen
  <2>5. TextLen' = TextLen /\ DataLen' = DataLen /\ BssLen' = BssLen /\ Fit' = Fit
    BY <2>1, LinkedSame
  <2>6. CASE LayoutBin
    <3>1. IsBin /\ aout' = aout BY <2>6 DEF LayoutBin
    <3>2. job.fmt # "v7tiny" BY <3>1 DEF IsBin, Bin
    <3>3. /\ EndText' = JumpLen + TextLen /\ EndData' = JumpLen + TextLen + DataLen
          /\ EndBss' = JumpLen + TextLen + DataLen + BssLen
      BY <1>1, <2>5, <3>1, <3>2 DEF EndText, EndData, EndBss, JumpLen
    <3>4. /\ value'["__etext"] = JumpLen + TextLen
          /\ value'["__edata"] = JumpLen + TextLen + DataLen
          /\ value'["__end"] = JumpLen + TextLen + DataLen + BssLen
          /\ value'["__segoff"] = 0
      <4>1. /\ value'["__etext"] = value["__etext"]
            /\ value'["__edata"] = value["__edata"] + value["__etext"]
            /\ value'["__end"] = value["__end"] + value["__edata"] + value["__etext"]
            /\ value'["__segoff"] = value["__segoff"]
        BY <1>2, <2>6, LaidOutBinIs
      <4>2. QED BY <1>4, <2>3, <3>1, <4>1 DEF JumpLen
    <3>5. aout'.text \div 16 = 0 BY <2>3, <3>1 DEF Zero
    <3>6. Zero' = Zero BY DEF Zero
    <3>7. QED BY <1>1, <2>3, <2>4, <2>5, <3>1, <3>3, <3>4, <3>5, <3>6 DEF LaidOutWhenSo, LaidOut
  <2>7. CASE LayoutAout
    <3>1. ~IsBin BY <2>7 DEF LayoutAout
    <3>2. /\ Rounded \in Sizes /\ aout' = Rounded
          /\ value'["__segoff"] = Rounded.text \div 16
          /\ value'["__etext"] = Rounded.text
          /\ value'["__edata"] = IF job.fmt = "v7tiny" THEN Rounded.text + Rounded.data
                                 ELSE Rounded.data
          /\ value'["__end"] = value'["__edata"] + Rounded.bss
      BY <1>2, <2>7, LaidOutAoutIs
    <3>3. Rounded = [text |-> Round16(TextLen), data |-> Round16(DataLen), bss |-> Round16(BssLen)]
      <4>1. value["__etext"] = TextLen BY <1>4, <2>3, <3>1
      <4>2. QED BY <2>3, <4>1 DEF Rounded
    <3>4. /\ EndText' = aout'.text
          /\ EndData' = IF job.fmt = "v7tiny" THEN aout'.text + aout'.data ELSE aout'.data
          /\ EndBss' = EndData' + aout'.bss
      BY <1>1, <3>1 DEF EndText, EndData, EndBss
    <3>5. aout' = [text |-> Round16(TextLen), data |-> Round16(DataLen), bss |-> Round16(BssLen)]
      BY <3>2, <3>3
    <3>6. \A n : Round16(n)' = Round16(n) BY DEF Round16
    <3>7. aout' = [text |-> Round16(TextLen'), data |-> Round16(DataLen'), bss |-> Round16(BssLen')]
      BY <2>5, <3>5
    <3>8. LaidOut'
      BY <1>1, <2>4, <2>5, <3>1, <3>2, <3>4, <3>7 DEF LaidOut, Round16
    <3>9. QED BY <3>8 DEF LaidOutWhenSo
  <2>8. QED BY <1>6, <2>6, <2>7 DEF Layout
<1>7. CASE pc \notin LaidOutPcs /\ ~Layout
  <2>1. pc' \notin LaidOutPcs
    <3>1. CASE UNCHANGED vars BY <1>7, <3>1 DEF vars
    <3>2. CASE NoEntry \/ Entry \/ TreeNextFile \/ TreeReturn \/ TreeGlobal \/ TreeRef
               \/ TreeNotFound \/ NamesOverflow
      BY <3>2 DEF LaidOutPcs, NoEntry, Entry, TreeNextFile, TreeReturn, TreeGlobal, TreeRef,
                  TreeNotFound, NamesOverflow, Fail
    <3>3. CASE SkipFile \/ AddSizes
      BY <1>7, <3>3 DEF LaidOutPcs, SkipFile, AddSizes, Fail, NextFile, Following
    <3>4. ASSUME NEW seg \in {"text", "data"}, Copy(seg) PROVE FALSE
      BY <1>7, <3>4 DEF LaidOutPcs, Copy
    <3>5. CASE SeekData \/ AfterData \/ NextObject \/ SetValue \/ Relocate \/ Finish
      BY <1>7, <3>5 DEF LaidOutPcs, SeekData, AfterData, NextObject, SetValue, Relocate, Finish
    <3>6. QED BY <1>7, <3>1, <3>2, <3>3, <3>4, <3>5, Zenon DEF Next, Link
  <2>2. QED BY <2>1 DEF LaidOutWhenSo
<1>8. QED BY <1>5, <1>6, <1>7
-----------------------------------------------------------------------------
\* What is written, when the layout stands and when a file is copied.
LEMMA PiecesSame ==
    ASSUME [Next]_vars, included' = included, aout' = aout
    PROVE  /\ \A f : TextAt(f)' = TextAt(f) /\ DataAt(f)' = DataAt(f)
           /\ \A fs : TextPieces(fs)' = TextPieces(fs) /\ DataPieces(fs)' = DataPieces(fs)
<1>1. Files' = Files /\ HeaderLen' = HeaderLen BY SameJob
<1>2. \A f : Below(f)' = Below(f) BY LinkedSame
<1>3. DataBase' = DataBase BY LinkedSame
<1>4. \A seg, fs : Total(seg, fs)' = Total(seg, fs) BY TotalSame
<1>5. \A f : TextAt(f)' = TextAt(f) BY <1>1, <1>2, <1>4 DEF TextAt
<1>6. \A f : DataAt(f)' = DataAt(f) BY <1>2, <1>3, <1>4 DEF DataAt
<1>7. \A f, seg, pos : Piece(f, seg, pos)' = Piece(f, seg, pos) BY <1>1 DEF Piece, SizeOf
<1>8. \A fs : TextPieces(fs)' = TextPieces(fs) BY <1>5, <1>7 DEF TextPieces
<1>9. \A fs : DataPieces(fs)' = DataPieces(fs) BY <1>6, <1>7 DEF DataPieces
<1>10. QED BY <1>5, <1>6, <1>8, <1>9

LEMMA OnePieceMore ==
    /\ TextPieces({}) = {} /\ DataPieces({}) = {}
    /\ \A fs, f : TextPieces(fs \cup {f}) = TextPieces(fs) \cup {Piece(f, "text", TextAt(f))}
    /\ \A fs, f : DataPieces(fs \cup {f}) = DataPieces(fs) \cup {Piece(f, "data", DataAt(f))}
BY DEF TextPieces, DataPieces

\* The places of the copying loops, once more.
LEMMA CopiedAt ==
    ASSUME NEW ts, NEW ds, pieces' = TextPieces(ts)' \cup DataPieces(ds)',
           \/ pc' = "text" /\ ts = Before' /\ ds = {}
              /\ at' = HeaderLen' + Total("text", Before)'
           \/ pc' = "datapos" /\ ts = included' /\ ds = {} /\ at' = HeaderLen' + TextLen'
           \/ pc' = "data" /\ ts = included' /\ ds = Before'
              /\ at' = DataBase' + Total("data", Before)'
           \/ pc' \in {"tail", "values", "reloc", "finish", "done"} /\ ts = included'
              /\ ds = included'
    PROVE  Copied'
<1>1. CASE pc' = "text" BY <1>1 DEF Copied, Written
<1>2. CASE pc' = "datapos" BY <1>2 DEF Copied, Written
<1>3. CASE pc' = "data" BY <1>3 DEF Copied, Written
<1>4. CASE pc' \in {"tail", "values", "reloc", "finish", "done"} BY <1>4 DEF Copied, Written
<1>5. QED BY <1>1, <1>2, <1>3, <1>4

LEMMA CopiedInit == Init => Copied
BY DEF Init, Copied

LEMMA CopiedNext ==
    ASSUME Shape, Copied, [Next]_vars
    PROVE  Copied'
<1>1. job' = job /\ IsBin' = IsBin /\ HeaderLen' = HeaderLen BY SameJob
<1>2. job \in Jobs /\ included \subseteq 1..N /\ N \in Nat /\ HeaderLen \in Nat
  BY ShapeFacts, JobNumbers
<1>3. \A seg, fs : Total(seg, fs)' = Total(seg, fs) BY TotalSame
<1>4. \A seg \in Segments : Total(seg, {}) = 0 BY <1>2, Totals
<1>5. {"text", "data"} \subseteq Segments BY DEF Segments
<1>6. lib = 1 => Before = {}
  <2>1. ASSUME lib = 1, NEW g \in included PROVE ~(g < lib) BY <1>2, <2>1
  <2>2. QED BY <2>1 DEF Before, Below
<1>7. lib' = 1 /\ included' = included => Before' = {}
  <2>1. ASSUME lib' = 1, NEW g \in included PROVE ~(g < lib') BY <1>2, <2>1
  <2>2. QED BY <2>1 DEF Before, Below
<1>8. CASE pc \in {"entry", "tree", "sizes", "layout"} /\ ~Layout
  <2>1. pieces = {} BY <1>8 DEF Copied
  <2>2. pieces' = pieces /\ pc' \in {"entry", "tree", "sizes", "layout", "failed"}
    <3>1. CASE UNCHANGED vars BY <1>8, <3>1 DEF vars, output
    <3>2. CASE NoEntry \/ Entry BY <3>2 DEF NoEntry, Entry, Fail, output
    <3>3. CASE TreeNextFile \/ TreeReturn \/ TreeGlobal \/ TreeRef
               \/ TreeNotFound \/ NamesOverflow
      BY <3>3 DEF TreeNextFile, TreeReturn, TreeGlobal, TreeRef, TreeNotFound,
                  NamesOverflow, Fail, output
    <3>4. CASE SkipFile BY <1>8, <3>4 DEF SkipFile, NextFile, Following, output
    <3>5. CASE AddSizes BY <1>8, <3>5 DEF AddSizes, NextFile, Following, Fail, output
    <3>6. ASSUME NEW seg \in {"text", "data"}, Copy(seg) PROVE FALSE
      BY <1>8, <3>6 DEF Copy
    <3>7. CASE SeekData \/ AfterData \/ NextObject \/ SetValue \/ Relocate \/ Finish
      BY <1>8, <3>7 DEF SeekData, AfterData, NextObject, SetValue, Relocate, Finish
    <3>8. QED BY <1>8, <3>1, <3>2, <3>3, <3>4, <3>5, <3>6, <3>7, Zenon DEF Next, Link
  <2>3. QED BY <2>1, <2>2 DEF Copied
<1>9. CASE Layout
  <2>1. pc = "layout" /\ pc' = "text" /\ pieces' = pieces /\ at' = HeaderLen
        /\ included' = included /\ lib' = lib
    BY <1>9 DEF Layout, LayoutBin, LayoutAout
  <2>2. pieces = {} /\ lib = 1 BY <2>1 DEF Copied, Shape, Loops
  <2>3. PICK none : none = {} BY Zenon
  <2>4. TextPieces(none)' = {} /\ DataPieces(none)' = {} BY <2>3 DEF TextPieces, DataPieces
  <2>5. Before' = none BY <1>7, <2>1, <2>2, <2>3
  <2>6. Total("text", Before)' = 0
    <3>1. Total("text", Before)' = Total("text", none)' BY <2>5
    <3>2. Total("text", none)' = Total("text", none) BY <1>3
    <3>3. QED BY <1>4, <1>5, <2>3, <3>1, <3>2
  <2>7. at' = HeaderLen' + Total("text", Before)' BY <1>1, <1>2, <2>1, <2>6
  <2>8. pieces' = TextPieces(none)' \cup DataPieces(none)' BY <2>1, <2>2, <2>4
  <2>9. QED BY <2>1, <2>3, <2>5, <2>7, <2>8, CopiedAt
<1>10. CASE pc \in LaidOutPcs
  <2>1. included' = included /\ aout' = aout /\ pc' \in LaidOutPcs BY <1>10, AfterLayout
  <2>2. \A fs : TextPieces(fs)' = TextPieces(fs) /\ DataPieces(fs)' = DataPieces(fs)
    BY <2>1, PiecesSame
  <2>3. TextLen' = TextLen /\ DataBase' = DataBase BY <2>1, LinkedSame
  <2>4. CASE pc \in {"tail", "values", "reloc", "finish", "done"}
    <3>1. pieces' = pieces /\ pc' \in {"tail", "values", "reloc", "finish", "done", "crashed"}
      <4>1. CASE UNCHANGED vars BY <2>4, <4>1 DEF vars, output
      <4>2. CASE NoEntry \/ Entry \/ TreeNextFile \/ TreeReturn \/ TreeGlobal \/ TreeRef
                 \/ TreeNotFound \/ NamesOverflow \/ AddSizes \/ Layout
        BY <2>4, <4>2 DEF NoEntry, Entry, TreeNextFile, TreeReturn, TreeGlobal, TreeRef,
                          TreeNotFound, NamesOverflow, AddSizes, Layout, LayoutBin, LayoutAout
      <4>3. CASE SkipFile BY <2>4, <4>3 DEF SkipFile, NextFile, Following, output
      <4>4. ASSUME NEW seg \in {"text", "data"}, Copy(seg) PROVE FALSE
        BY <2>4, <4>4 DEF Copy
      <4>5. CASE SeekData \/ AfterData \/ Finish
        BY <2>4, <4>5 DEF SeekData, AfterData, Finish
      <4>6. CASE NextObject BY <2>4, <4>6 DEF NextObject, NextFile, Following, output
      <4>7. CASE SetValue \/ Relocate BY <2>4, <4>7 DEF SetValue, Relocate, output
      <4>8. QED BY <4>1, <4>2, <4>3, <4>4, <4>5, <4>6, <4>7, Zenon DEF Next, Link
    <3>2. CASE pc' = "crashed" BY <3>2 DEF Copied
    <3>3. CASE pc' # "crashed"
      <4>1. PICK fs : fs = included OBVIOUS
      <4>2. pieces = TextPieces(fs) \cup DataPieces(fs) BY <2>4, <4>1 DEF Copied, Written
      <4>3. pieces' = TextPieces(fs)' \cup DataPieces(fs)' BY <2>2, <3>1, <4>2
      <4>4. included' = fs BY <2>1, <4>1
      <4>5. QED BY <3>1, <3>3, <4>3, <4>4, CopiedAt
    <3>4. QED BY <3>2, <3>3
  <2>5. CASE UNCHANGED vars /\ pc \in {"text", "datapos", "data"}
    <3>1. pc' = pc /\ pieces' = pieces /\ at' = at /\ lib' = lib BY <2>5 DEF vars, output
    <3>2. Before' = Before BY <2>1, <3>1 DEF Before, Below
    <3>3. PICK b : b = Before OBVIOUS
    <3>4. PICK fs : fs = included OBVIOUS
    <3>5. PICK none : none = {} BY Zenon
    <3>6. Total("text", b)' = Total("text", b) /\ Total("data", b)' = Total("data", b) BY <1>3
    <3>7. Total("text", Before)' = Total("text", Before) /\ Total("data", Before)' = Total("data", Before)
      BY <3>2, <3>3, <3>6
    <3>8. CASE pc = "text"
      <4>1. pieces = TextPieces(b) \cup DataPieces(none) /\ at = HeaderLen + Total("text", Before)
        BY <3>3, <3>5, <3>8 DEF Copied, Written
      <4>2. pieces' = TextPieces(b)' \cup DataPieces(none)' BY <2>2, <3>1, <4>1
      <4>3. QED BY <1>1, <3>1, <3>2, <3>3, <3>5, <3>7, <3>8, <4>1, <4>2, CopiedAt
    <3>9. CASE pc = "datapos"
      <4>1. pieces = TextPieces(fs) \cup DataPieces(none) /\ at = HeaderLen + TextLen
        BY <3>4, <3>5, <3>9 DEF Copied, Written
      <4>2. pieces' = TextPieces(fs)' \cup DataPieces(none)' BY <2>2, <3>1, <4>1
      <4>3. QED BY <1>1, <2>1, <2>3, <3>1, <3>4, <3>5, <3>9, <4>1, <4>2, CopiedAt
    <3>10. CASE pc = "data"
      <4>1. pieces = TextPieces(fs) \cup DataPieces(b) /\ at = DataBase + Total("data", Before)
        BY <3>3, <3>4, <3>10 DEF Copied, Written
      <4>2. pieces' = TextPieces(fs)' \cup DataPieces(b)' BY <2>2, <3>1, <4>1
      <4>3. QED BY <2>1, <2>3, <3>1, <3>2, <3>3, <3>4, <3>7, <3>10, <4>1, <4>2, CopiedAt
    <3>11. QED BY <2>5, <3>8, <3>9, <3>10
  <2>6. CASE SkipFile /\ pc \in {"text", "data"}
    <3>1. lib \notin included /\ NextFile /\ pieces' = pieces /\ at' = at
      BY <2>6 DEF SkipFile, output
    <3>2. lib \in 1..N BY <2>6 DEF Shape, Loops
    <3>3. PICK b : b = Before OBVIOUS
    <3>4. Below(lib + 1) = b BY <1>2, <3>1, <3>2, <3>3, BelowMoves DEF Before
    <3>5. PICK fs : fs = included OBVIOUS
    <3>6. PICK none : none = {} BY Zenon
    <3>7. Total("text", b)' = Total("text", b) /\ Total("data", b)' = Total("data", b) BY <1>3
    <3>8. CASE lib < N
      <4>1. pc' = pc /\ lib' = lib + 1 BY <3>1, <3>8 DEF NextFile
      <4>2. Before' = b BY <2>1, <3>4, <4>1 DEF Before, Below
      <4>3. CASE pc = "text"
        <5>1. pieces = TextPieces(b) \cup DataPieces(none) /\ at = HeaderLen + Total("text", b)
          BY <3>3, <3>6, <4>3 DEF Copied, Written
        <5>2. pieces' = TextPieces(b)' \cup DataPieces(none)' BY <2>2, <3>1, <5>1
        <5>3. at' = HeaderLen' + Total("text", Before)' BY <1>1, <3>1, <3>7, <4>2, <5>1
        <5>4. QED BY <3>6, <4>1, <4>2, <4>3, <5>2, <5>3, CopiedAt
      <4>4. CASE pc = "data"
        <5>1. pieces = TextPieces(fs) \cup DataPieces(b) /\ at = DataBase + Total("data", b)
          BY <3>3, <3>5, <4>4 DEF Copied, Written
        <5>2. pieces' = TextPieces(fs)' \cup DataPieces(b)' BY <2>2, <3>1, <5>1
        <5>3. at' = DataBase' + Total("data", Before)' BY <2>3, <3>1, <3>7, <4>2, <5>1
        <5>4. QED BY <2>1, <3>5, <4>1, <4>2, <4>4, <5>2, <5>3, CopiedAt
      <4>5. QED BY <2>6, <4>3, <4>4
    <3>9. CASE ~(lib < N)
      <4>1. lib = N BY <1>2, <3>2, <3>9
      <4>2. b = fs BY <1>2, <3>4, <3>5, <4>1, BelowMoves
      <4>3. CASE pc = "text"
        <5>1. pieces = TextPieces(b) \cup DataPieces(none) /\ at = HeaderLen + Total("text", b)
          BY <3>3, <3>6, <4>3 DEF Copied, Written
        <5>2. pieces' = TextPieces(b)' \cup DataPieces(none)' BY <2>2, <3>1, <5>1
        <5>3. at' = HeaderLen' + TextLen' BY <1>1, <2>3, <3>1, <3>5, <4>2, <5>1 DEF TextLen
        <5>4. pc' = "datapos" BY <3>1, <3>9, <4>3 DEF NextFile, Following
        <5>5. QED BY <2>1, <3>5, <3>6, <4>2, <5>2, <5>3, <5>4, CopiedAt
      <4>4. CASE pc = "data"
        <5>1. pieces = TextPieces(fs) \cup DataPieces(b) BY <3>3, <3>5, <4>4 DEF Copied, Written
        <5>2. pieces' = TextPieces(fs)' \cup DataPieces(b)' BY <2>2, <3>1, <5>1
        <5>3. pc' = "tail" BY <3>1, <3>9, <4>4 DEF NextFile, Following
        <5>4. QED BY <2>1, <3>5, <4>2, <5>2, <5>3, CopiedAt
      <4>5. QED BY <2>6, <4>3, <4>4
    <3>10. QED BY <3>8, <3>9
  <2>7. CASE SeekData
    <3>1. pc = "datapos" /\ pc' = "data" /\ pieces' = pieces /\ lib' = lib
          /\ at' = IF IsBin THEN at ELSE HeaderLen + aout.text
      BY <2>7 DEF SeekData
    <3>2. lib = 1 BY <3>1 DEF Shape, Loops
    <3>3. PICK none : none = {} BY Zenon
    <3>4. PICK fs : fs = included OBVIOUS
    <3>5. pieces = TextPieces(fs) \cup DataPieces(none) /\ at = HeaderLen + TextLen
      BY <3>1, <3>3, <3>4 DEF Copied, Written
    <3>6. pieces' = TextPieces(fs)' \cup DataPieces(none)' BY <2>2, <3>1, <3>5
    <3>7. Before' = none BY <1>7, <2>1, <3>1, <3>2, <3>3
    <3>8. Total("data", Before)' = 0
      <4>1. Total("data", Before)' = Total("data", none)' BY <3>7
      <4>2. Total("data", none)' = Total("data", none) BY <1>3
      <4>3. QED BY <1>4, <1>5, <3>3, <4>1, <4>2
    <3>9. at' = DataBase /\ DataBase \in Nat
      <4>1. TextLen \in Nat /\ aout \in Sizes BY <1>2, TotalsTyped, ShapeFacts
      <4>2. aout.text \in Nat BY <4>1, SizesTyped
      <4>3. QED BY <1>2, <3>1, <3>5, <4>1, <4>2 DEF DataBase
    <3>10. at' = DataBase' + Total("data", Before)' BY <2>3, <3>8, <3>9
    <3>11. QED BY <2>1, <3>1, <3>4, <3>6, <3>7, <3>10, CopiedAt
  <2>8. ASSUME NEW seg \in {"text", "data"}, Copy(seg) PROVE Copied'
    <3>1. pc = seg /\ lib \in included /\ NextFile /\ at' = at + SizeOf(lib)[seg]
          /\ pieces' = pieces \cup {Piece(lib, seg, at)}
      BY <2>8 DEF Copy, Piece
    <3>2. lib \in 1..N BY <1>2, <3>1
    <3>3. PICK b : b = Before OBVIOUS
    <3>4. PICK l : l = lib OBVIOUS
    <3>5. PICK new : new = b \cup {l} BY Zenon
    <3>6. Below(lib + 1) = new /\ lib \notin b /\ b \in SUBSET (1..N) /\ b = Below(lib)
      <4>1. b = Below(lib) /\ b \subseteq included BY <3>3 DEF Before, Below
      <4>2. b \in SUBSET (1..N) BY <1>2, <4>1, Zenon
      <4>3. Below(lib + 1) = Below(lib) \cup {lib} /\ lib \notin Below(lib)
        BY <1>2, <3>1, <3>2, BelowMoves
      <4>4. QED BY <3>4, <3>5, <4>1, <4>2, <4>3, Zenon
    <3>7. PICK fs : fs = included OBVIOUS
    <3>8. PICK none : none = {} BY Zenon
    <3>9. Total(seg, new)' = Total(seg, new) BY <1>3
    <3>10. Total(seg, new) = Total(seg, b) + SizeOf(lib)[seg] /\ Total(seg, b) \in Nat
           /\ SizeOf(lib)[seg] \in Nat
      <4>1. /\ Total(seg, b) \in Nat
            /\ \A f \in 1..N : f \notin b => Total(seg, b \cup {f}) = Total(seg, b) + Files[f][seg]
        BY <1>2, <1>5, <3>6, Totals
      <4>2. Total(seg, new) = Total(seg, b) + Files[lib][seg] BY <3>2, <3>4, <3>5, <3>6, <4>1
      <4>3. SizeOf(lib)[seg] = Files[lib][seg] BY DEF SizeOf
      <4>4. SizeOf(lib) \in Sizes BY <1>2, <3>2, JobNumbers
      <4>5. SizeOf(lib)[seg] \in Nat BY <1>5, <4>4 DEF Sizes
      <4>6. QED BY <4>1, <4>2, <4>3, <4>5
    <3>11. CASE seg = "text"
      <4>1. pieces = TextPieces(b) \cup DataPieces(none) /\ at = HeaderLen + Total("text", b)
        BY <3>1, <3>3, <3>8, <3>11 DEF Copied, Written
      <4>2. at = TextAt(l) BY <3>4, <3>6, <4>1 DEF TextAt
      <4>3. TextPieces(new) = TextPieces(b) \cup {Piece(l, "text", TextAt(l))}
        BY <3>5, OnePieceMore
      <4>4. pieces' = TextPieces(new) \cup DataPieces(none)
        BY <3>1, <3>4, <3>11, <4>1, <4>2, <4>3
      <4>5. pieces' = TextPieces(new)' \cup DataPieces(none)' BY <2>2, <4>4
      <4>6. at' = HeaderLen' + Total("text", new)' BY <1>1, <1>2, <3>1, <3>9, <3>10, <3>11, <4>1
      <4>7. CASE lib < N
        <5>1. pc' = "text" /\ lib' = lib + 1 BY <3>1, <3>11, <4>7 DEF NextFile
        <5>2. Before' = new BY <2>1, <3>6, <5>1 DEF Before, Below
        <5>3. at' = HeaderLen' + Total("text", Before)' BY <4>6, <5>2
        <5>4. QED BY <3>8, <4>5, <5>1, <5>2, <5>3, CopiedAt
      <4>8. CASE ~(lib < N)
        <5>1. pc' = "datapos" BY <3>1, <3>11, <4>8 DEF NextFile, Following
        <5>2. included' = new
          <6>1. lib = N BY <1>2, <3>2, <4>8
          <6>2. QED BY <1>2, <2>1, <3>6, <6>1, BelowMoves
        <5>3. at' = HeaderLen' + TextLen' BY <4>6, <5>2 DEF TextLen
        <5>4. QED BY <3>8, <4>5, <5>1, <5>2, <5>3, CopiedAt
      <4>9. QED BY <4>7, <4>8
    <3>12. CASE seg = "data"
      <4>1. pieces = TextPieces(fs) \cup DataPieces(b) /\ at = DataBase + Total("data", b)
        BY <3>1, <3>3, <3>7, <3>12 DEF Copied, Written
      <4>2. at = DataAt(l) BY <3>4, <3>6, <4>1 DEF DataAt
      <4>3. DataPieces(new) = DataPieces(b) \cup {Piece(l, "data", DataAt(l))}
        BY <3>5, OnePieceMore
      <4>4. pieces' = TextPieces(fs) \cup DataPieces(new)
        BY <3>1, <3>4, <3>12, <4>1, <4>2, <4>3
      <4>5. pieces' = TextPieces(fs)' \cup DataPieces(new)' BY <2>2, <4>4
      <4>6. DataBase \in Nat
        <5>1. TextLen \in Nat /\ aout \in Sizes BY <1>2, TotalsTyped, ShapeFacts
        <5>2. aout.text \in Nat BY <5>1, SizesTyped
        <5>3. QED BY <1>2, <5>1, <5>2 DEF DataBase
      <4>7. at' = DataBase' + Total("data", new)' BY <2>3, <3>1, <3>9, <3>10, <3>12, <4>1, <4>6
      <4>8. CASE lib < N
        <5>1. pc' = "data" /\ lib' = lib + 1 BY <3>1, <3>12, <4>8 DEF NextFile
        <5>2. Before' = new BY <2>1, <3>6, <5>1 DEF Before, Below
        <5>3. at' = DataBase' + Total("data", Before)' BY <4>7, <5>2
        <5>4. QED BY <2>1, <3>7, <4>5, <5>1, <5>2, <5>3, CopiedAt
      <4>9. CASE ~(lib < N)
        <5>1. pc' = "tail" BY <3>1, <3>12, <4>9 DEF NextFile, Following
        <5>2. included' = new
          <6>1. lib = N BY <1>2, <3>2, <4>9
          <6>2. QED BY <1>2, <2>1, <3>6, <6>1, BelowMoves
        <5>3. QED BY <2>1, <3>7, <4>5, <5>1, <5>2, CopiedAt
      <4>10. QED BY <4>8, <4>9
    <3>13. QED BY <3>11, <3>12
  <2>9. CASE pc = "crashed"
    <3>1. pc' = "crashed"
      <4>1. CASE UNCHANGED vars BY <2>9, <4>1 DEF vars
      <4>2. CASE Link
        BY <2>9, <4>2 DEF Link, NoEntry, Entry, TreeNextFile, TreeReturn, TreeGlobal, TreeRef,
           TreeNotFound,
           NamesOverflow, SkipFile, AddSizes, Layout, LayoutBin, LayoutAout, Copy, SeekData,
           AfterData, NextObject, SetValue, Relocate, Finish
      <4>3. QED BY <4>1, <4>2 DEF Next
    <3>2. QED BY <3>1 DEF Copied
  <2>10. CASE pc \in {"text", "datapos", "data"} /\ ~UNCHANGED vars
    <3>1. Link BY <2>10 DEF Next, Terminated
    <3>2. SkipFile \/ SeekData \/ (\E seg \in {"text", "data"} : Copy(seg))
      BY <2>10, <3>1 DEF Link, NoEntry, Entry, TreeNextFile, TreeReturn, TreeGlobal, TreeRef,
           TreeNotFound, NamesOverflow, AddSizes, Layout, LayoutBin, LayoutAout,
           AfterData, NextObject, SetValue, Relocate, Finish
    <3>3. ASSUME SkipFile PROVE pc \in {"text", "data"} BY <2>10, <3>3 DEF SkipFile
    <3>4. QED BY <2>6, <2>7, <2>8, <3>2, <3>3, Zenon
  <2>11. QED BY <1>10, <2>4, <2>5, <2>9, <2>10 DEF LaidOutPcs
<1>11. CASE pc = "failed"
  <2>1. pc' = "failed"
    <3>1. CASE UNCHANGED vars BY <1>11, <3>1 DEF vars
    <3>2. CASE Link
      BY <1>11, <3>2 DEF Link, NoEntry, Entry, TreeNextFile, TreeReturn, TreeGlobal, TreeRef,
         TreeNotFound,
         NamesOverflow, SkipFile, AddSizes, Layout, LayoutBin, LayoutAout, Copy, SeekData,
         AfterData, NextObject, SetValue, Relocate, Finish
    <3>3. QED BY <3>1, <3>2 DEF Next
  <2>2. QED BY <2>1 DEF Copied
<1>12. pc \in {"entry", "tree", "sizes", "layout", "failed"} \cup LaidOutPcs
  BY DEF Shape, TypeOK, LaidOutPcs
<1>13. QED BY <1>8, <1>9, <1>10, <1>11, <1>12
-----------------------------------------------------------------------------
\* The offsets, file by file.
LEMMA OffAtIs ==
    ASSUME Shape
    PROVE  /\ \A f \in Int : OffAt(f) \in Sizes
           /\ OffAt(1) = Starts
           /\ \A f \in 1..N : f \notin included => OffAt(f + 1) = OffAt(f)
           /\ \A f \in 1..N : f \in included => OffAt(f + 1) = Plus(OffAt(f), SizeOf(f))
<1>1. job \in Jobs /\ included \subseteq 1..N BY ShapeFacts
<1>2. Starts \in Sizes BY StartsTyped
<1>3. \A seg \in Segments : Starts[seg] \in Nat BY <1>2 DEF Sizes
<1>4. \A f \in Int : OffAt(f) \in Sizes
  <2>1. \A seg \in Segments, f \in Int : Total(seg, Below(f)) \in Nat BY <1>1, TotalsTyped
  <2>2. QED BY <1>3, <2>1 DEF OffAt, Sizes
<1>5. OffAt(1) = Starts
  <2>1. Below(1) = {} BY <1>1, BelowMoves
  <2>2. \A seg \in Segments : Total(seg, {}) = 0 BY <1>1, Totals
  <2>3. \A seg \in Segments : OffAt(1)[seg] = Starts[seg] BY <1>3, <2>1, <2>2 DEF OffAt
  <2>4. OffAt(1) \in Sizes BY <1>4
  <2>5. QED BY <1>2, <2>3, <2>4 DEF Sizes
<1>6. ASSUME NEW f \in 1..N, f \notin included PROVE OffAt(f + 1) = OffAt(f)
  <2>1. Below(f + 1) = Below(f) BY <1>1, <1>6, BelowMoves
  <2>2. QED BY <2>1 DEF OffAt
<1>7. ASSUME NEW f \in 1..N, f \in included PROVE OffAt(f + 1) = Plus(OffAt(f), SizeOf(f))
  <2>1. PICK b : b = Below(f) OBVIOUS
  <2>2. Below(f + 1) = b \cup {f} /\ f \notin b BY <1>1, <1>7, <2>1, BelowMoves
  <2>3. b \in SUBSET (1..N)
    <3>1. b \subseteq included BY <2>1 DEF Below
    <3>2. QED BY <1>1, <3>1, Zenon
  <2>4. \A seg \in Segments : Total(seg, b) \in Nat
                              /\ Total(seg, b \cup {f}) = Total(seg, b) + Files[f][seg]
    BY <1>1, <2>2, <2>3, Totals
  <2>5. SizeOf(f) \in Sizes /\ \A seg \in Segments : SizeOf(f)[seg] = Files[f][seg]
    BY <1>1, JobNumbers DEF SizeOf, Segments
  <2>6. \A seg \in Segments : SizeOf(f)[seg] \in Nat BY <2>5 DEF Sizes
  <2>7. \A seg \in Segments : OffAt(f + 1)[seg] = OffAt(f)[seg] + SizeOf(f)[seg]
    <3>1. TAKE seg \in Segments
    <3>2. OffAt(f + 1)[seg] = Starts[seg] + Total(seg, b \cup {f}) BY <2>2, Zenon DEF OffAt
    <3>3. OffAt(f)[seg] = Starts[seg] + Total(seg, b) BY <2>1, Zenon DEF OffAt
    <3>4. Total(seg, b) \in Nat /\ Total(seg, b \cup {f}) = Total(seg, b) + SizeOf(f)[seg]
      BY <2>4, <2>5
    <3>5. Starts[seg] \in Nat /\ SizeOf(f)[seg] \in Nat BY <1>3, <2>6
    <3>6. QED BY <3>2, <3>3, <3>4, <3>5
  <2>8. QED BY <2>7 DEF OffAt, Plus
<1>8. QED BY <1>4, <1>5, <1>6, <1>7

LEMMA OffAtSame ==
    ASSUME Shape, [Next]_vars, pc \in LaidOutPcs
    PROVE  Starts' = Starts /\ \A f : OffAt(f)' = OffAt(f)
<1>1. job' = job /\ IsBin' = IsBin /\ Origin' = Origin BY SameJob
<1>2. included' = included /\ aout' = aout /\ value'["__etext"] = value["__etext"]
      /\ value'["__edata"] = value["__edata"]
  BY AfterLayout DEF LinkerNames
<1>3. Starts' = Starts BY <1>1, <1>2 DEF Starts, JumpLen
<1>4. \A f : Below(f)' = Below(f) BY <1>2, LinkedSame
<1>5. \A seg, fs : Total(seg, fs)' = Total(seg, fs) BY TotalSame
<1>6. \A f : OffAt(f)' = OffAt(f) BY <1>3, <1>4, <1>5 DEF OffAt
<1>7. QED BY <1>3, <1>6

LEMMA OffOKNext ==
    ASSUME Shape, Shape', OffOK, [Next]_vars
    PROVE  OffOK'
<1>1. job \in Jobs /\ included \subseteq 1..N /\ N \in Nat BY ShapeFacts, JobNumbers
<1>2. N' = N BY SameJob
<1>3. SUFFICES ASSUME pc' \in {"values", "reloc"} PROVE OffOK' BY DEF OffOK
<1>4. lib' \in 1..N BY <1>2, <1>3 DEF Shape, Loops
<1>5. PICK l \in 1..N : l = lib' BY <1>4
<1>6. PICK o : o = off' OBVIOUS
<1>7. pc \in LaidOutPcs => Starts' = Starts /\ OffAt(lib)' = OffAt(l) /\ included' = included
  <2>1. SUFFICES ASSUME pc \in LaidOutPcs
                 PROVE  Starts' = Starts /\ OffAt(lib)' = OffAt(l) /\ included' = included
    OBVIOUS
  <2>2. Starts' = Starts /\ OffAt(l)' = OffAt(l) BY <2>1, OffAtSame
  <2>3. OffAt(lib)' = OffAt(l)' BY <1>5
  <2>4. included' = included BY <2>1, AfterLayout
  <2>5. QED BY <2>2, <2>3, <2>4
<1>8. ASSUME pc \in LaidOutPcs, o = IF \E f \in included : f >= l THEN OffAt(l) ELSE Starts
      PROVE  OffOK'
  BY <1>5, <1>6, <1>7, <1>8 DEF OffOK
<1>9. OffAt(1) = Starts BY OffAtIs
<1>10. CASE UNCHANGED vars
  <2>1. pc' = pc /\ off' = off /\ lib' = lib BY <1>10 DEF vars
  <2>2. QED BY <1>3, <1>5, <1>6, <1>8, <2>1 DEF OffOK, LaidOutPcs
<1>11. CASE AfterData
  <2>1. pc = "tail" /\ off' = Starts /\ lib' = lib BY <1>11 DEF AfterData
  <2>2. lib = 1 /\ included # {} BY <2>1 DEF Shape, Loops
  <2>3. QED BY <1>5, <1>6, <1>8, <1>9, <2>1, <2>2 DEF LaidOutPcs
<1>12. CASE SkipFile
  <2>1. pc \in Loops /\ lib \notin included /\ NextFile /\ off' = off
    BY <1>12 DEF SkipFile, Loops
  <2>2. pc \in {"values", "reloc"} BY <1>2, <1>3, <2>1, NextFileShape
  <2>3. off = IF \E f \in included : f >= lib THEN OffAt(lib) ELSE Starts BY <2>2 DEF OffOK
  <2>4. lib \in 1..N BY <2>1 DEF Shape
  <2>5. CASE lib < N
    <3>1. l = lib + 1 BY <1>5, <2>1, <2>5 DEF NextFile
    <3>2. \A f \in included : f >= lib <=> f >= l BY <1>1, <2>1, <2>4, <3>1
    <3>3. OffAt(l) = OffAt(lib) BY <2>1, <2>4, <3>1, OffAtIs
    <3>4. QED BY <1>6, <1>8, <2>1, <2>2, <2>3, <3>2, <3>3 DEF LaidOutPcs
  <2>6. CASE ~(lib < N)
    <3>1. l = 1 /\ lib = N BY <1>1, <1>5, <2>1, <2>4, <2>6 DEF NextFile
    <3>2. \A f \in included : ~(f >= lib) BY <1>1, <2>1, <3>1
    <3>3. o = Starts BY <1>6, <2>1, <2>3, <3>2
    <3>4. QED BY <1>8, <1>9, <2>2, <3>1, <3>3 DEF LaidOutPcs
  <2>7. QED BY <2>5, <2>6
<1>13. CASE NextObject
  <2>1. /\ pc \in {"values", "reloc"} /\ lib \in included /\ NextFile
        /\ off' = IF \E f \in included : f > lib THEN Plus(off, SizeOf(lib)) ELSE Starts
    BY <1>13 DEF NextObject
  <2>2. lib \in 1..N BY <1>1, <2>1
  <2>3. off = OffAt(lib) BY <2>1, <2>2 DEF OffOK
  <2>4. CASE lib < N
    <3>1. l = lib + 1 BY <1>5, <2>1, <2>4 DEF NextFile
    <3>2. \A f \in included : f > lib <=> f >= l BY <1>1, <2>2, <3>1
    <3>3. OffAt(l) = Plus(off, SizeOf(lib)) BY <2>1, <2>2, <2>3, <3>1, OffAtIs
    <3>4. QED BY <1>6, <1>8, <2>1, <3>2, <3>3 DEF LaidOutPcs
  <2>5. CASE ~(lib < N)
    <3>1. l = 1 /\ lib = N BY <1>1, <1>5, <2>1, <2>2, <2>5 DEF NextFile
    <3>2. \A f \in included : ~(f > lib) BY <1>1, <3>1
    <3>3. o = Starts BY <1>6, <2>1, <3>2
    <3>4. QED BY <1>8, <1>9, <2>1, <3>1, <3>3 DEF LaidOutPcs
  <2>6. QED BY <2>4, <2>5
<1>14. CASE SetValue \/ Relocate
  <2>1. pc \in {"values", "reloc"} /\ off' = off /\ lib' = lib
    BY <1>14 DEF SetValue, Relocate
  <2>2. QED BY <1>5, <1>6, <1>8, <2>1 DEF OffOK, LaidOutPcs
<1>15. CASE NoEntry \/ Entry \/ TreeNextFile \/ TreeReturn \/ TreeGlobal \/ TreeRef
            \/ TreeNotFound \/ NamesOverflow
  BY <1>3, <1>15 DEF NoEntry, Entry, TreeNextFile, TreeReturn, TreeGlobal, TreeRef, TreeNotFound,
                     NamesOverflow, Fail
<1>16. CASE AddSizes BY <1>3, <1>16 DEF AddSizes, Fail, NextFile, Following
<1>17. CASE Layout \/ SeekData \/ Finish BY <1>3, <1>17 DEF Layout, SeekData, Finish
<1>18. ASSUME NEW seg \in {"text", "data"}, Copy(seg) PROVE FALSE
  BY <1>3, <1>18 DEF Copy, NextFile, Following
<1>19. QED
  BY <1>10, <1>11, <1>12, <1>13, <1>14, <1>15, <1>16, <1>17, <1>18, Zenon DEF Next, Link
-----------------------------------------------------------------------------
\* A loop over the symbols moves on from a file only when it has passed all of it.
LEMMA PassedMoves ==
    ASSUME Shape, pc \in {"values", "reloc"}, NextFile, lib \notin included \/ ~More,
           NEW f \in included, NEW k \in DOMAIN Files[f].syms,
           pc' = pc => Passed(AtCursor', f, k)
    PROVE  Passed(AtCursor, f, k)
<1>1. job \in Jobs /\ included \subseteq 1..N /\ N \in Nat BY ShapeFacts, JobNumbers
<1>2. f \in 1..N /\ lib \in 1..N /\ s \in Nat \ {0} BY <1>1 DEF Shape, TypeOK, Loops
<1>3. DOMAIN Files[f].syms = 1 .. Len(Files[f].syms) /\ Len(Files[f].syms) \in Nat
  BY <1>1, <1>2, JobTyped
<1>4. k \in Nat \ {0} /\ k <= Len(Files[f].syms) BY <1>3
<1>5. f <= lib
  <2>1. CASE lib < N
    <3>1. pc' = pc /\ lib' = lib + 1 /\ s' = 1 BY <2>1 DEF NextFile
    <3>2. f < lib + 1 \/ (f = lib + 1 /\ k < 1) BY <3>1 DEF Passed, AtCursor
    <3>3. QED BY <1>2, <1>4, <3>2
  <2>2. CASE ~(lib < N) BY <1>1, <1>2, <2>2
  <2>3. QED BY <2>1, <2>2
<1>6. CASE f < lib BY <1>6 DEF Passed, AtCursor
<1>7. CASE f = lib
  <2>1. ~(s <= Len(Files[f].syms)) BY <1>7 DEF More
  <2>2. k < s BY <1>2, <1>3, <1>4, <2>1
  <2>3. QED BY <1>7, <2>2 DEF Passed, AtCursor
<1>8. QED BY <1>2, <1>5, <1>6, <1>7

\* From one symbol to the next.
LEMMA PassedSteps ==
    ASSUME Shape, pc \in {"values", "reloc"}, lib' = lib, s' = s + 1,
           NEW f \in included, NEW k \in DOMAIN Files[f].syms, Passed(AtCursor', f, k)
    PROVE  Passed(AtCursor, f, k) \/ (f = lib /\ k = s)
<1>1. job \in Jobs /\ included \subseteq 1..N /\ N \in Nat BY ShapeFacts, JobNumbers
<1>2. f \in 1..N /\ lib \in 1..N /\ s \in Nat \ {0} BY <1>1 DEF Shape, TypeOK, Loops
<1>3. k \in Nat BY <1>1, <1>2, JobTyped
<1>4. f < lib \/ (f = lib /\ k < s + 1) BY DEF Passed, AtCursor
<1>5. f < lib \/ (f = lib /\ k < s) \/ (f = lib /\ k = s) BY <1>2, <1>3, <1>4
<1>6. QED BY <1>5 DEF Passed, AtCursor

LEMMA ValuesOKNext ==
    ASSUME Shape, Shape', OffOK, ValuesOK, [Next]_vars
    PROVE  ValuesOK'
<1>1. job \in Jobs /\ included \subseteq 1..N /\ N \in Nat /\ value \in [Names -> Nat]
  BY ShapeFacts, JobNumbers
<1>2. Files' = Files /\ N' = N BY SameJob
<1>3. SUFFICES ASSUME pc' \in {"values", "reloc", "finish", "done"},
                      NEW f \in included', NEW k \in DOMAIN Files[f].syms,
                      Files[f].syms[k].kind = "global",
                      pc' # "values" \/ Passed(AtCursor', f, k)
               PROVE  Valued(Files[f].syms[k].name)'
  BY <1>2 DEF ValuesOK
<1>a. PICK n : n = Files[f].syms[k].name OBVIOUS
<1>4. pc \in {"tail", "values", "reloc", "finish", "done"}
  <2>1. CASE UNCHANGED vars BY <1>3, <2>1 DEF vars
  <2>2. CASE NoEntry \/ Entry \/ TreeNextFile \/ TreeReturn \/ TreeGlobal \/ TreeRef
             \/ TreeNotFound \/ NamesOverflow
    BY <1>3, <2>2 DEF NoEntry, Entry, TreeNextFile, TreeReturn, TreeGlobal, TreeRef, TreeNotFound,
                      NamesOverflow, Fail
  <2>3. CASE SkipFile \/ AddSizes
    BY <1>3, <2>3 DEF SkipFile, AddSizes, Fail, NextFile, Following
  <2>4. CASE Layout \/ SeekData \/ Finish \/ AfterData
    BY <1>3, <2>4 DEF Layout, SeekData, Finish, AfterData
  <2>5. ASSUME NEW seg \in {"text", "data"}, Copy(seg) PROVE FALSE
    BY <1>3, <2>5 DEF Copy, NextFile, Following
  <2>6. CASE NextObject \/ SetValue \/ Relocate BY <2>6 DEF NextObject, SetValue, Relocate
  <2>7. QED BY <2>1, <2>2, <2>3, <2>4, <2>5, <2>6, Zenon DEF Next, Link
<1>5. pc \in LaidOutPcs BY <1>4 DEF LaidOutPcs
<1>6. included' = included BY <1>5, AfterLayout
<1>7. \A d : OffsetOf(d)' = OffsetOf(d)
  <2>1. \A g : OffAt(g)' = OffAt(g) BY <1>5, OffAtSame
  <2>2. QED BY <1>2, <2>1 DEF OffsetOf
<1>8. \A m : Defs(m)' = Defs(m) BY <1>2, <1>6 DEF Defs
<1>9. f \in included /\ f \in 1..N BY <1>1, <1>6
<1>10. n \in Names
  <2>1. Files[f].syms[k] \in Global \cup Ref BY <1>1, <1>9, JobTyped
  <2>2. QED BY <1>a, <2>1, SymTyped
<1>b. Valued(n)' => Valued(Files[f].syms[k].name)' BY <1>a, <1>2
<1>11. ASSUME Valued(n), value'[n] = value[n] PROVE Valued(Files[f].syms[k].name)'
  <2>1. PICK d \in Defs(n) : value[n] = OffsetOf(d) BY <1>11 DEF Valued
  <2>2. OffsetOf(d)' = OffsetOf(d) /\ d \in Defs(n)' BY <1>7, <1>8, <2>1
  <2>3. Valued(n)' BY <1>11, <2>1, <2>2 DEF Valued
  <2>4. QED BY <1>b, <2>3
<1>12. CASE UNCHANGED vars
  <2>1. pc' = pc /\ AtCursor' = AtCursor /\ value' = value BY <1>12 DEF vars, symtab, AtCursor
  <2>2. QED BY <1>a, <1>3, <1>9, <1>11, <2>1 DEF ValuesOK
<1>13. CASE AfterData
  <2>1. pc = "tail" /\ pc' = "values" /\ lib' = lib /\ s' = s BY <1>13 DEF AfterData
  <2>2. lib = 1 /\ s = 1 BY <2>1 DEF Shape, Loops
  <2>3. f < 1 \/ k < 1 BY <1>3, <2>1, <2>2 DEF Passed, AtCursor
  <2>4. k \in Nat \ {0} BY <1>1, <1>9, JobTyped
  <2>5. QED BY <1>1, <1>9, <2>3, <2>4
<1>14. CASE SkipFile \/ NextObject
  <2>1. NextFile /\ (lib \notin included \/ ~More) /\ value' = value /\ pc \in {"values", "reloc"}
    BY <1>4, <1>14 DEF SkipFile, NextObject, symtab
  <2>2. CASE pc = "reloc" BY <1>a, <1>3, <1>9, <1>11, <2>1, <2>2 DEF ValuesOK
  <2>3. CASE pc = "values"
    <3>1. pc' = pc => Passed(AtCursor', f, k) BY <1>3, <2>3
    <3>2. Passed(AtCursor, f, k) BY <1>9, <2>1, <3>1, PassedMoves
    <3>3. QED BY <1>a, <1>3, <1>9, <1>11, <2>1, <2>3, <3>2 DEF ValuesOK
  <2>4. QED BY <2>1, <2>2, <2>3
<1>15. CASE SetValue
  <2>1. pc = "values" /\ lib \in included /\ More /\ lib' = lib /\ s' = s + 1
    BY <1>15 DEF SetValue
  <2>2. pc' = "values" BY <1>3, <1>15 DEF SetValue
  <2>3. Passed(AtCursor, f, k) \/ (f = lib /\ k = s) BY <1>3, <1>9, <2>1, <2>2, PassedSteps
  <2>4. CASE Sym.kind # "global"
    <3>1. value' = value BY <1>15, <2>4 DEF SetValue, symtab
    <3>2. Passed(AtCursor, f, k) BY <1>3, <2>3, <2>4 DEF Sym
    <3>3. QED BY <1>a, <1>3, <1>9, <1>11, <2>1, <3>1, <3>2 DEF ValuesOK
  <2>5. CASE Sym.kind = "global"
    <3>1. value' = [value EXCEPT ![Sym.name] = off[Sym.seg] + Sym.off]
      BY <1>15, <2>2, <2>5 DEF SetValue, symtab
    <3>2. CASE n # Sym.name
      <4>1. value'[n] = value[n] BY <1>1, <1>10, <3>1, <3>2
      <4>2. Passed(AtCursor, f, k) BY <1>a, <2>3, <3>2 DEF Sym
      <4>3. QED BY <1>a, <1>3, <1>9, <1>11, <2>1, <4>1, <4>2 DEF ValuesOK
    <3>3. CASE n = Sym.name
      <4>1. PICK d : d = [file |-> lib, k |-> s] BY Zenon
      <4>2. lib \in 1..N /\ s \in DOMAIN Files[lib].syms
        <5>1. lib \in 1..N /\ s \in Nat \ {0} BY <1>1, <2>1 DEF Shape, TypeOK
        <5>2. QED BY <1>1, <2>1, <5>1, JobTyped DEF More
      <4>3. d \in [file : {lib}, k : DOMAIN Files[lib].syms] BY <4>1, <4>2
      <4>4. Files[d.file].syms[d.k] = Sym BY <4>1 DEF Sym
      <4>5. d \in Defs(n) BY <2>1, <2>5, <3>3, <4>3, <4>4 DEF Defs
      <4>6. off = OffAt(lib)
        <5>1. lib >= lib BY <4>2
        <5>2. QED BY <2>1, <5>1 DEF OffOK
      <4>7. value'[n] = OffsetOf(d)
        BY <1>1, <1>10, <3>1, <3>3, <4>1, <4>4, <4>6 DEF OffsetOf
      <4>8. d \in Defs(n)' /\ OffsetOf(d)' = OffsetOf(d) BY <1>7, <1>8, <4>5
      <4>9. Valued(n)' BY <4>7, <4>8 DEF Valued
      <4>10. QED BY <1>b, <4>9
    <3>4. QED BY <3>2, <3>3
  <2>6. QED BY <2>4, <2>5
<1>16. CASE Relocate \/ Finish
  <2>1. pc \in {"reloc", "finish"} /\ value' = value BY <1>16 DEF Relocate, Finish, symtab
  <2>2. QED BY <1>a, <1>3, <1>9, <1>11, <2>1 DEF ValuesOK
<1>17. CASE NoEntry \/ Entry \/ TreeNextFile \/ TreeReturn \/ TreeGlobal \/ TreeRef
            \/ TreeNotFound \/ NamesOverflow
            \/ AddSizes \/ Layout \/ SeekData
  BY <1>4, <1>17 DEF NoEntry, Entry, TreeNextFile, TreeReturn, TreeGlobal, TreeRef, TreeNotFound,
                     NamesOverflow,
                     AddSizes, Layout, LayoutBin, LayoutAout, SeekData
<1>18. ASSUME NEW seg \in {"text", "data"}, Copy(seg) PROVE FALSE
  BY <1>4, <1>18 DEF Copy
<1>19. QED
  BY <1>12, <1>13, <1>14, <1>15, <1>16, <1>17, <1>18, Zenon DEF Next, Link
-----------------------------------------------------------------------------
\* Where the files are in the output, and at which address they run.
LEMMA PlacesAre ==
    ASSUME Shape, LaidOutWhenSo, Copied, pc \in {"values", "reloc", "finish", "done"},
           NEW f \in included
    PROVE  /\ PieceOf(f, "text").pos = TextAt(f) /\ PieceOf(f, "data").pos = DataAt(f)
           /\ \A seg \in Segments : Address(f, seg) = OffAt(f)[seg]
<1>1. job \in Jobs /\ included \subseteq 1..N BY ShapeFacts
<1>2. Written(included, included) BY DEF Copied
<1>3. PieceOf(f, "text").pos = TextAt(f)
  <2>1. \A x \in pieces : x.file = f /\ x.seg = "text" => x = Piece(f, "text", TextAt(f))
    BY <1>2 DEF Written, TextPieces, DataPieces, Piece
  <2>2. Piece(f, "text", TextAt(f)) \in pieces BY <1>2 DEF Written, TextPieces
  <2>3. Piece(f, "text", TextAt(f)).file = f /\ Piece(f, "text", TextAt(f)).seg = "text"
        /\ Piece(f, "text", TextAt(f)).pos = TextAt(f)
    BY DEF Piece
  <2>4. PieceOf(f, "text") = Piece(f, "text", TextAt(f)) BY <2>1, <2>2, <2>3 DEF PieceOf
  <2>5. QED BY <2>3, <2>4
<1>4. PieceOf(f, "data").pos = DataAt(f)
  <2>1. \A x \in pieces : x.file = f /\ x.seg = "data" => x = Piece(f, "data", DataAt(f))
    BY <1>2 DEF Written, TextPieces, DataPieces, Piece
  <2>2. Piece(f, "data", DataAt(f)) \in pieces BY <1>2 DEF Written, DataPieces
  <2>3. Piece(f, "data", DataAt(f)).file = f /\ Piece(f, "data", DataAt(f)).seg = "data"
        /\ Piece(f, "data", DataAt(f)).pos = DataAt(f)
    BY DEF Piece
  <2>4. PieceOf(f, "data") = Piece(f, "data", DataAt(f)) BY <2>1, <2>2, <2>3 DEF PieceOf
  <2>5. QED BY <2>3, <2>4
<1>5. f \in Int /\ f \in 1..N BY <1>1
<1>6. PICK x \in Nat : x = Total("text", Below(f))
  BY <1>1, <1>5, TotalsTyped DEF Segments
<1>7. PICK d \in Nat : d = Total("data", Below(f))
  BY <1>1, <1>5, TotalsTyped DEF Segments
<1>8. PICK b \in Nat : b = Total("bss", Below(f))
  BY <1>1, <1>5, TotalsTyped DEF Segments
<1>9. OffAt(f) = [seg \in Segments |-> Starts[seg] + Total(seg, Below(f))] BY DEF OffAt
<1>10. OffAt(f)["text"] = Starts["text"] + x /\ OffAt(f)["data"] = Starts["data"] + d
       /\ OffAt(f)["bss"] = Starts["bss"] + b
  BY <1>6, <1>7, <1>8, <1>9 DEF Segments
<1>11. TextAt(f) = HeaderLen + x /\ DataAt(f) = DataBase + d BY <1>6, <1>7 DEF TextAt, DataAt
<1>12. LaidOut BY DEF LaidOutWhenSo, LaidOutPcs
<1>13. TextLen \in Nat /\ DataLen \in Nat /\ HeaderLen \in Nat /\ Origin \in Nat
       /\ aout.text \in Nat /\ aout.data \in Nat
  BY <1>1, TotalsTyped, JobNumbers, ShapeFacts, SizesTyped
<1>14. CASE IsBin
  <2>1. HeaderLen = 3 /\ job.fmt \notin {"hcix", "v7", "v7tiny"} BY <1>14 DEF HeaderLen, IsBin, Bin
  <2>2. Starts = [text |-> Origin + JumpLen, data |-> Origin + value["__etext"],
                  bss |-> Origin + value["__edata"]]
    BY <1>14, <2>1 DEF Starts
  <2>3. value["__etext"] = JumpLen + TextLen /\ value["__edata"] = JumpLen + TextLen + DataLen
    BY <1>12, <1>14, <2>1 DEF LaidOut, EndText, EndData
  <2>4. Address(f, "text") = Origin + TextAt(f) BY <1>3, <1>14 DEF Address
  <2>5. Address(f, "data") = Origin + DataAt(f) BY <1>4, <1>14, <2>1 DEF Address
  <2>6. Address(f, "bss") = b + (Origin + JumpLen + TextLen + DataLen)
    BY <1>8, <1>14, <2>1 DEF Address, Below
  <2>7. DataBase = HeaderLen + TextLen BY <1>14 DEF DataBase
  <2>8. Address(f, "text") = OffAt(f)["text"]
    BY <1>10, <1>11, <1>13, <2>1, <2>2, <2>4 DEF JumpLen
  <2>9. Address(f, "data") = OffAt(f)["data"]
    BY <1>10, <1>11, <1>13, <2>1, <2>2, <2>3, <2>5, <2>7 DEF JumpLen
  <2>10. Address(f, "bss") = OffAt(f)["bss"]
    BY <1>10, <1>11, <1>13, <2>2, <2>3, <2>6 DEF JumpLen
  <2>11. QED BY <1>3, <1>4, <2>8, <2>9, <2>10 DEF Segments
<1>15. CASE ~IsBin
  <2>1. HeaderLen = 16 BY <1>15 DEF HeaderLen
  <2>2. Starts = IF job.fmt = "v7tiny"
                 THEN [text |-> 0, data |-> aout.text, bss |-> aout.data + aout.text]
                 ELSE [text |-> 0, data |-> 0, bss |-> aout.data]
    BY <1>15 DEF Starts
  <2>3. DataBase = HeaderLen + aout.text BY <1>15 DEF DataBase
  <2>4. Address(f, "text") = TextAt(f) - HeaderLen BY <1>3, <1>15 DEF Address
  <2>5. job.fmt \in {"hcix", "v7", "v7tiny"} BY <1>1, <1>15, JobTyped DEF IsBin, Aout
  <2>6. Address(f, "data") = IF job.fmt = "v7tiny" THEN DataAt(f) - HeaderLen
                             ELSE DataAt(f) - HeaderLen - aout.text
    BY <1>4, <1>15, <2>5 DEF Address
  <2>7. Address(f, "bss") = b + IF job.fmt = "v7tiny" THEN aout.text + aout.data ELSE aout.data
    BY <1>8, <1>15 DEF Address, Below
  <2>8. Address(f, "text") = OffAt(f)["text"] BY <1>10, <1>11, <1>13, <2>1, <2>2, <2>4
  <2>9. Address(f, "data") = OffAt(f)["data"] BY <1>10, <1>11, <1>13, <2>1, <2>2, <2>3, <2>6
  <2>10. Address(f, "bss") = OffAt(f)["bss"] BY <1>10, <1>11, <1>13, <2>2, <2>7
  <2>11. QED BY <1>3, <1>4, <2>8, <2>9, <2>10 DEF Segments
<1>16. QED BY <1>14, <1>15

\* A name that is wanted has a definition in the linked files, and after the
\* loop over the globals its value is the address of one.
LEMMA WantedHasAddress ==
    ASSUME Shape, Tree, LaidOutWhenSo, Copied, ValuesOK,
           pc \in {"reloc", "finish", "done"}, NEW n \in Wanted
    PROVE  \E d \in Defs(n) : /\ value[n] = AddressOf(d) /\ AddressOf(d) = OffsetOf(d)
                              /\ d.file \in included /\ d.k \in DOMAIN Files[d.file].syms
<1>1. job \in Jobs /\ included \subseteq 1..N BY ShapeFacts
<1>2. DefinedIn(n) # {} /\ FirstDef(n) \in included BY DEF Tree
<1>3. PICK f : f = FirstDef(n) OBVIOUS
<1>4. f \in DefinedIn(n) /\ f \in included /\ f \in 1..N BY <1>1, <1>2, <1>3, FirstDefIs
<1>5. PICK k \in DOMAIN Files[f].syms : Files[f].syms[k].kind = "global" /\ Files[f].syms[k].name = n
  BY <1>4 DEF DefinedIn
<1>6. Valued(n) BY <1>4, <1>5 DEF ValuesOK
<1>7. PICK d \in Defs(n) : value[n] = OffsetOf(d) BY <1>6 DEF Valued
<1>8. d.file \in included /\ d.k \in DOMAIN Files[d.file].syms
  <2>1. PICK g \in included : d \in [file : {g}, k : DOMAIN Files[g].syms] BY DEF Defs
  <2>2. QED BY <2>1
<1>9. Files[d.file].syms[d.k] \in Global \cup Ref
  <2>1. d.file \in 1..N BY <1>1, <1>8, Zenon
  <2>2. QED BY <1>1, <1>8, <2>1, JobTyped
<1>10. Files[d.file].syms[d.k].seg \in Segments BY <1>9, SymTyped
<1>11. Address(d.file, Files[d.file].syms[d.k].seg) = OffAt(d.file)[Files[d.file].syms[d.k].seg]
  BY <1>8, <1>10, PlacesAre
<1>12. value[n] = AddressOf(d) /\ AddressOf(d) = OffsetOf(d)
  BY <1>7, <1>11 DEF OffsetOf, AddressOf
<1>13. QED BY <1>7, <1>8, <1>12, Zenon

\* What the relocation loop takes for the value of a name is what it should be.
LEMMA TargetIs ==
    ASSUME Shape, Tree, LaidOutWhenSo, Copied, OffOK, ValuesOK, pc = "reloc", lib \in included,
           NEW r \in Refs(lib)
    PROVE  ValueOf(r.name) \in Targets(lib, r)
<1>1. job \in Jobs /\ included \subseteq 1..N BY ShapeFacts
<1>2. lib \in 1..N BY <1>1
<1>3. off = OffAt(lib)
  <2>1. lib >= lib BY <1>2
  <2>2. QED BY <2>1 DEF OffOK
<1>4. \A seg \in Segments : Address(lib, seg) = off[seg] BY <1>3, PlacesAre
<1>5. DOMAIN SegmentOf = {"__textoff", "__dataoff", "__bssoff"}
      /\ SegmentOf["__textoff"] = "text" /\ SegmentOf["__dataoff"] = "data"
      /\ SegmentOf["__bssoff"] = "bss"
  BY DEF SegmentOf
<1>6. LaidOut BY DEF LaidOutWhenSo, LaidOutPcs
<1>7. CASE r.name \in DOMAIN SegmentOf
  <2>1. Targets(lib, r) = {Address(lib, SegmentOf[r.name])} BY <1>7 DEF Targets
  <2>2. ValueOf(r.name) = off[SegmentOf[r.name]] BY <1>5, <1>7 DEF ValueOf
  <2>3. SegmentOf[r.name] \in Segments BY <1>5, <1>7 DEF Segments
  <2>4. QED BY <1>4, <2>1, <2>2, <2>3
<1>8. r.name \notin DOMAIN SegmentOf => ValueOf(r.name) = value[r.name]
  BY <1>5 DEF ValueOf
<1>9. CASE r.name = "__segoff"
  <2>1. r.name \notin DOMAIN SegmentOf BY <1>5, <1>9
  <2>2. Targets(lib, r) = {aout.text \div 16} BY <1>9, <2>1 DEF Targets
  <2>3. QED BY <1>6, <1>8, <1>9, <2>1, <2>2 DEF LaidOut
<1>10. DOMAIN EndOf = {"__etext", "__edata", "__end"}
       /\ EndOf["__etext"] = EndText /\ EndOf["__edata"] = EndData /\ EndOf["__end"] = EndBss
  BY DEF EndOf
<1>11. CASE r.name \in DOMAIN EndOf
  <2>1. r.name \notin DOMAIN SegmentOf /\ r.name # "__segoff" BY <1>5, <1>10, <1>11
  <2>2. Targets(lib, r) = {EndOf[r.name]} BY <1>11, <2>1 DEF Targets
  <2>3. value["__etext"] = EndText /\ value["__edata"] = EndData /\ value["__end"] = EndBss
    BY <1>6 DEF LaidOut
  <2>4. value[r.name] = EndOf[r.name] BY <1>10, <1>11, <2>3
  <2>5. QED BY <1>8, <2>1, <2>2, <2>4
<1>12. CASE r.name \notin DOMAIN SegmentOf /\ r.name # "__segoff" /\ r.name \notin DOMAIN EndOf
  <2>1. r.name \notin LinkerNames BY <1>5, <1>10, <1>12 DEF LinkerNames
  <2>2. r.name \in Wanted BY <1>2, <2>1 DEF Wanted, Referenced
  <2>3. PICK n : n = r.name OBVIOUS
  <2>4. PICK d \in Defs(n) : value[n] = AddressOf(d) BY <2>2, <2>3, WantedHasAddress
  <2>5. Targets(lib, r) = {AddressOf(g) : g \in Defs(n)}
    BY <1>12, <2>3 DEF Targets
  <2>6. value[n] \in Targets(lib, r) BY <2>4, <2>5
  <2>7. QED BY <1>8, <1>12, <2>3, <2>6
<1>13. QED BY <1>7, <1>9, <1>11, <1>12
-----------------------------------------------------------------------------
\* Once all is copied, what a correct link is does not change any more.
LEMMA RightStays ==
    ASSUME Shape, [Next]_vars, pc \in {"values", "reloc", "finish", "done"}
    PROVE  /\ Files' = Files /\ included' = included
           /\ \A d : AddressOf(d)' = AddressOf(d)
           /\ \A x, f, k : PatchOK(x, f, k)' = PatchOK(x, f, k)
           /\ \A n : Defs(n)' = Defs(n)
           /\ Resolvable' = Resolvable
           /\ patches \subseteq patches'
<1>1. job' = job /\ IsBin' = IsBin /\ Origin' = Origin /\ HeaderLen' = HeaderLen /\ Files' = Files
      /\ N' = N
  BY SameJob
<1>2. included' = included /\ aout' = aout BY AfterLayout DEF LaidOutPcs
<1>3. pieces' = pieces /\ patches \subseteq patches'
  <2>1. CASE UNCHANGED vars BY <2>1 DEF vars, output
  <2>2. CASE NoEntry \/ Entry \/ TreeNextFile \/ TreeReturn \/ TreeGlobal \/ TreeRef
             \/ TreeNotFound \/ NamesOverflow \/ AddSizes \/ Layout \/ SeekData \/ AfterData
    BY <2>2 DEF NoEntry, Entry, TreeNextFile, TreeReturn, TreeGlobal, TreeRef,
                TreeNotFound,
                NamesOverflow, AddSizes, Layout, LayoutBin, LayoutAout, SeekData, AfterData
  <2>3. CASE SkipFile \/ NextObject \/ SetValue BY <2>3 DEF SkipFile, NextObject, SetValue, output
  <2>4. ASSUME NEW seg \in {"text", "data"}, Copy(seg) PROVE FALSE BY <2>4 DEF Copy
  <2>5. CASE Relocate \/ Finish BY <2>5 DEF Relocate, Finish
  <2>6. QED BY <2>1, <2>2, <2>3, <2>4, <2>5, Zenon DEF Next, Link
<1>4. TextLen' = TextLen /\ DataLen' = DataLen /\ EndText' = EndText /\ EndData' = EndData
      /\ EndBss' = EndBss
  BY <1>2, LinkedSame
<1>5. \A f : Below(f)' = Below(f) BY <1>2, LinkedSame
<1>6. \A f : Total("bss", Below(f))' = Total("bss", Below(f))
  <2>1. \A seg, fs : Total(seg, fs)' = Total(seg, fs) BY TotalSame
  <2>2. QED BY <1>5, <2>1
<1>7. \A f, seg : PieceOf(f, seg)' = PieceOf(f, seg) BY <1>3 DEF PieceOf
<1>8. \A f, seg : Address(f, seg)' = Address(f, seg)
  BY <1>1, <1>2, <1>4, <1>6, <1>7 DEF Address, Below, JumpLen
<1>9. \A n : Defs(n)' = Defs(n) BY <1>1, <1>2 DEF Defs
<1>10. EndOf' = EndOf BY <1>4 DEF EndOf
<1>11. \A d : AddressOf(d)' = AddressOf(d)
  <2>1. TAKE d
  <2>2. PICK e : e = Files[d.file].syms[d.k] OBVIOUS
  <2>3. AddressOf(d) = Address(d.file, e.seg) + e.off BY <2>2 DEF AddressOf
  <2>4. AddressOf(d)' = Address(d.file, e.seg)' + e.off BY <1>1, <2>2 DEF AddressOf
  <2>5. QED BY <1>8, <2>3, <2>4
<1>12. \A f, r : Targets(f, r)' = Targets(f, r)
  <2>1. SegmentOf' = SegmentOf BY DEF SegmentOf
  <2>2. TAKE f, r
  <2>3. CASE r.name \in DOMAIN SegmentOf
    <3>1. PICK seg : seg = SegmentOf[r.name] OBVIOUS
    <3>2. Targets(f, r) = {Address(f, seg)} BY <2>3, <3>1 DEF Targets
    <3>3. Targets(f, r)' = {Address(f, seg)'} BY <2>1, <2>3, <3>1 DEF Targets
    <3>4. QED BY <1>8, <3>2, <3>3
  <2>4. CASE r.name \notin DOMAIN SegmentOf /\ r.name = "__segoff"
    BY <1>2, <2>1, <2>4 DEF Targets
  <2>5. CASE r.name \notin DOMAIN SegmentOf /\ r.name # "__segoff" /\ r.name \in DOMAIN EndOf
    <3>1. Targets(f, r) = {EndOf[r.name]} BY <2>5 DEF Targets
    <3>2. Targets(f, r)' = {EndOf'[r.name]} BY <1>10, <2>1, <2>5 DEF Targets
    <3>3. QED BY <1>10, <3>1, <3>2
  <2>6. CASE r.name \notin DOMAIN SegmentOf /\ r.name # "__segoff" /\ r.name \notin DOMAIN EndOf
    <3>1. PICK n : n = r.name OBVIOUS
    <3>2. Targets(f, r) = {AddressOf(d) : d \in Defs(n)} BY <2>6, <3>1 DEF Targets
    <3>3. Targets(f, r)' = {AddressOf(d)' : d \in Defs(n)'} BY <1>10, <2>1, <2>6, <3>1 DEF Targets
    <3>4. QED BY <1>9, <1>11, <3>2, <3>3
  <2>7. QED BY <2>3, <2>4, <2>5, <2>6
<1>13. \A x, f, k : PatchOK(x, f, k)' = PatchOK(x, f, k)
  BY <1>1, <1>7, <1>8, <1>12 DEF PatchOK
<1>14. Resolvable' = Resolvable BY <1>1, <1>2, <1>4 DEF Resolvable, Refs
<1>15. QED BY <1>1, <1>2, <1>3, <1>9, <1>11, <1>13, <1>14

\* One reference.
LEMMA PatchIsRight ==
    ASSUME Shape, Tree, LaidOutWhenSo, Copied, OffOK, ValuesOK, pc = "reloc", lib \in included,
           More, Resolvable, Patchable(Sym)
    PROVE  PatchOK([file |-> lib, sym |-> s, pos |-> PatchPos(Sym), val |-> PatchValue(Sym)], lib, s)
<1>1. job \in Jobs /\ included \subseteq 1..N /\ off \in Sizes /\ value \in [Names -> Nat]
      /\ aout \in Sizes
  BY ShapeFacts
<1>2. lib \in 1..N /\ s \in Nat \ {0} BY <1>1 DEF Shape, TypeOK
<1>3. s \in DOMAIN Files[lib].syms BY <1>1, <1>2, JobTyped DEF More
<1>4. PICK r : r = Sym OBVIOUS
<1>5. r = Files[lib].syms[s] BY <1>4 DEF Sym
<1>6. r \in Global \cup Ref BY <1>1, <1>2, <1>3, <1>5, JobTyped
<1>7. r.kind = "ref" /\ r.seg \in {"text", "data"} /\ (r.seg = "data" => r.rel = "abs")
  BY <1>4 DEF Patchable
<1>8. r.name \in Names /\ r.off \in Nat /\ r.disp \in Int /\ r.addend \in Int
      /\ r.rel \in {"abs", "rel16", "rel8"}
  BY <1>6, <1>7, SymTyped
<1>9. r \in Refs(lib)
  <2>1. Files[lib].syms \in Seq(Global \cup Ref)
    <3>1. Files[lib] \in Object BY <1>1, <1>2, JobTyped
    <3>2. QED BY <3>1 DEF Object
  <2>2. r \in Range(Files[lib].syms) BY <1>3, <1>5 DEF Range
  <2>3. QED BY <1>7, <2>2 DEF Refs
<1>10. ValueOf(r.name) \in Targets(lib, r) BY <1>9, TargetIs
<1>11. off.text \in Nat /\ off.data \in Nat /\ off.bss \in Nat /\ aout.text \in Nat
  BY <1>1, SizesTyped
<1>12. ValueOf(r.name) \in Nat BY <1>1, <1>8, <1>11 DEF ValueOf
<1>13. off = OffAt(lib)
  <2>1. lib >= lib BY <1>2
  <2>2. QED BY <2>1 DEF OffOK
<1>14. off.text = Address(lib, "text") BY <1>13, PlacesAre DEF Segments
<1>15. PatchPos(r) = PieceOf(lib, r.seg).pos + r.off
  <2>1. PICK x \in Nat : x = Total("text", Below(lib)) BY <1>1, <1>2, TotalsTyped DEF Segments
  <2>2. PICK d \in Nat : d = Total("data", Below(lib)) BY <1>1, <1>2, TotalsTyped DEF Segments
  <2>3. off.text = Starts.text + x /\ off.data = Starts.data + d
    BY <1>13, <2>1, <2>2 DEF OffAt, Segments
  <2>4. PieceOf(lib, "text").pos = HeaderLen + x /\ PieceOf(lib, "data").pos = DataBase + d
    BY <2>1, <2>2, PlacesAre DEF TextAt, DataAt
  <2>5. LaidOut BY DEF LaidOutWhenSo, LaidOutPcs
  <2>6. TextLen \in Nat /\ HeaderLen \in Nat /\ Origin \in Nat BY <1>1, TotalsTyped, JobNumbers
  <2>7. CASE IsBin
    <3>1. HeaderLen = 3 /\ job.fmt # "v7tiny" BY <2>7 DEF HeaderLen, IsBin, Bin
    <3>2. aout = Zero /\ value["__etext"] = JumpLen + TextLen
      BY <2>5, <2>7 DEF LaidOut, EndText
    <3>3. Starts.text = Origin + JumpLen /\ Starts.data = Origin + JumpLen + TextLen
      BY <2>6, <2>7, <3>1, <3>2 DEF Starts, JumpLen
    <3>4. DataBase = HeaderLen + TextLen BY <2>7 DEF DataBase
    <3>5. aout.text = 0 BY <3>2 DEF Zero
    <3>6. CASE r.seg = "text"
      BY <1>8, <2>3, <2>4, <2>6, <2>1, <2>7, <3>1, <3>3, <3>6 DEF PatchPos, JumpLen
    <3>7. CASE r.seg = "data"
      BY <1>8, <2>3, <2>4, <2>6, <2>2, <2>7, <3>1, <3>3, <3>4, <3>5, <3>7 DEF PatchPos, JumpLen
    <3>8. QED BY <1>7, <3>6, <3>7
  <2>8. CASE ~IsBin
    <3>1. Origin = 0 /\ Starts.text = 0 BY <2>8 DEF Origin, Starts
    <3>2. CASE r.seg = "text"
      BY <1>8, <2>3, <2>4, <2>6, <2>1, <2>8, <3>1, <3>2 DEF PatchPos
    <3>3. CASE r.seg = "data"
      <4>1. job.fmt # "v7tiny" BY <1>9, <1>2, <3>3 DEF Resolvable
      <4>2. Starts.data = 0 BY <2>8, <4>1 DEF Starts
      <4>3. DataBase = HeaderLen + aout.text BY <2>8 DEF DataBase
      <4>4. QED BY <1>8, <1>11, <2>2, <2>3, <2>4, <2>6, <2>8, <3>1, <3>3, <4>2, <4>3 DEF PatchPos
    <3>4. QED BY <1>7, <3>2, <3>3
  <2>9. QED BY <2>7, <2>8
<1>16. PICK v \in Nat : v = ValueOf(r.name) BY <1>12
<1>17. PICK w : w = PatchValue(r) OBVIOUS
<1>18. CASE r.rel = "abs"
  <2>1. w = (v + r.addend) % 65536 BY <1>16, <1>17, <1>18 DEF PatchValue
  <2>2. (w + 0 - v - r.addend) % 65536 = 0
    <3>1. PICK a \in Int : a = v + r.addend BY <1>8, <1>16
    <3>2. ((a % 65536) - a) % 65536 = 0 /\ a % 65536 \in Int OBVIOUS
    <3>3. w + 0 - v - r.addend = (a % 65536) - a BY SMTT(40), <1>8, <1>16, <2>1, <3>1, <3>2
    <3>4. QED BY <3>2, <3>3
  <2>3. QED BY <1>4, <1>5, <1>10, <1>15, <1>16, <1>17, <1>18, <2>2 DEF PatchOK
<1>19. CASE r.rel # "abs"
  <2>1. r.seg = "text" BY <1>7, <1>19
  <2> DEFINE from == Address(lib, "text") + r.off - r.disp
             M == IF r.rel = "rel8" THEN 256 ELSE 65536
  <2>2. PICK a \in Int : a = v - (r.off + off.text) + r.disp + r.addend BY <1>8, <1>11, <1>16
  <2>3. w = a % M BY <1>16, <1>17, <1>19, <2>2 DEF PatchValue
  <2>4. ((a % 65536) - a) % 65536 = 0 /\ a % 65536 \in Int
        /\ ((a % 256) - a) % 256 = 0 /\ a % 256 \in Int
    OBVIOUS
  <2>5. ((a % M) - a) % M = 0 /\ a % M \in Int BY <2>4
  <2>6. w + from - v - r.addend = (a % M) - a BY <1>8, <1>11, <1>14, <1>16, <2>2, <2>3, <2>5
  <2>7. (w + from - v - r.addend) % M = 0 BY <2>5, <2>6
  <2>8. QED BY <1>4, <1>5, <1>10, <1>15, <1>16, <1>17, <1>19, <2>1, <2>7 DEF PatchOK
<1>20. QED BY <1>18, <1>19

LEMMA RelocOKNext ==
    ASSUME Shape, Shape', Tree, LaidOutWhenSo, Copied, OffOK, ValuesOK, RelocOK, [Next]_vars
    PROVE  RelocOK'
<1>1. job \in Jobs /\ included \subseteq 1..N /\ N \in Nat BY ShapeFacts, JobNumbers
<1>2. Files' = Files /\ N' = N BY SameJob
<1>3. SUFFICES ASSUME Resolvable', pc' \in {"reloc", "finish", "done"},
                      NEW f \in included', NEW k \in DOMAIN Files[f].syms,
                      Patchable(Files[f].syms[k]), pc' # "reloc" \/ Passed(AtCursor', f, k)
               PROVE  ReferencePatched(f, k)'
  BY <1>2 DEF RelocOK, Patchable
<1>4. pc \in {"values", "reloc", "finish", "done"}
  <2>1. CASE UNCHANGED vars BY <1>3, <2>1 DEF vars
  <2>2. CASE NoEntry \/ Entry \/ TreeNextFile \/ TreeReturn \/ TreeGlobal \/ TreeRef
             \/ TreeNotFound \/ NamesOverflow
    BY <1>3, <2>2 DEF NoEntry, Entry, TreeNextFile, TreeReturn, TreeGlobal, TreeRef, TreeNotFound,
                      NamesOverflow, Fail
  <2>3. CASE SkipFile \/ AddSizes
    BY <1>3, <2>3 DEF SkipFile, AddSizes, Fail, NextFile, Following
  <2>4. CASE Layout \/ SeekData \/ Finish \/ AfterData
    BY <1>3, <2>4 DEF Layout, SeekData, Finish, AfterData
  <2>5. ASSUME NEW seg \in {"text", "data"}, Copy(seg) PROVE FALSE
    BY <1>3, <2>5 DEF Copy, NextFile, Following
  <2>6. CASE NextObject \/ SetValue \/ Relocate BY <2>6 DEF NextObject, SetValue, Relocate
  <2>7. QED BY <2>1, <2>2, <2>3, <2>4, <2>5, <2>6, Zenon DEF Next, Link
<1>5. /\ included' = included /\ Resolvable' = Resolvable /\ patches \subseteq patches'
      /\ \A x, g, i : PatchOK(x, g, i)' = PatchOK(x, g, i)
  BY <1>4, RightStays
<1>6. Resolvable /\ f \in included /\ f \in 1..N BY <1>1, <1>3, <1>5
<1>7. ASSUME NEW x \in patches', PatchOK(x, f, k) PROVE ReferencePatched(f, k)'
  <2>1. PatchOK(x, f, k)' BY <1>5, <1>7
  <2>2. QED BY <2>1 DEF ReferencePatched
<1>8. ASSUME pc \in {"reloc", "finish", "done"}, pc # "reloc" \/ Passed(AtCursor, f, k)
      PROVE  ReferencePatched(f, k)'
  <2>1. ReferencePatched(f, k) BY <1>3, <1>6, <1>8 DEF RelocOK
  <2>2. PICK x \in patches : PatchOK(x, f, k) BY <2>1 DEF ReferencePatched
  <2>3. x \in patches' BY <1>5, <2>2
  <2>4. QED BY <1>7, <2>2, <2>3
<1>9. CASE UNCHANGED vars
  <2>1. pc' = pc /\ AtCursor' = AtCursor BY <1>9 DEF vars, AtCursor
  <2>2. QED BY <1>3, <1>8, <2>1
<1>10. CASE SkipFile \/ NextObject
  <2>1. NextFile /\ (lib \notin included \/ ~More) /\ pc \in {"values", "reloc"}
    BY <1>4, <1>10 DEF SkipFile, NextObject
  <2>2. CASE pc = "values"
    <3>1. pc' = "reloc" /\ lib' = 1 /\ s' = 1 BY <1>3, <2>1, <2>2 DEF NextFile, Following
    <3>2. f < 1 \/ k < 1 BY <1>3, <3>1 DEF Passed, AtCursor
    <3>3. k \in Nat \ {0} BY <1>1, <1>6, JobTyped
    <3>4. QED BY <1>1, <1>6, <3>2, <3>3
  <2>3. CASE pc = "reloc"
    <3>1. pc' = pc => Passed(AtCursor', f, k) BY <1>3, <2>3
    <3>2. Passed(AtCursor, f, k) BY <1>6, <2>1, <3>1, PassedMoves
    <3>3. QED BY <1>8, <2>3, <3>2
  <2>4. QED BY <2>1, <2>2, <2>3
<1>11. CASE Relocate
  <2>1. pc = "reloc" /\ pc' = pc /\ lib \in included /\ More /\ lib' = lib /\ s' = s + 1
    BY <1>11 DEF Relocate
  <2>2. Passed(AtCursor, f, k) \/ (f = lib /\ k = s) BY <1>3, <1>6, <2>1, PassedSteps
  <2>3. CASE Passed(AtCursor, f, k) BY <1>8, <2>1, <2>3
  <2>4. CASE f = lib /\ k = s
    <3>1. Patchable(Sym) BY <1>3, <2>4 DEF Sym
    <3>2. PICK x : x = [file |-> lib, sym |-> s, pos |-> PatchPos(Sym), val |-> PatchValue(Sym)]
      BY Zenon
    <3>3. PatchOK(x, f, k) BY <1>6, <2>1, <2>4, <3>1, <3>2, PatchIsRight
    <3>4. x \in patches' BY <1>11, <3>1, <3>2 DEF Relocate, Patchable
    <3>5. QED BY <1>7, <3>3, <3>4
  <2>5. QED BY <2>2, <2>3, <2>4
<1>12. CASE Finish BY <1>8, <1>12 DEF Finish
<1>13. CASE SetValue
  BY <1>3, <1>13 DEF SetValue
<1>14. CASE NoEntry \/ Entry \/ TreeNextFile \/ TreeReturn \/ TreeGlobal \/ TreeRef
            \/ TreeNotFound \/ NamesOverflow
            \/ AddSizes \/ Layout \/ SeekData \/ AfterData
  BY <1>4, <1>14 DEF NoEntry, Entry, TreeNextFile, TreeReturn, TreeGlobal, TreeRef, TreeNotFound,
                     NamesOverflow,
                     AddSizes, Layout, LayoutBin, LayoutAout, SeekData, AfterData
<1>15. ASSUME NEW seg \in {"text", "data"}, Copy(seg) PROVE FALSE
  BY <1>4, <1>15 DEF Copy
<1>16. QED
  BY <1>9, <1>10, <1>11, <1>12, <1>13, <1>14, <1>15, Zenon DEF Next, Link
-----------------------------------------------------------------------------
\* An address lies in 16 bits.
LEMMA AddressSmall ==
    ASSUME Shape, LaidOutWhenSo, pc \in LaidOutPcs, Resolvable,
           NEW f \in included, NEW seg \in Segments, NEW o \in Nat, o <= Files[f][seg]
    PROVE  /\ OffAt(f)[seg] + o \in Nat /\ OffAt(f)[seg] + o <= 65535
           /\ IsBin => OffAt(f)[seg] + o >= Origin + JumpLen
<1>1. job \in Jobs /\ included \subseteq 1..N BY ShapeFacts
<1>2. f \in 1..N /\ f \in Int BY <1>1
<1>3. PICK b : b = Below(f) OBVIOUS
<1>4. b \subseteq included /\ b \cup {f} \subseteq included /\ f \notin b
  <2>1. b \subseteq included BY <1>3 DEF Below
  <2>2. f \notin b BY <1>2, <1>3 DEF Below
  <2>3. QED BY <2>1, <2>2, Zenon
<1>5. b \in SUBSET (1..N) /\ included \in SUBSET (1..N) /\ b \cup {f} \in SUBSET included
  BY <1>1, <1>4, Zenon
<1>6. Total(seg, b) \in Nat /\ Total(seg, b \cup {f}) = Total(seg, b) + Files[f][seg]
  BY <1>1, <1>2, <1>4, <1>5, Totals
<1>7. Total(seg, b \cup {f}) <= Total(seg, included) /\ Total(seg, included) \in Nat
  BY <1>1, <1>5, Totals
<1>8. Files[f][seg] \in Nat BY <1>1, <1>2, JobNumbers DEF Segments
<1>9. OffAt(f)[seg] = Starts[seg] + Total(seg, b) BY <1>3, Zenon DEF OffAt
<1>10. Starts[seg] \in Nat BY StartsTyped DEF Sizes
<1>11. /\ OffAt(f)[seg] + o \in Nat /\ OffAt(f)[seg] + o >= Starts[seg]
       /\ OffAt(f)[seg] + o <= Starts[seg] + Total(seg, included)
  BY <1>6, <1>7, <1>8, <1>9, <1>10
<1>12. LaidOut BY DEF LaidOutWhenSo
<1>13. PICK x \in Nat : x = Total("text", included) BY <1>1, Totals DEF Segments
<1>14. PICK d \in Nat : d = Total("data", included) BY <1>1, Totals DEF Segments
<1>15. PICK z \in Nat : z = Total("bss", included) BY <1>1, Totals DEF Segments
<1>16. TextLen = x /\ DataLen = d /\ BssLen = job.stack + z /\ job.stack \in Nat /\ Origin \in Nat
  BY <1>1, <1>13, <1>14, <1>15, JobNumbers DEF TextLen, DataLen, BssLen
<1>17. Segments = {"text", "data", "bss"} BY DEF Segments
<1>18. CASE IsBin
  <2>1. job.fmt # "v7tiny" BY <1>18 DEF IsBin, Bin
  <2>2. value["__etext"] = JumpLen + x /\ value["__edata"] = JumpLen + x + d
    BY <1>12, <1>16, <1>18, <2>1 DEF LaidOut, EndText, EndData
  <2>3. Starts = [text |-> Origin + JumpLen, data |-> Origin + value["__etext"],
                  bss |-> Origin + value["__edata"]]
    BY <1>18, <2>1 DEF Starts
  <2>4. Origin + JumpLen + x + d + (job.stack + z) < 65504
    BY <1>12, <1>16, <1>18 DEF LaidOut, Fit
  <2>5. Starts[seg] >= Origin + JumpLen /\ Starts[seg] + Total(seg, included) <= 65535
    BY <1>13, <1>14, <1>15, <1>16, <1>17, <2>2, <2>3, <2>4 DEF JumpLen
  <2>6. QED BY <1>10, <1>7, <1>11, <1>16, <2>5 DEF JumpLen
<1>19. CASE ~IsBin
  <2>1. \A n \in Nat : Round16(n) \in Nat /\ n <= Round16(n) /\ Round16(n) <= n + 15 BY DEF Round16
  <2>2. aout = [text |-> Round16(x), data |-> Round16(d), bss |-> Round16(job.stack + z)]
    BY <1>12, <1>16, <1>19 DEF LaidOut
  <2>3. PICK ax \in Nat : ax = aout.text /\ x <= ax /\ ax <= x + 15 BY <2>1, <2>2
  <2>4. PICK ad \in Nat : ad = aout.data /\ d <= ad /\ ad <= d + 15 BY <2>1, <2>2
  <2>5. PICK ab \in Nat : ab = aout.bss /\ z <= ab
    <3>1. job.stack + z \in Nat /\ z <= job.stack + z BY <1>16
    <3>2. QED BY <1>16, <2>1, <2>2, <3>1
  <2>6. x < 65520 /\ d + (job.stack + z) < 65504 BY <1>12, <1>16, <1>19 DEF LaidOut, Fit
  <2>7. CASE job.fmt = "v7tiny"
    <3>1. Starts = [text |-> 0, data |-> ax, bss |-> ad + ax] BY <1>19, <2>3, <2>4, <2>7 DEF Starts
    <3>2. ax + ad + ab <= 65535
      BY <1>19, <2>3, <2>4, <2>5, <2>7 DEF Resolvable, EndBss, EndData
    <3>3. Starts[seg] + Total(seg, included) <= 65535
      BY <1>13, <1>14, <1>15, <1>17, <2>3, <2>4, <2>5, <3>1, <3>2
    <3>4. QED BY <1>7, <1>10, <1>11, <1>19, <3>3
  <2>8. CASE job.fmt # "v7tiny"
    <3>1. Starts = [text |-> 0, data |-> 0, bss |-> ad] BY <1>19, <2>4, <2>8 DEF Starts
    <3>2. Starts[seg] + Total(seg, included) <= 65535
      BY <1>13, <1>14, <1>15, <1>16, <1>17, <2>4, <2>6, <3>1
    <3>3. QED BY <1>7, <1>10, <1>11, <1>19, <3>2
  <2>9. QED BY <2>7, <2>8
<1>20. QED BY <1>18, <1>19

StartOK == Resolvable /\ pc = "done" => EntryPatched

LEMMA StartOKNext ==
    ASSUME Shape, Tree, LaidOutWhenSo, Copied, ValuesOK, StartOK, [Next]_vars
    PROVE  StartOK'
<1>1. SUFFICES ASSUME Resolvable', pc' = "done" PROVE EntryPatched' BY DEF StartOK
<1>2. job \in Jobs /\ included \subseteq 1..N /\ value \in [Names -> Nat] BY ShapeFacts
<1>3. IsBin' = IsBin /\ Origin' = Origin BY SameJob
<1>4. CASE UNCHANGED vars
  <2>1. pc = "done" BY <1>1, <1>4 DEF vars
  <2>2. Resolvable
    <3>1. Resolvable' = Resolvable BY <2>1, RightStays
    <3>2. QED BY <1>1, <3>1
  <2>3. PICK x \in patches, d \in Defs("_start") :
           x.file = 0 /\ AddressOf(d) = IF IsBin THEN Origin + JumpLen + x.val ELSE x.val
    BY <2>1, <2>2, Zenon DEF StartOK, EntryPatched
  <2>4. x \in patches' /\ d \in Defs("_start")' /\ AddressOf(d)' = AddressOf(d)
    BY <2>1, <2>3, RightStays
  <2>5. QED BY <1>3, <2>3, <2>4 DEF EntryPatched, JumpLen
<1>5. CASE Finish
  <2>1. pc = "finish" BY <1>5 DEF Finish
  <2>2. Resolvable
    <3>1. Resolvable' = Resolvable BY <2>1, RightStays
    <3>2. QED BY <1>1, <3>1
  <2>3. "_start" \in Wanted BY DEF Wanted
  <2>4. PICK d \in Defs("_start") :
           /\ value["_start"] = AddressOf(d) /\ AddressOf(d) = OffsetOf(d)
           /\ d.file \in included /\ d.k \in DOMAIN Files[d.file].syms
    BY <2>1, <2>3, WantedHasAddress
  <2>5. PICK e : e = Files[d.file].syms[d.k] OBVIOUS
  <2>6. d.file \in 1..N BY <1>2, <2>4, Zenon
  <2>7. e \in Global \cup Ref /\ InSection(e, Files[d.file]) BY <1>2, <2>4, <2>5, <2>6, JobTyped
  <2>8. e.kind = "global" BY <2>5 DEF Defs
  <2>9. e.seg \in Segments /\ e.off \in Nat /\ e.off <= Files[d.file][e.seg]
    BY <2>7, <2>8, SymTyped DEF InSection
  <2>10. PICK a : a = OffsetOf(d) OBVIOUS
  <2>11. a \in Nat /\ a <= 65535 /\ (IsBin => a >= Origin + JumpLen)
    <3>1. a = OffAt(d.file)[e.seg] + e.off BY <2>5, <2>10 DEF OffsetOf
    <3>2. QED BY <2>1, <2>2, <2>4, <2>9, <3>1, AddressSmall DEF LaidOutPcs
  <2>12. PICK v : v = (a - (IF IsBin THEN JumpLen + Origin ELSE 0)) % 65536 OBVIOUS
  <2>13. Origin \in Nat BY <1>2, JobNumbers
  <2>14. a = IF IsBin THEN Origin + JumpLen + v ELSE v
    <3>1. \A n \in Nat : n <= 65535 => n % 65536 = n OBVIOUS
    <3>2. CASE IsBin
      <4>1. PICK n \in Nat : n = a - (JumpLen + Origin) /\ n <= 65535
        BY <2>11, <2>13, <3>2 DEF JumpLen
      <4>2. v = n BY <2>12, <3>1, <3>2, <4>1
      <4>3. QED BY <2>11, <2>13, <3>2, <4>1, <4>2 DEF JumpLen
    <3>3. CASE ~IsBin
      <4>1. v = a % 65536 BY <2>11, <2>12, <3>3
      <4>2. QED BY <2>11, <3>1, <3>3, <4>1
    <3>4. QED BY <3>2, <3>3
  <2>15. PICK x : x = [file |-> 0, sym |-> 0, pos |-> IF IsBin THEN 1 ELSE 10, val |-> v] BY Zenon
  <2>16. x \in patches' BY <1>5, <2>4, <2>10, <2>12, <2>15 DEF Finish
  <2>17. d \in Defs("_start")' /\ AddressOf(d)' = AddressOf(d) BY <2>1, <2>4, RightStays
  <2>18. x.file = 0 /\ x.val = v BY <2>15
  <2>19. QED BY <1>3, <2>4, <2>10, <2>14, <2>16, <2>17, <2>18 DEF EntryPatched, JumpLen
<1>6. CASE NoEntry \/ Entry \/ TreeNextFile \/ TreeReturn \/ TreeGlobal \/ TreeRef
           \/ TreeNotFound \/ NamesOverflow
  BY <1>1, <1>6 DEF NoEntry, Entry, TreeNextFile, TreeReturn, TreeGlobal, TreeRef, TreeNotFound,
                    NamesOverflow, Fail
<1>7. CASE SkipFile \/ AddSizes BY <1>1, <1>7 DEF SkipFile, AddSizes, Fail, NextFile, Following
<1>8. CASE Layout \/ SeekData \/ AfterData BY <1>1, <1>8 DEF Layout, SeekData, AfterData
<1>9. ASSUME NEW seg \in {"text", "data"}, Copy(seg) PROVE FALSE
  BY <1>1, <1>9 DEF Copy, NextFile, Following
<1>10. CASE NextObject \/ SetValue \/ Relocate
  BY <1>1, <1>10 DEF NextObject, SetValue, Relocate, NextFile, Following
<1>11. QED
  BY <1>4, <1>5, <1>6, <1>7, <1>8, <1>9, <1>10, Zenon DEF Next, Link
-----------------------------------------------------------------------------
(* The invariant, and what follows from it. *)

LinkInv ==
    /\ Shape /\ Tree /\ Measured /\ LaidOutWhenSo /\ Copied
    /\ OffOK /\ ValuesOK /\ RelocOK /\ StartOK

\* Every loop of ld leaves what the next one relies on: the whole invariant holds
\* in every state of every link (symbol.c, bin.c, aout16.c).
THEOREM LoopsAreRight == Spec => []LinkInv
<1>1. Init => LinkInv
  <2>1. SUFFICES ASSUME Init PROVE LinkInv OBVIOUS
  <2>2. pc = "entry" BY <2>1 DEF Init
  <2>3. LaidOutWhenSo /\ OffOK /\ ValuesOK /\ RelocOK /\ StartOK
    BY <2>2 DEF LaidOutWhenSo, LaidOutPcs, OffOK, ValuesOK, RelocOK, StartOK
  <2>4. QED BY <2>1, <2>3, ShapeInit, TreeInit, MeasuredInit, CopiedInit DEF LinkInv
<1>2. LinkInv /\ [Next]_vars => LinkInv'
  <2>1. SUFFICES ASSUME LinkInv, [Next]_vars PROVE LinkInv' OBVIOUS
  <2>2. Shape /\ Tree /\ Measured /\ LaidOutWhenSo /\ Copied
        /\ OffOK /\ ValuesOK /\ RelocOK /\ StartOK
    BY <2>1 DEF LinkInv
  <2>3. Shape' BY <2>1, <2>2, ShapeNext
  <2>4. Tree' BY <2>1, <2>2, <2>3, TreeNext
  <2>5. Measured' BY <2>1, <2>2, <2>3, MeasuredNext
  <2>6. LaidOutWhenSo' BY <2>1, <2>2, LaidOutNext
  <2>7. Copied' BY <2>1, <2>2, CopiedNext
  <2>8. OffOK' BY <2>1, <2>2, <2>3, OffOKNext
  <2>9. ValuesOK' BY <2>1, <2>2, <2>3, ValuesOKNext
  <2>10. RelocOK' BY <2>1, <2>2, <2>3, RelocOKNext
  <2>11. StartOK' BY <2>1, <2>2, StartOKNext
  <2>12. QED BY <2>3, <2>4, <2>5, <2>6, <2>7, <2>8, <2>9, <2>10, <2>11 DEF LinkInv
<1>3. QED BY <1>1, <1>2, PTL DEF Spec

\* The variables keep their types.
THEOREM TypeCorrect == Spec => []TypeOK
<1>1. LinkInv => TypeOK BY DEF LinkInv, Shape
<1>2. QED BY <1>1, LoopsAreRight, PTL

\* A failed link leaves no output, unless the entry symbol is missing: true of every
\* list of objects (aout16.c 14-56, bin.c 14-47, symbol.c 150-160).
THEOREM FailuresRemove == Spec => []FailureRemovesOutput
<1>1. LinkInv => FailureRemovesOutput BY DEF LinkInv, Tree
<1>2. QED BY <1>1, LoopsAreRight, PTL

\* "symbol not found" is reported only for a name that no object defines, or with a
\* full table, for every size of the table (symbol.c 150-160).
THEOREM MissingIsMissing == Spec => []NotFoundMeansUndefined
<1>1. LinkInv => NotFoundMeansUndefined BY DEF LinkInv, Tree
<1>2. QED BY <1>1, LoopsAreRight, PTL

\* The recursion of make_symbol_tree() links the first definition of each name that is
\* referred to and no other file, in whatever order its calls find them (symbol.c 114-177).
THEOREM LinksThose == Spec => []LinksWhatIsReferenced
<1>1. LinkInv => LinksWhatIsReferenced BY Zenon DEF LinkInv, Tree, Wanted, LinksWhatIsReferenced
<1>2. QED BY <1>1, LoopsAreRight, PTL

\* The size checks are enough, in every format but v7tiny: in a link that succeeds, what
\* shares a segment, and the rounding after the checks, stay in 16 bits (aout16.c 28-55,
\* bin.c 31-52).
THEOREM SizesSuffice == Spec => []AddressesFit
<1>1. LinkInv => AddressesFit
  <2>1. SUFFICES ASSUME LinkInv, pc = "done" PROVE AddressesFit BY DEF AddressesFit
  <2>2. LaidOut /\ job \in Jobs /\ included \subseteq 1..N
    BY <2>1, ShapeFacts DEF LinkInv, LaidOutWhenSo, LaidOutPcs
  <2>3. TextLen \in Nat /\ DataLen \in Nat /\ BssLen \in Nat /\ Origin \in Nat
    BY <2>2, TotalsTyped, JobNumbers
  <2>4. CASE IsBin BY <2>2, <2>3, <2>4 DEF AddressesFit, LaidOut, Fit, JumpLen
  <2>5. CASE ~IsBin
    <3>1. \A n \in Nat : Round16(n) \in Nat /\ Round16(n) <= n + 15 BY DEF Round16
    <3>2. aout.text = Round16(TextLen) /\ aout.data = Round16(DataLen) /\ aout.bss = Round16(BssLen)
          /\ TextLen < 65520 /\ DataLen + BssLen < 65504
      BY <2>2, <2>5 DEF LaidOut, Fit
    <3>3. QED BY <2>3, <2>5, <3>1, <3>2 DEF AddressesFit
  <2>6. QED BY <2>4, <2>5
<1>2. QED BY <1>1, LoopsAreRight, PTL

\* An overflow that is reported is one, for every list of objects: in the a.out formats
\* always, and in .com, .sys and boot sectors when one file is linked (bin.c 38-41,
\* aout16.c 36-43).
THEOREM OverflowsAreReal == Spec => []OverflowIsReal
<1>1. LinkInv => OverflowIsReal BY DEF LinkInv, Measured
<1>2. QED BY <1>1, LoopsAreRight, PTL

\* Every reference of every linked file is patched, where its file was copied to and
\* with the address of a definition, and the program starts at _start: for every list
\* of objects in every format; in v7tiny if text, data and bss are together at most
\* 65535 bytes and no data refers to a symbol (bin.c 85-201, aout16.c 100-229).
THEOREM LinkIsRight == Spec => [](Resolvable => Resolved)
<1>1. LinkInv => (Resolvable => Resolved)
  <2>1. SUFFICES ASSUME LinkInv, Resolvable, pc = "done" PROVE Resolved BY DEF Resolved
  <2>2. RelocOK /\ StartOK BY <2>1 DEF LinkInv
  <2>3. \A f \in included : \A k \in DOMAIN Files[f].syms :
           Patchable(Files[f].syms[k]) => ReferencePatched(f, k)
    BY <2>1, <2>2 DEF RelocOK
  <2>4. EntryPatched BY <2>1, <2>2 DEF StartOK
  <2>5. QED BY <2>3, <2>4 DEF Resolved
<1>2. QED BY <1>1, LoopsAreRight, PTL
=============================================================================
