-------------------------------- MODULE Tree --------------------------------
(***************************************************************************)
(* The expression trees of scc: scc/tree.c, scc/opt.c.  What emittree()    *)
(* does to the code generator is a sequence of calls that depends on the   *)
(* tree alone; Calls is that sequence, CodeGen what the calls do.          *)
(* The pool of nodes has room for every tree: mknode()'s end with          *)
(* "expression too complex" (NODEPOOLSZ) is left out.                      *)
(***************************************************************************)
EXTENDS SymTab, Bitwise

BPW == 2

Node(op, args, l, r) == [op |-> op, args |-> args, left |-> l, right |-> r]
NULL == [op |-> "null"]
\* x op= e is one tree for x that ASSIGN and the RVAL of e's operator both hold.
Share(n) == [n EXCEPT !.args = Append(@, "shared")]
Shared(n) == Len(n.args) = 3
Leaf(op, v) == Node(op, <<v>>, NULL, NULL)
Un(op, args, l) == Node(op, args, l, NULL)
Bin(op, l, r) == Node(op, <<>>, l, r)
Lit(v) == Leaf("LIT", v)
IsLit(n) == n.op = "LIT"

(***************************************************************************)
(* The arithmetic of the host, whose int is wider than that of the target. *)
(* 24 bits hold every value the compiler folds here.                       *)
(***************************************************************************)
Host == 16777216
ToSigned(v, w) == IF v % w >= w \div 2 THEN (v % w) - w ELSE v % w
Magnitude(a) == IF a < 0 THEN -a ELSE a
Quot(a, b) == IF (a >= 0) = (b >= 0) THEN Magnitude(a) \div Magnitude(b) ELSE -(Magnitude(a) \div Magnitude(b))
Rest(a, b) == a - b * Quot(a, b)
Truth(b) == IF b THEN 1 ELSE 0
Bits(Op(_, _), a, b) == ToSigned(Op(a % Host, b % Host), Host)
SumLimit == 16384    \* Opt_sum_lim

(***************************************************************************)
(* fold2(), fold1(): an operator applied to literals.  0 * x divides by    *)
(* zero in the compiler itself: Trap.                                      *)
(***************************************************************************)
Trap == Leaf("TRAP", 0)
Compare(op, a, b) ==
    Truth(CASE op = "EQUAL" -> a = b
            [] op = "NOTEQ" -> a # b
            [] op = "LESS" -> a < b
            [] op = "GREATER" -> a > b
            [] op = "LTEQ" -> a <= b
            [] op = "GTEQ" -> a >= b)
Comparisons == {"EQUAL", "NOTEQ", "LESS", "GREATER", "LTEQ", "GTEQ"}

Foldable(op, a, b) ==
    \/ op \in {"PLUS", "ADD", "SUB"} /\ Magnitude(a) < SumLimit /\ Magnitude(b) < SumLimit
    \/ op = "MUL" /\ a # 0 /\ a * b \in 0 .. SumLimit - 1
    \/ op \in {"DIV", "MOD"} /\ b # 0
    \/ op \in {"LSHIFT", "RSHIFT"} /\ b \in 0 .. 8 * BPW - 1
    \/ op \in {"BINAND", "BINIOR", "BINXOR"} \cup Comparisons
Folded(op, a, b) ==
    CASE op \in {"PLUS", "ADD"} -> a + b
      [] op = "SUB" -> a - b
      [] op = "MUL" -> a * b
      [] op = "DIV" -> Quot(a, b)
      [] op = "MOD" -> Rest(a, b)
      [] op = "LSHIFT" -> a * 2^b
      [] op = "RSHIFT" -> a \div 2^b
      [] op = "BINAND" -> Bits(&, a, b)
      [] op = "BINIOR" -> Bits(|, a, b)
      [] op = "BINXOR" -> Bits(^^, a, b)
      [] OTHER -> Compare(op, a, b)
fold2(n) ==
    LET a == n.left.args[1]  b == n.right.args[1]
    IN  IF n.op = "MUL" /\ a = 0 THEN Trap
        ELSE IF Foldable(n.op, a, b) THEN Lit(Folded(n.op, a, b)) ELSE n
fold1(n) ==
    LET v == n.left.args[1]
    IN  CASE n.op = "NOT" -> Lit(-v - 1)
          [] n.op = "LOGNOT" -> Lit(Truth(v = 0))
          [] n.op = "NEG" -> Lit(-v)
          [] n.op = "SCALE" -> Lit(v * BPW)
          [] OTHER -> n

(***************************************************************************)
(* reduce(): one operand is a literal.                                     *)
(***************************************************************************)
IsNum(n, v) == IsLit(n) /\ n.args[1] = v
Log2s(n) == {i \in 0 .. 8 * BPW - 2 : IsNum(n, 2^i)}
Shift(op, x, i) == Bin(op, x, Lit(i))
strength(n) ==
    LET l == n.left  r == n.right
        swap == IF n.op = "MUL" THEN Log2s(l) ELSE {}
        all == Log2s(r) \cup swap
        i == CHOOSE k \in all : \A j \in all : k <= j
    IN  CASE all = {} -> n
          [] i \in Log2s(r) -> Shift(IF n.op = "MUL" THEN "LSHIFT" ELSE "RSHIFT", l, i)
          [] OTHER -> Shift("LSHIFT", r, i)
reduce(n) ==
    LET l == n.left  r == n.right
        sum == n.op \in {"PLUS", "ADD"}
    IN  IF (sum \/ n.op = "SUB") /\ IsNum(r, 0) THEN l
        ELSE IF sum /\ IsNum(l, 0) THEN r
        ELSE IF n.op = "SUB" /\ IsNum(l, 0) THEN Un("NEG", <<>>, r)
        ELSE IF n.op = "MUL" /\ (IsNum(l, 0) \/ IsNum(r, 0)) THEN Lit(0)
        ELSE IF n.op \in {"MUL", "DIV"} THEN strength(n)
        ELSE n

Foldtop(m) ==
    LET f == IF ~IsLit(m.left) THEN m ELSE IF IsLit(m.right) THEN fold2(m) ELSE fold1(m)
    IN  IF f.left # NULL /\ f.right # NULL /\ (IsLit(f.left) \/ IsLit(f.right))
        THEN reduce(f) ELSE f
RECURSIVE fold_reduce(_)
fold_reduce(n) ==    \* a shared place is walked twice
    IF n = NULL THEN n
    ELSE LET left == fold_reduce(n.left)
             m == [n EXCEPT !.left = IF Shared(n) THEN fold_reduce(left) ELSE left, !.right = fold_reduce(@)]
         IN  IF m.left = Trap \/ m.right = Trap THEN Trap ELSE Foldtop(m)

(***************************************************************************)
(* reorder_ops(): literals and variables go to the right.  The shared      *)
(* place of x op= e is walked from ASSIGN and from the RVAL, in place, so  *)
(* a sum of two simple operands in it is swapped twice; once when          *)
(* fold_reduce() has put a literal in the place of the RVAL (x *= 0).      *)
(***************************************************************************)
Simple(n) == IsLit(n) \/ (n.op = "RVAL" /\ n.left.op = "IDENT")
Commutative == {"ADD", "PLUS", "MUL", "BINAND", "BINIOR", "BINXOR", "EQUAL", "NOTEQ"}
RECURSIVE reorder_ops(_)
reorder_ops(n) ==
    IF n = NULL THEN n
    ELSE LET once == reorder_ops(n.left)
             twice == Shared(n) /\ ~(n.op = "ASSIGN" /\ IsLit(n.right))
             l == IF twice THEN reorder_ops(once) ELSE once
             r == reorder_ops(n.right)
         IN  IF l # NULL /\ r # NULL /\ Simple(l) /\ n.op \in Commutative
             THEN Node(n.op, IF n.op = "PLUS" THEN <<n.args[2], n.args[1]>> ELSE n.args, r, l)
             ELSE [n EXCEPT !.left = l, !.right = r]
optimize(n) == reorder_ops(fold_reduce(n))

(***************************************************************************)
(* What a call of the code generator says of a symbol is where it lives,   *)
(* and of a type whether it is a byte and how it is scaled.                *)
(***************************************************************************)
Nowhere == <<"none", 0>>
PlaceOf(t, y) ==
    CASE y = 0 -> Nowhere
      [] t.ent[y].stcls = "auto" -> <<"bp", t.ent[y].val>>
      [] t.ent[y].stcls = "lstatic" -> <<"L", t.ent[y].val>>
      [] OTHER -> <<"g", t.ent[y].name>>
SizeOf(t, p) == objsize(t, p, "variable", 1)
Unit(t, p) ==
    CASE ~IsPtr(p) -> <<"none", 1>>
      [] ~Needscale(p) -> <<"bytes", 1>>
      [] p[1] \in {"struct", "union"} /\ p[2] = 1 -> <<"by", SizeOf(t, deref(p))>>
      [] OTHER -> <<"words", 2>>
Clash(p1, p2) == ~inttype(p1) /\ ~inttype(p2) /\ p1 # p2    \* gensub() reports it
Step(t, p) == IF Needscale(p) THEN SizeOf(t, deref(p)) ELSE 1

Increment == [PREINC |-> <<TRUE, TRUE>>, PREDEC |-> <<FALSE, TRUE>>,
              POSTINC |-> <<TRUE, FALSE>>, POSTDEC |-> <<FALSE, FALSE>>]
Unary == [BOOL |-> "genbool", LOGNOT |-> "genlognot", NEG |-> "genneg",
          NOT |-> "gennot", SCALE |-> "genscale"]
Signed == [EQUAL |-> "equal", NOTEQ |-> "not_equal", LESS |-> "less",
           GREATER |-> "greater", LTEQ |-> "less_equal", GTEQ |-> "greater_equal"]
Unsigned == [EQUAL |-> "equal", NOTEQ |-> "not_equal", LESS |-> "below",
             GREATER |-> "above", LTEQ |-> "below_equal", GTEQ |-> "above_equal"]
Arith == [LSHIFT |-> "genshl", RSHIFT |-> "genshr", DIV |-> "gendiv", MOD |-> "genmod",
          BINAND |-> "genand", BINIOR |-> "genior", BINXOR |-> "genxor", MUL |-> "genmul"]
commit == <<"commit">>
clear0 == <<"clear", 0>>

(***************************************************************************)
(* emittree1(), emitcond(), emitargs(): the calls an expression makes.     *)
(***************************************************************************)
RECURSIVE emittree1(_, _), emitcond(_, _, _), emitargs(_, _)
emitargs(t, a) ==
    IF a = NULL THEN <<>> ELSE emittree1(t, a.right) \o emitargs(t, a.left)
emitcond(t, a, ex) ==
    LET br == a.left
    IN  (IF br.left.op = "GLUE" THEN emitcond(t, br.left, ex) ELSE <<>>)
        \o emittree1(t, br.left) \o <<<<"genbrfalse", br.args[1]>>, clear0>>
        \o emittree1(t, br.right)
        \o <<<<"genjump", ex>>, commit, <<"genlab", br.args[1]>>, clear0>>
        \o emittree1(t, a.right)
emittree1(t, a) ==
    LET left == emittree1(t, a.left)
        both == left \o emittree1(t, a.right) \o <<commit>>
        place == PlaceOf(t, a.args[2])
        byte == a.args[1] = PCHAR
        Called(far) == emitargs(t, a.left) \o <<commit, <<"spill">>>> \o far
    IN  CASE a.op \in {"null", "IDENT", "GLUE"} -> <<>>
          [] a.op = "TRAP" -> <<<<"trap">>>>
          [] a.op = "ADDR" -> <<<<"genaddr", PlaceOf(t, a.args[1])>>>>
          [] a.op = "LIT" -> <<<<"genlit", a.args[1]>>>>
          [] a.op = "LDLAB" -> <<<<"genldlab", a.args[1]>>>>
          [] a.op \in DOMAIN Increment ->
                 left \o <<<<"geninc", place, byte, Step(t, a.args[1]),
                             Increment[a.op][1], Increment[a.op][2]>>>>
          [] a.op = "SCALEBY" -> left \o <<<<"genscaleby", a.args[1]>>>>
          [] a.op = "LAB" -> left \o <<commit, <<"genlab", a.args[1]>>>>
          [] a.op = "RVAL" -> left \o <<<<"genrval", place, byte>>>>
          [] a.op \in DOMAIN Unary -> left \o <<<<Unary[a.op]>>>>
          [] a.op \in {"BRFALSE", "BRTRUE"} ->
                 left \o <<commit, <<IF a.op = "BRTRUE" THEN "genbrtrue" ELSE "genbrfalse",
                                     a.args[1]>>, clear0>>
                 \o emittree1(t, a.right)
          [] a.op = "IFELSE" -> emitcond(t, a.left, a.args[1]) \o <<commit, <<"genlab", a.args[1]>>>>
          [] a.op = "COMMA" -> left \o <<commit, clear0>> \o emittree1(t, a.right)
          [] a.op \in Comparisons ->
                 both \o <<<<"queue_cmp", IF inttype(a.args[1]) THEN Signed[a.op]
                                          ELSE Unsigned[a.op]>>>>
          [] a.op \in DOMAIN Arith -> both \o <<<<Arith[a.op]>>>>
          [] a.op = "ADD" -> both \o <<<<"genadd", Unit(t, PINT), Unit(t, PINT)>>>>
          [] a.op = "PLUS" -> both \o <<<<"genadd", Unit(t, a.args[1]), Unit(t, a.args[2])>>>>
          [] a.op = "SUB" -> both \o <<<<"gensub", Clash(a.args[1], a.args[2]),
                                         Unit(t, a.args[1]), Unit(t, a.args[2])>>>>
          [] a.op = "CALL" ->
                 Called(<<<<"gencall", t.ent[a.args[1]].name>>, <<"genstack", a.args[2] * BPW>>>>)
          [] a.op = "CALLFAR" ->
                 Called(<<<<"gencallfar", t.ent[a.args[1]].name>>, <<"genstack", a.args[2] * BPW + 2>>>>)
          [] a.op = "CALR" ->
                 Called(<<clear0, <<"genrval", PlaceOf(t, a.args[1]), FALSE>>, <<"gencalr">>,
                          <<"genstack", a.args[2] * BPW>>>>)
          [] a.op = "ASSIGN" ->
                 (IF a.left.op = "IDENT"
                  THEN emittree1(t, a.right) \o <<commit>> \o left
                  ELSE left \o <<commit>> \o emittree1(t, a.right) \o <<commit>>)
                 \o <<<<"genstore", place, byte>>>>
emittree(t, n) == emittree1(t, optimize(n))
=============================================================================
