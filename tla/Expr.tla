-------------------------------- MODULE Expr --------------------------------
(***************************************************************************)
(* The expression parser of scc: scc/expr.c, with the operators' types of  *)
(* scc/gen.c.  A parser function takes the state of the parser and returns *)
(* the state behind what it parsed:                                        *)
(*   toks, i     the tokens, the one read next; a token is <<what it is,   *)
(*               its value>>                                               *)
(*   tab, lab    the symbol table, the last label                          *)
(*   calls       the calls of the code generator made so far               *)
(*   n, prim, sym, addr    the result: the tree and its lv[]               *)
(*   k           the value of a constant expression                        *)
(*   err         an error was reported: the rest is not parsed, for the    *)
(*               output is thrown away                                     *)
(***************************************************************************)
EXTENDS Tree, SequencesExt

\* The grammar is recursive: whatever calls itself again is called by the name
\* of what it parses.  Every function of this module is part of it.
RECURSIVE Parse(_, _)

Tok(s) == IF s.err \/ s.i > Len(s.toks) THEN "eof" ELSE s.toks[s.i][1]
Val(s) == s.toks[s.i][2]
Scan(s) == [s EXCEPT !.i = @ + 1]
Error(s) == [s EXCEPT !.err = TRUE]
ErrorIf(b, s) == IF b THEN Error(s) ELSE s
match(c, s) == IF Tok(s) = c THEN Scan(s) ELSE Error(s)
Emit(s, calls) == [s EXCEPT !.calls = @ \o calls]
WithTable(s, t) == [s EXCEPT !.tab = t, !.err = @ \/ t.err \/ t.fatal]
label(s) == [s EXCEPT !.lab = @ + 1]

Result(s, n, prim, sym, addr) ==
    [s EXCEPT !.n = n, !.prim = prim, !.sym = sym, !.addr = addr]
Value(s, n, prim) == Result(s, n, prim, s.sym, FALSE)
notvoid(s, p) == ErrorIf(p = PVOID, s)
rvalue(s) ==
    IF s.addr THEN [s EXCEPT !.n = Un("RVAL", <<s.prim, s.sym>>, @), !.addr = FALSE] ELSE s

(***************************************************************************)
(* A type specifier, the stars behind it, and the parentheses of a pointer *)
(* to a function.  "prim" is the result.                                   *)
(***************************************************************************)
Basic == [char |-> PCHAR, int |-> PINT, void |-> PVOID, unsigned |-> <<"int", 1, 0>>]
primtype(s) ==
    IF Tok(s) \in DOMAIN Basic THEN [Scan(s) EXCEPT !.prim = Basic[Tok(s)]]
    ELSE LET name == Scan(s)
             y == findstruct(s.tab, Val(name))
         IN  IF Tok(name) # "id" THEN Error(name)
             ELSE IF y = 0 THEN Error(name)
             ELSE [ErrorIf(s.tab.ent[y].prim # <<Tok(s), 0, 0>>, Scan(name))
                       EXCEPT !.prim = <<Tok(s), 0, y>>]
Pointer(s) == [ErrorIf(TooManyLevels(s.prim), s) EXCEPT !.prim = pointerto(@)]
Star(s) == IF Tok(s) = "*" THEN Pointer(Scan(s)) ELSE s
Stars(s) == IF Tok(s) = "*" THEN Star(Star(s)) ELSE s

(***************************************************************************)
(* binopchk(), binoptype(): which operands an operator takes, and what it  *)
(* returns.                                                                *)
(***************************************************************************)
Relational == {"==", "!=", "<", ">", "<=", ">="}
\* Mutant: two pointers may be added.
TakesPointers(op, p1, p2) ==
    \/ inttype(p1) /\ inttype(p2)
    \/ ~comptype(p1) /\ ~comptype(p2) /\ p1 # PVOID /\ p2 # PVOID /\ op \in {"+", "-"} \cup Relational
Takes(op, p1, p2) ==
    \/ inttype(p1) /\ inttype(p2)
    \/ /\ ~comptype(p1) /\ ~comptype(p2) /\ p1 # PVOID /\ p2 # PVOID
       /\ \/ op = "+" /\ (inttype(p1) \/ inttype(p2))
          \/ op = "-" /\ (~inttype(p1) \/ inttype(p2))
          \/ op \in Relational /\ \/ p1 = p2
                                  \/ p1 = VOIDPTR /\ ~inttype(p2)
                                  \/ p2 = VOIDPTR /\ ~inttype(p1)
binoptype(op, p1, p2) ==
    CASE op = "+" /\ ~inttype(p1) -> p1
      [] op = "+" /\ ~inttype(p2) -> p2
      [] op = "-" /\ ~inttype(p1) /\ inttype(p2) -> p1
      [] OTHER -> PINT

binop == ("&" :> "BINAND") @@ ("^" :> "BINXOR") @@ ("|" :> "BINIOR")
         @@ ("==" :> "EQUAL") @@ ("!=" :> "NOTEQ") @@ ("<" :> "LESS") @@ (">" :> "GREATER")
         @@ ("<=" :> "LTEQ") @@ (">=" :> "GTEQ") @@ ("<<" :> "LSHIFT") @@ (">>" :> "RSHIFT")
         @@ ("+" :> "PLUS") @@ ("-" :> "SUB") @@ ("*" :> "MUL") @@ ("/" :> "DIV") @@ ("%" :> "MOD")
mkop(op, p1, p2, l, r) ==
    Node(binop[op], IF op \in {"+", "-"} THEN <<p1, p2>>
                    ELSE IF op \in Relational THEN <<p1>> ELSE <<>>, l, r)
Levels == <<{"|"}, {"^"}, {"&"}, {"==", "!="}, {">", ">=", "<", "<="}, {"<<", ">>"},
            {"+", "-"}, {"*", "/", "%"}>>
Prec == [op \in DOMAIN binop |-> CHOOSE k \in DOMAIN Levels : op \in Levels[k]]
arithop == ("+=" :> "+") @@ ("-=" :> "-") @@ ("&=" :> "&") @@ ("|=" :> "|") @@ ("^=" :> "^")
           @@ ("*=" :> "*") @@ ("%=" :> "%") @@ ("/=" :> "/") @@ ("<<=" :> "<<") @@ (">>=" :> ">>")

(***************************************************************************)
(* The operators and operands binexpr() has not combined yet.              *)
(***************************************************************************)
Combine(st) ==
    LET k == Len(st.ops)
        op == Last(st.ops)  p1 == st.prims[k]  p2 == st.prims[k + 1]
    IN  [ops |-> Front(st.ops),
         prims |-> SubSeq(st.prims, 1, k - 1) \o <<binoptype(op, p1, p2)>>,
         trees |-> SubSeq(st.trees, 1, k - 1) \o <<mkop(op, p1, p2, st.trees[k], st.trees[k + 1])>>,
         bad |-> st.bad \/ ~Takes(op, p1, p2)]
RECURSIVE Unwind(_, _)
Unwind(st, prec) ==
    IF st.ops # <<>> /\ prec <= Prec[Last(st.ops)] THEN Unwind(Combine(st), prec) ELSE st

(***************************************************************************)
(* primary()                                                               *)
(***************************************************************************)
Identifier(s, y) ==
    LET e == s.tab.ent[y]
    IN  CASE e.type = "function" ->
               IF Tok(s) = "(" THEN Result(s, NULL, e.prim, y, FALSE)
               ELSE Result(s, Leaf("ADDR", y), FUNPTR, y, FALSE)
          [] e.type = "constant" -> Result(s, Lit(e.val), e.prim, y, FALSE)
          [] e.type = "array" -> Pointer(Result(s, Leaf("ADDR", y), e.prim, y, FALSE))
          [] OTHER ->
               IF comptype(e.prim) THEN Result(s, Leaf("ADDR", y), e.prim, 0, FALSE)
               ELSE Result(s, Leaf("IDENT", y), e.prim, y, TRUE)
Variable(s) ==
    LET y == findsym(s.tab, Val(s))
        after == Scan(s)
        implicit == WithTable(after, addglob(s.tab, Entry(Val(s), PINT, "function", "extern", -1, 0)))
    IN  CASE y # 0 -> Identifier(after, y)
          [] Tok(after) = "(" -> Identifier(implicit, implicit.tab.y)
          [] OTHER -> Error(after)
Pad(k) == IF k % BPW = 1 THEN <<0>> ELSE <<>>    \* what genalign(k) adds
RECURSIVE Strings(_, _)
Strings(s, text) == IF Tok(s) = "str" THEN Strings(Scan(s), text \o Val(s)) ELSE <<s, text>>
StringLit(s) ==
    LET all == Strings(s, <<>>)
        end == label(all[1])
        text == all[2] \o <<0>>
    IN  Emit(Result(end, Leaf("LDLAB", end.lab), CHARPTR, 0, FALSE),
             <<<<"gendata">>, <<"genlab", end.lab>>, <<"gendefs", text \o Pad(Len(text))>>>>)

primary(s) ==
    CASE Tok(s) = "id" -> Variable(s)
      [] Tok(s) = "num" -> Result(Scan(s), Lit(Val(s)), PINT, 0, FALSE)
      [] Tok(s) = "str" -> StringLit(s)
      [] Tok(s) = "(" -> match(")", Parse("exprlist", Scan(s)))
      [] OTHER -> Error(s)

(***************************************************************************)
(* postfix(): subscripts, calls, ++ and --, members.                       *)
(***************************************************************************)
indirection(s) ==
    LET v == rvalue(s)
    IN  [ErrorIf(v.prim = VOIDPTR \/ ~Dereferenced(v.prim), v)
            EXCEPT !.prim = IF Dereferenced(@) THEN deref(@) ELSE @, !.sym = 0]
subscript(s) ==
    LET base == indirection(s)
        at == rvalue(Parse("value", Scan(base)))
        p == base.prim
        index == CASE comptype(p) -> Un("SCALEBY", <<SizeOf(at.tab, p)>>, at.n)
                   [] p = PINT \/ (p[2] = 1 /\ p # FUNPTR) -> Un("SCALE", <<>>, at.n)
                   [] OTHER -> at.n
    IN  Result(match("]", ErrorIf(at.prim # PINT, at)), Bin("ADD", base.n, index), p, 0, TRUE)

RECURSIVE fnargs(_, _, _, _)
Argument(a, sig, n, types) ==
    LET p == IF comptype(a.prim) THEN pointerto(a.prim) ELSE a.prim
        k == Len(types) + 1
        wrong == k <= Len(sig[2]) /\ ~typematch(sig[2][k], p)
    IN  <<ErrorIf(comptype(a.prim) \/ wrong, [a EXCEPT !.n = Bin("GLUE", n, @)]), Append(types, p)>>
Arguments(so, sig) ==
    LET s == so[1]
    IN  IF Tok(s) = "," THEN fnargs(ErrorIf(Tok(Scan(s)) = ")", Scan(s)), sig, s.n, so[2]) ELSE so
fnargs(s, sig, n, types) ==
    IF Tok(s) = ")" THEN <<[s EXCEPT !.n = n], types>>
    ELSE Arguments(Argument(rvalue(Parse("asgmnt", s)), sig, n, types), sig)
argsok(na, nf) == na = nf \/ (nf < 0 /\ na >= -nf - 1)
\* The first call of a function nothing declares makes its signature: at most
\* MAXFNARGS types.  (fnargs() takes room for all and copies what sgn[] was not
\* given as it stands; no file of the runs calls with none or with more.)
Direct(s, types, prim, fn) ==
    LET e == s.tab.ent[fn]
        known == SubSeq(types, 1, IF Len(types) > MAXFNARGS THEN MAXFNARGS ELSE Len(types))
        learnt == IF e.sig[1] THEN s.tab ELSE signature(s.tab, fn, known)
    IN  Result(ErrorIf(~argsok(Len(types), e.size), match(")", WithTable(s, learnt))),
               Un(IF e.stcls \in {"far", "fproto"} THEN "CALLFAR" ELSE "CALL", <<fn, Len(types)>>, s.n),
               prim, fn, FALSE)
Indirect(s, types, prim, fn) ==
    Result(ErrorIf(prim # FUNPTR, match(")", s)), Un("CALR", <<fn, Len(types)>>, s.n), PINT, fn, FALSE)
Called(so, prim, fn) ==
    IF fn # 0 /\ so[1].tab.ent[fn].type = "function" THEN Direct(so[1], so[2], prim, fn)
    ELSE Indirect(so[1], so[2], prim, fn)
call(s) == Called(fnargs(Scan(s), s.tab.ent[s.sym].sig, NULL, <<>>), s.prim, s.sym)

postinc(s) ==
    LET op == IF Tok(s) = "++" THEN "POSTINC" ELSE "POSTDEC"
    IN  IF s.addr THEN Value(Scan(s), Un(op, <<s.prim, s.sym>>, s.n), s.prim) ELSE Error(s)
stc_access(s) ==
    LET y == findmem(s.tab, s.prim[3], Val(s))
        e == s.tab.ent[y]
        n == IF s.prim[1] = "struct" /\ e.val # 0 THEN Bin("ADD", s.n, Lit(e.val)) ELSE s.n
    IN  IF Tok(s) # "id" \/ y = 0 THEN Error(s)
        ELSE IF e.type = "array" THEN Pointer(Value(Scan(s), n, e.prim))
        ELSE Result(Scan(s), n, e.prim, s.sym, TRUE)
dot(s) == IF comptype(s.prim) THEN stc_access(Scan(s)) ELSE Error(s)
arrow(s) ==
    IF s.prim[1] \in {"struct", "union"} /\ s.prim[2] = 1
    THEN [stc_access(rvalue(Scan(s))) EXCEPT !.sym = 0] ELSE Error(s)

RECURSIVE Postfixes(_)
Postfixes(s) ==
    CASE Tok(s) = "[" -> Postfixes(subscript(s))
      [] Tok(s) = "(" -> Postfixes(call(s))
      [] Tok(s) \in {"++", "--"} -> Postfixes(postinc(s))
      [] Tok(s) = "." -> Postfixes(dot(s))
      [] Tok(s) = "->" -> Postfixes(arrow(s))
      [] OTHER -> s
postfix(s) == Postfixes(primary(s))

(***************************************************************************)
(* prefix(), comp_size(), cast()                                           *)
(***************************************************************************)
Types == {"char", "int", "void", "struct", "union"}
comp_size(s) ==
    LET type == primtype(s)
        star == Tok(type) = "*"
        k == IF star THEN BPW ELSE SizeOf(type.tab, type.prim)
        obj == Parse("prefix", s)
        e == obj.tab.ent[obj.sym]
        size == IF obj.sym # 0 THEN objsize(obj.tab, e.prim, e.type, e.size) ELSE SizeOf(obj.tab, obj.prim)
    IN  IF Tok(s) \in Types
        THEN Value(ErrorIf(k = 0, IF star THEN Stars([type EXCEPT !.prim = PVOID]) ELSE type), Lit(k), PINT)
        ELSE Value(ErrorIf(size = 0, obj), Lit(size), PINT)

Sign == ("+" :> "") @@ ("-" :> "NEG") @@ ("~" :> "NOT") @@ ("!" :> "LOGNOT")
preinc(s) ==
    LET a == Parse("prefix", Scan(s))
        op == IF Tok(s) = "++" THEN "PREINC" ELSE "PREDEC"
    IN  IF a.addr THEN Value(a, Un(op, <<a.prim, a.sym>>, a.n), a.prim) ELSE Error(a)
sign(s) ==
    LET a == rvalue(Parse("cast", Scan(s)))
        op == Tok(s)
    IN  IF op = "!" THEN Value(a, Un("LOGNOT", <<>>, a.n), PINT)
        ELSE ErrorIf(~inttype(a.prim), IF op = "+" THEN a ELSE Value(a, Un(Sign[op], <<>>, a.n), a.prim))
address(s) ==
    LET a == Parse("cast", Scan(s))
        n == IF a.addr /\ a.sym # 0 THEN Un("ADDR", <<a.sym>>, a.n) ELSE a.n
        isarray == a.sym # 0 /\ a.tab.ent[a.sym].type = "array"
    IN  Pointer(Value(ErrorIf(~a.addr /\ ~isarray /\ ~comptype(a.prim), a), n, a.prim))
prefix(s) ==
    CASE Tok(s) \in {"++", "--"} -> preinc(s)
      [] Tok(s) = "*" -> [indirection(Parse("cast", Scan(s))) EXCEPT !.addr = TRUE]
      [] Tok(s) \in DOMAIN Sign -> sign(s)
      [] Tok(s) = "&" -> address(s)
      [] Tok(s) = "sizeof" -> match(")", comp_size(match("(", Scan(s))))
      [] OTHER -> postfix(s)

cast(s) ==
    LET type == primtype(Scan(s))
        fun == match(")", match("(", match(")", match("*", Scan(type)))))
        to == match(")", IF type.prim = PINT /\ Tok(type) = "("
                         THEN [fun EXCEPT !.prim = FUNPTR] ELSE Stars(type))
    IN  IF Tok(s) = "(" /\ Tok(Scan(s)) \in Types \cup {"unsigned"}
        THEN [Parse("prefix", to) EXCEPT !.prim = to.prim]
        ELSE Parse("prefix", s)

(***************************************************************************)
(* binexpr(), cond2(), cond3(), asgmnt(), exprlist()                       *)
(***************************************************************************)
RECURSIVE Operands(_, _)
Operands(s, st) ==
    LET op == Tok(s)
        right == rvalue(Parse("cast", Scan(s)))
        st1 == Unwind(st, Prec[op])
    IN  IF op \notin DOMAIN binop THEN <<s, Unwind(st, 0)>>
        ELSE Operands(right, [st1 EXCEPT !.ops = Append(@, op), !.prims = Append(@, right.prim),
                                         !.trees = Append(@, right.n)])
binexpr(s) ==
    LET first == Parse("cast", s)
        left == rvalue(first)
        all == Operands(left, [ops |-> <<>>, prims |-> <<left.prim>>, trees |-> <<left.n>>, bad |-> FALSE])
        st == all[2]
    IN  IF Tok(first) \notin DOMAIN binop THEN first
        ELSE Result(ErrorIf(st.bad, all[1]), st.trees[1], st.prims[1], left.sym, FALSE)

RECURSIVE Conditions(_, _, _, _), Alternatives(_, _, _)
Operand2(op) == IF op = "||" THEN "and" ELSE "binexpr"
Conditions(s, op, lab, Left) ==
    LET right == rvalue(Parse(Operand2(op), Scan(s)))
    IN  IF Tok(s) # op THEN Value(s, Un("BOOL", <<>>, Un("LAB", <<lab>>, Left)), PINT)
        ELSE Conditions(right, op, lab,
                        Node(IF op = "||" THEN "BRTRUE" ELSE "BRFALSE", <<lab>>, Left, right.n))
cond2(s, op) ==
    LET first == Parse(Operand2(op), s)
        left == rvalue(notvoid(label(first), first.prim))
    IN  IF Tok(first) # op THEN first
        ELSE [Conditions(left, op, left.lab, left.n) EXCEPT !.sym = first.sym]

Alternatives(s, end, p) ==
    LET l1 == s.lab + 1
        l2 == IF end = 0 THEN s.lab + 2 ELSE end
        start == IF end = 0 THEN label(label(s)) ELSE label(s)
        yes == rvalue(Parse("exprlist", Scan(start)))
        type == IF end = 0 THEN yes.prim ELSE p
        no == rvalue(Parse("or", match(":", ErrorIf(~typematch(type, yes.prim), yes))))
        clash == Tok(no) # "?" /\ ~typematch(type, no.prim)
    IN  IF Tok(s) # "?" THEN Value(s, Un("IFELSE", <<end>>, s.n), p)
        ELSE Alternatives([ErrorIf(clash, no) EXCEPT !.n = Bin("GLUE", Node("BRFALSE", <<l1>>, s.n, yes.n), @)],
                     l2, type)
cond3(s) ==
    LET first == Parse("or", s)
        test == notvoid(rvalue(first), first.prim)
    IN  IF Tok(first) # "?" THEN first
        ELSE [Alternatives(test, 0, PVOID) EXCEPT !.sym = first.sym]

Assigned(to, op, right) ==
    LET old == IF to.addr THEN Share(rvalue(to).n) ELSE to.n
        v == IF op = "=" THEN right.n ELSE mkop(arithop[op], to.prim, right.prim, old, right.n)
        node == Node("ASSIGN", <<to.prim, to.sym>>, to.n, v)
        bad == ~to.addr \/ (op = "=" /\ ~typematch(to.prim, right.prim))
    IN  Result(ErrorIf(bad, right), IF op = "=" THEN node ELSE Share(node), to.prim, to.sym, FALSE)
Assignment(to) ==
    IF Tok(to) \in {"="} \cup DOMAIN arithop
    THEN Assigned(to, Tok(to), rvalue(Parse("asgmnt", Scan(to)))) ELSE to
asgmnt(s) == Assignment(cond3(s))

RECURSIVE Commas(_)
Commas(s) ==
    LET right == rvalue(Parse("asgmnt", Scan(s)))
    IN  IF Tok(s) # "," THEN s ELSE Commas([right EXCEPT !.n = Bin("COMMA", s.n, @)])
exprlist(s, ckvoid) ==
    LET first == Parse("asgmnt", s)
        all == IF Tok(first) = "," THEN Commas(rvalue(first)) ELSE first
    IN  IF ckvoid THEN notvoid(all, all.prim) ELSE all

Parse(what, s) ==
    CASE what = "exprlist" -> exprlist(s, FALSE)
      [] what = "value" -> exprlist(s, TRUE)
      [] what = "asgmnt" -> asgmnt(s)
      [] what = "or" -> cond2(s, "||")
      [] what = "and" -> cond2(s, "&&")
      [] what = "binexpr" -> binexpr(s)
      [] what = "cast" -> cast(s)
      [] what = "prefix" -> prefix(s)

(***************************************************************************)
(* expr(), rexpr(), constexpr()                                            *)
(***************************************************************************)
Generated(e) == IF e.err THEN e ELSE Emit(e, emittree(e.tab, e.n))
expr(s, ckvoid) == Generated(rvalue(Parse(IF ckvoid THEN "value" ELSE "exprlist", s)))
rexpr(s) == expr(s, TRUE)
Literal(e, n) ==    \* the value is left in "k"
    IF n = Trap THEN Error(Emit(e, <<<<"trap">>>>))
    ELSE [ErrorIf(e.prim = PVOID \/ ~IsLit(n), e) EXCEPT !.k = IF IsLit(n) THEN n.args[1] ELSE 0]
Reduced(e) == Literal(e, IF e.err THEN Lit(0) ELSE fold_reduce(e.n))
constexpr(s) == Reduced(Parse("binexpr", s))
=============================================================================
