------------------------------ MODULE CSource -------------------------------
(***************************************************************************)
(* C programs as trees, the tokens they are written with, and what C says  *)
(* they compute: the reference Compiler is compared with.  Nothing here is *)
(* translated from the compiler.                                           *)
(*                                                                         *)
(* An expression is <<kind, what, operands...>>:                           *)
(*   num n; text "ab"; var x; un op e; bin op l r; asg op l r;             *)
(*   seq "&&" "||" "," l r;                                                *)
(*   cond "?" c a b; inc "++x" "--x" "x++" "x--" e; idx "[" a i;           *)
(*   call f args...; dot m e; arrow m e; cast type e; size n e             *)
(* and a statement <<kind, what, parts...>>: see Unparse.                  *)
(***************************************************************************)
EXTENDS Integers, Sequences, FiniteSets, SequencesExt

CONSTANTS Functions, \* name -> [params, locals, body]
          Memory,    \* cell -> value, before main()
          ByteCells, \* objects and members of type char
          Arrays,    \* objects that are arrays
          Fuel       \* rounds of all loops and calls together

Kids(e) == SubSeq(e, 3, Len(e))

(***************************************************************************)
(* Writing a program down, with the parentheses it needs and no more.      *)
(***************************************************************************)
K(lexeme) == <<<<lexeme, 0>>>>
Id(x) == <<<<"id", x>>>>
Num(n) == <<<<"num", n>>>>
Strength == <<{"|"}, {"^"}, {"&"}, {"==", "!="}, {">", ">=", "<", "<="}, {"<<", ">>"},
              {"+", "-"}, {"*", "/", "%"}>>
Level(e) ==
    CASE e[1] = "seq" -> (IF e[2] = "," THEN 1 ELSE IF e[2] = "||" THEN 4 ELSE 5)
      [] e[1] = "asg" -> 2
      [] e[1] = "cond" -> 3
      [] e[1] = "bin" -> 5 + (CHOOSE k \in DOMAIN Strength : e[2] \in Strength[k])
      [] e[1] \in {"un", "cast", "size"} -> 14
      [] e[1] = "inc" -> IF e[2] \in {"++x", "--x"} THEN 14 ELSE 15
      [] OTHER -> 15
RECURSIVE Show(_, _), ShowArgs(_)
ShowArgs(args) ==
    IF args = <<>> THEN <<>>
    ELSE Show(Head(args), 2) \o (IF Len(args) > 1 THEN K(",") ELSE <<>>) \o ShowArgs(Tail(args))
Written(e) ==
    LET l == Level(e)
        Left == Show(e[3], l)
    IN  CASE e[1] = "num" -> Num(e[2])
          [] e[1] = "text" -> <<<<"str", <<97, 98>>>>>>
          [] e[1] = "var" -> Id(e[2])
          [] e[1] = "un" -> K(e[2]) \o Show(e[3], 14)
          [] e[1] \in {"bin", "seq"} -> Left \o K(e[2]) \o Show(e[4], l + 1)
          [] e[1] = "asg" -> Show(e[3], 14) \o K(e[2]) \o Show(e[4], 2)
          [] e[1] = "cond" -> Show(e[3], 4) \o K("?") \o Show(e[4], 1) \o K(":") \o Show(e[5], 3)
          [] e[1] = "inc" /\ l = 14 -> K(IF e[2] = "++x" THEN "++" ELSE "--") \o Show(e[3], 14)
          [] e[1] = "inc" -> Left \o K(IF e[2] = "x++" THEN "++" ELSE "--")
          [] e[1] = "idx" -> Left \o K("[") \o Show(e[4], 1) \o K("]")
          [] e[1] = "call" -> Id(e[2]) \o K("(") \o ShowArgs(Kids(e)) \o K(")")
          [] e[1] = "dot" -> Left \o K(".") \o Id(e[2])
          [] e[1] = "arrow" -> Left \o K("->") \o Id(e[2])
          [] e[1] = "cast" -> K("(") \o K(e[2]) \o K("*") \o K(")") \o Show(e[3], 14)
          [] e[1] = "size" -> K("sizeof") \o K("(") \o Show(e[3], 14) \o K(")")
Show(e, min) == IF Level(e) >= min THEN Written(e) ELSE K("(") \o Written(e) \o K(")")
Expr(e) == IF e[1] = "none" THEN <<>> ELSE Show(e, 1)

RECURSIVE Unparse(_), All(_)
All(list) == IF list = <<>> THEN <<>> ELSE Unparse(Head(list)) \o All(Tail(list))
Paren(e) == K("(") \o Expr(e) \o K(")")
Unparse(c) ==
    LET k == c[1]
    IN  CASE k = "expr" -> Expr(c[3]) \o K(";")
          [] k = "if" -> K("if") \o Paren(c[3]) \o Unparse(c[4])
          [] k = "ifelse" -> K("if") \o Paren(c[3]) \o Unparse(c[4]) \o K("else") \o Unparse(c[5])
          [] k = "while" -> K("while") \o Paren(c[3]) \o Unparse(c[4])
          [] k = "do" -> K("do") \o Unparse(c[4]) \o K("while") \o Paren(c[3]) \o K(";")
          [] k = "for" -> K("for") \o K("(") \o Expr(c[3]) \o K(";") \o Expr(c[4]) \o K(";")
                          \o Expr(c[5]) \o K(")") \o Unparse(c[6])
          [] k = "switch" -> K("switch") \o Paren(c[3]) \o Unparse(c[4])
          [] k = "case" -> K("case") \o Num(c[2]) \o K(":")
          [] k = "default" -> K("default") \o K(":")
          [] k = "block" -> K("{") \o All(Kids(c)) \o K("}")
          [] k = "return" -> K("return") \o Expr(c[3]) \o K(";")
          [] k = "asm" -> K("asm") \o K("(") \o <<<<"str", <<110>>>>>> \o K(")") \o K(";")
          [] OTHER -> K(k) \o K(";")                 \* break, continue

(***************************************************************************)
(* What it computes.  A value is <<"i", n>>, <<"p", cell>>, or <<"u", 0>>  *)
(* if there is none; a cell is <<object, index, member>>.  "ok" tells      *)
(* "ok", "undefined" or, for what is known to go wrong, "gap".             *)
(***************************************************************************)
IntV(n) == <<"i", n>>
PtrV(c) == <<"p", c>>
Unset == <<"u", 0>>
Bad(st, how) == IF st.ok = "ok" THEN [st EXCEPT !.ok = how] ELSE st
BadIf(b, st, how) == IF b THEN Bad(st, how) ELSE st
V(v, st) == [v |-> v, st |-> st]
Truthy(v) == v[1] = "p" \/ v[2] # 0
Bool(b) == IntV(IF b THEN 1 ELSE 0)
Sized16(n, st) == V(IntV(n), BadIf(n \notin -32768 .. 32767, st, "undefined"))
IsByte(c) == c[1] \in ByteCells \/ c[3] \in ByteCells

Read(c, st) ==
    IF c \notin DOMAIN st.mem \/ st.ok # "ok" THEN V(IntV(0), Bad(st, "undefined"))
    ELSE V(st.mem[c], BadIf(st.mem[c][1] = "u", st, "undefined"))
Write(c, v, st) ==
    LET kept == IF IsByte(c) THEN IntV(v[2] % 256) ELSE v
    IN  IF c \notin DOMAIN st.mem THEN V(v, Bad(st, "undefined"))
        ELSE V(kept, [BadIf(v[1] = "u", st, "undefined") EXCEPT !.mem[c] = kept])

\* What an expression changes and reads: names, and "*" for what is reached
\* through a pointer.
Target(e) == IF e[1] = "var" THEN {e[2]} ELSE {"*"}
RECURSIVE Writes(_), Reads(_)
Writes(e) ==
    (CASE e[1] \in {"asg", "inc"} -> Target(e[3]) [] e[1] = "call" -> {"t"} [] OTHER -> {})
    \cup UNION {Writes(Kids(e)[i]) : i \in DOMAIN Kids(e)}
Reads(e) ==
    (CASE e[1] = "var" -> {e[2]} [] e[1] \in {"idx", "dot", "arrow"} -> {"*"}
       [] e[1] = "un" /\ e[2] = "*" -> {"*"} [] OTHER -> {})
    \cup UNION {Reads(Kids(e)[i]) : i \in DOMAIN Kids(e)}
\* Two operands without an order between them; calls commute.
Disturbs(l, r) == (Writes(l) \cap Reads(r)) \cup ((Writes(l) \cap Writes(r)) \ {"t"}) # {}
Unordered(l, r) == Disturbs(l, r) \/ Disturbs(r, l)

Abs(a) == IF a < 0 THEN -a ELSE a
Over(a, b) == IF (a >= 0) = (b >= 0) THEN Abs(a) \div Abs(b) ELSE -(Abs(a) \div Abs(b))
Constant(e) == Reads(e) \cup Writes(e) = {}
Moved(p, k) == PtrV([p[2] EXCEPT ![2] = @ + k])
And16(a, b) == LET bits == {i \in 0 .. 15 : (a \div 2^i) % 2 = 1 /\ (b \div 2^i) % 2 = 1}
               IN  FoldSet(LAMBDA i, sum : sum + (IF i = 15 THEN -32768 ELSE 2^i), 0, bits)

\* An operator on values.
Ints(op, a, b, st) ==
    CASE op = "+" -> Sized16(a + b, st)
      [] op = "-" -> Sized16(a - b, st)
      [] op = "*" -> Sized16(a * b, st)
      [] op \in {"/", "%"} ->
             IF b = 0 THEN V(IntV(0), Bad(st, "undefined"))
             ELSE Sized16(IF op = "/" THEN Over(a, b) ELSE a - b * Over(a, b), st)
      [] op = "<<" -> IF a < 0 \/ b \notin 0 .. 15 THEN V(IntV(0), Bad(st, "undefined")) ELSE Sized16(a * 2^b, st)
      [] op = ">>" -> IF b \notin 0 .. 15 THEN V(IntV(0), Bad(st, "undefined")) ELSE V(IntV(a \div 2^b), st)
      [] op = "&" -> V(IntV(And16(a, b)), st)
      [] op = "|" -> V(IntV(a + b - And16(a, b)), st)
      [] op = "^" -> V(IntV(a + b - 2 * And16(a, b)), st)
      [] op = "==" -> V(Bool(a = b), st)
      [] op = "!=" -> V(Bool(a # b), st)
      [] op = "<" -> V(Bool(a < b), st)
      [] op = ">" -> V(Bool(a > b), st)
      [] op = "<=" -> V(Bool(a <= b), st)
      [] op = ">=" -> V(Bool(a >= b), st)
Same(p, q) == p[2][1] = q[2][1] /\ p[2][3] = q[2][3]
Apart(op, x) == V(x.v, BadIf(op = "-" /\ x.v[2] < 0, x.st, "gap"))    \* unscaled by shr
Apply(op, a, b, st) ==
    CASE st.ok # "ok" -> V(IntV(0), st)
      [] a[1] = "p" /\ b[1] = "p" /\ ~Same(a, b) -> V(IntV(0), Bad(st, "undefined"))
      [] a[1] = "p" /\ b[1] = "p" /\ Same(a, b) -> Apart(op, Ints(op, a[2][2], b[2][2], st))
      [] a[1] = "p" /\ b[1] # "p" -> IF op \in {"+", "-"} THEN V(Moved(a, IF op = "+" THEN b[2] ELSE -b[2]), st)
                                     ELSE V(Bool(op = "!="), st)
      [] a[1] # "p" /\ b[1] = "p" -> IF op = "+" THEN V(Moved(b, a[2]), st) ELSE V(Bool(op = "!="), st)
      [] OTHER -> Ints(op, a[2], b[2], st)

(***************************************************************************)
(* What goes wrong in the compiled code and is known (see the README).     *)
(***************************************************************************)
Simple(e) == e[1] = "var" /\ e[2] \notin Arrays
Zero(e) == Constant(e) /\ e[1] = "num" /\ e[2] = 0
KnownGap(op, l, r, a, b) ==
    \/ /\ op = "/" /\ a[1] = "i" /\ a[2] < 0                 \* a power of two becomes sar
       /\ ~Constant(l) /\ Constant(r) /\ b[2] \in {2^i : i \in 1 .. 14}
    \/ op = "*" /\ Zero(l) /\ Constant(r)                    \* the compiler divides by zero
    \/ /\ op = "+"                                           \* cgscaleby() overwrites cx
       /\ \/ a[1] = "p" /\ a[2][1] = "w" /\ ~Simple(l)
          \/ b[1] = "p" /\ b[2][1] = "w" /\ (Simple(l) \/ Constant(l))
IndirectPrefix(e) == e[2] \in {"++x", "--x"} /\ e[3][1] # "var"    \* mov bx,[ax]
LocalByte(e) == e[3][1] = "var" /\ e[3][2] = "k"                   \* [bp+1] is changed instead

RECURSIVE E(_, _), LV(_, _), Exec(_, _), Steps(_, _), CallOf(_, _, _, _)
Reached(x) == IF x.v[1] = "p" THEN V(x.v[2], x.st) ELSE V(<<"", 0, "">>, Bad(x.st, "undefined"))
Member(x, mem) == V([x.v EXCEPT ![3] = mem], x.st)
Sum(e, a, i) == Apply("+", a, i.v, BadIf(Unordered(e[3], e[4]), i.st, "undefined"))
Indexed(e, a) == Sum(e, a.v, E(e[4], a.st))
LV(e, st) ==
    CASE e[1] = "var" -> V(<<e[2], 0, "">>, st)
      [] e[1] = "idx" -> Reached(Indexed(e, E(e[3], st)))
      [] e[1] = "un" -> Reached(E(e[3], st))
      [] e[1] = "dot" -> Member(LV(e[3], st), e[2])
      [] e[1] = "arrow" -> Member(Reached(E(e[3], st)), e[2])

Load(x) == Read(x.v, x.st)
Unary(op, a) ==
    CASE op = "-" -> Sized16(-a.v[2], a.st)
      [] op = "~" -> V(IntV(-a.v[2] - 1), a.st)
      [] op = "!" -> V(Bool(~Truthy(a.v)), a.st)
      [] OTHER -> a
Combined(e, a, b) ==
    Apply(e[2], a, b.v, BadIf(KnownGap(e[2], e[3], e[4], a, b.v),
                              BadIf(Unordered(e[3], e[4]), b.st, "undefined"), "gap"))
Binary(e, a) == Combined(e, a.v, E(e[4], a.st))
AsBool(x) == V(Bool(Truthy(x.v)), x.st)
Shortcut(e, a) ==
    IF Truthy(a.v) = (e[2] = "&&") THEN AsBool(E(e[4], a.st)) ELSE V(Bool(e[2] = "||"), a.st)

\* An assignment: its value is not truncated.
Ops == ("+=" :> "+") @@ ("-=" :> "-") @@ ("*=" :> "*") @@ ("/=" :> "/") @@ ("%=" :> "%")
       @@ ("&=" :> "&") @@ ("|=" :> "|") @@ ("^=" :> "^") @@ ("<<=" :> "<<") @@ (">>=" :> ">>")
Clash(e) == \/ Unordered(IF e[3][1] = "var" THEN <<"num", 0>> ELSE e[3], e[4])
            \/ Target(e[3]) \cap Writes(e[4]) # {}
Truncated(w, v) == V(w.v, BadIf(w.v # v, w.st, "gap"))
Stored(e, c, x) == Truncated(Write(c, x.v, BadIf(Clash(e), x.st, "undefined")), x.v)
Compounded(e, c, old, r) ==
    Stored(e, c, Apply(Ops[e[2]], old, r.v,
                       BadIf(KnownGap(Ops[e[2]], e[3], e[4], old, r.v) \/ Writes(e[3]) # {}, r.st, "gap")))
Compound(e, c, old) == Compounded(e, c, old.v, E(e[4], old.st))
Assigned(e, to) ==
    IF e[2] = "=" THEN Stored(e, to.v, E(e[4], to.st)) ELSE Compound(e, to.v, Load(to))

Before(e, w, old) == V(IF e[2] \in {"++x", "--x"} THEN w.v ELSE old, w.st)
Changed(e, c, old, new) ==
    Before(e, Write(c, new.v, BadIf(IndirectPrefix(e) \/ LocalByte(e), new.st, "gap")), old)
Incremented(e, c, old) ==
    Changed(e, c, old.v, Apply(IF e[2] \in {"++x", "x++"} THEN "+" ELSE "-", old.v, IntV(1), old.st))
Increment(e, to) == Incremented(e, to.v, Load(to))

Alternative(e, a) == E(IF Truthy(a.v) THEN e[4] ELSE e[5], a.st)
E(e, st) ==
    CASE st.ok # "ok" -> V(IntV(0), st)
      [] e[1] = "num" -> V(IntV(e[2]), st)
      [] e[1] = "text" -> V(PtrV(<<"text", 0, "">>), st)
      [] e[1] = "var" -> IF e[2] \in Arrays THEN V(PtrV(<<e[2], 0, "">>), st) ELSE Read(<<e[2], 0, "">>, st)
      [] e[1] \in {"idx", "dot", "arrow"} \/ (e[1] = "un" /\ e[2] = "*") -> Load(LV(e, st))
      [] e[1] = "un" /\ e[2] = "&" -> LET to == LV(e[3], st) IN V(PtrV(to.v), to.st)
      [] e[1] = "un" /\ e[2] \in {"-", "~", "!", "+"} -> Unary(e[2], E(e[3], st))
      [] e[1] = "bin" -> Binary(e, E(e[3], st))
      [] e[1] = "seq" /\ e[2] = "," -> E(e[4], E(e[3], st).st)
      [] e[1] = "seq" /\ e[2] # "," -> Shortcut(e, E(e[3], st))
      [] e[1] = "cond" -> Alternative(e, E(e[3], st))
      [] e[1] = "asg" -> Assigned(e, LV(e[3], st))
      [] e[1] = "inc" -> Increment(e, LV(e[3], st))
      [] e[1] = "call" /\ e[2] \notin DOMAIN Functions -> V(IntV(0), Bad(st, "undefined"))
      [] e[1] = "call" /\ e[2] \in DOMAIN Functions -> CallOf(e[2], <<>>, Kids(e), st)
      [] e[1] = "cast" -> E(e[3], st)
      [] e[1] = "size" -> V(IntV(e[2]), st)

(***************************************************************************)
(* Calls and statements.  "flow" is how a statement was left.              *)
(***************************************************************************)
Mine(fn) == {<<fn.params[i], 0, "">> : i \in DOMAIN fn.params} \cup {<<fn.locals[i], 0, "">> : i \in DOMAIN fn.locals}
Entered(fn, vals, st) ==
    [BadIf(st.fuel = 0, st, "undefined") EXCEPT !.fuel = @ - 1,
        !.mem = [c \in DOMAIN st.mem \cup Mine(fn) |->
                    IF \E i \in DOMAIN vals : c = <<fn.params[i], 0, "">>
                    THEN vals[CHOOSE i \in DOMAIN vals : c = <<fn.params[i], 0, "">>]
                    ELSE IF c \in Mine(fn) THEN Unset ELSE st.mem[c]]]
Returned(fn, mem, ran) ==
    V(ran.ret, [ran EXCEPT !.mem = [c \in DOMAIN mem |-> IF c \in Mine(fn) THEN mem[c] ELSE ran.mem[c]],
                           !.flow = "", !.ret = Unset])
Called(fn, vals, st) ==
    IF st.ok # "ok" THEN V(IntV(0), st) ELSE Returned(fn, st.mem, Exec(fn.body, Entered(fn, vals, st)))
NextArgument(f, vals, kids, x) == CallOf(f, Append(vals, x.v), kids, x.st)
CallOf(f, vals, kids, st) ==
    IF kids = <<>> THEN Called(Functions[f], vals, st)
    ELSE NextArgument(f, vals, Tail(kids), E(Head(kids), st))

Least(S) == CHOOSE i \in S : \A j \in S : i <= j
Leaves(st) == st.flow # "" \/ st.ok # "ok"
Round(c, body, st) ==    \* one more round of a loop after its body
    CASE st.flow = "break" -> [st EXCEPT !.flow = ""]
      [] st.flow = "return" \/ st.ok # "ok" -> st
      [] st.flow \notin {"break", "return"} /\ st.ok = "ok" /\ st.fuel = 0 -> Bad(st, "undefined")
      [] OTHER -> Exec(<<"while", "", c, body>>, [st EXCEPT !.flow = "", !.fuel = @ - 1])
Steps(list, st) == IF list = <<>> \/ Leaves(st) THEN st ELSE Steps(Tail(list), Exec(Head(list), st))
Go(st) == [st EXCEPT !.flow = IF @ = "continue" THEN "" ELSE @]
Stepped(step, st) == IF Leaves(st) \/ step[1] = "none" THEN st ELSE E(step, st).st

Compares(e) == e[1] = "bin" /\ e[2] \in {"==", "!=", "<", ">", "<=", ">="}
\* for, with the step where continue jumps to; its value is never committed.
ForLoop(c, st) ==
    Exec(<<"while", "", IF c[4][1] = "none" THEN <<"num", 1>> ELSE c[4], <<"stepped", "", c[6], c[5]>>>>,
         BadIf(Compares(c[5]), st, "gap"))
Cases(items, n) == {i \in DOMAIN items : items[i] = <<"case", n>>}
Defaults(items) == {i \in DOMAIN items : items[i][1] = "default"}
From(items, n) ==
    IF Cases(items, n) # {} THEN Least(Cases(items, n))
    ELSE IF Defaults(items) # {} THEN Least(Defaults(items)) ELSE Len(items) + 1
Switched(items, v, st) == Steps(SubSeq(items, From(items, v[2]), Len(items)), st)
Broken(st) == [st EXCEPT !.flow = IF @ = "break" THEN "" ELSE @]
Loop(c, st) == Round(c[3], c[4], Exec(c[4], st))
Decided(c, x) ==    \* x: the value of the expression of c
    IF Leaves(x.st) THEN x.st
    ELSE CASE c[1] = "expr" -> x.st
           [] c[1] = "if" -> IF Truthy(x.v) THEN Exec(c[4], x.st) ELSE x.st
           [] c[1] = "ifelse" -> Exec(IF Truthy(x.v) THEN c[4] ELSE c[5], x.st)
           [] c[1] = "while" -> IF Truthy(x.v) THEN Loop(c, x.st) ELSE x.st
           [] c[1] = "switch" -> Broken(Switched(Kids(c[4]), x.v, x.st))
           [] c[1] = "return" -> [x.st EXCEPT !.flow = "return", !.ret = x.v]
Exec(c, st) ==
    IF Leaves(st) THEN st
    ELSE CASE c[1] = "block" -> Steps(Kids(c), st)
           [] c[1] \in {"break", "continue"} -> [st EXCEPT !.flow = c[1]]
           [] c[1] = "do" -> Loop(c, st)
           [] c[1] = "stepped" -> Stepped(c[4], Go(Exec(c[3], st)))
           [] c[1] = "for" -> ForLoop(c, IF c[3][1] = "none" THEN st ELSE E(c[3], st).st)
           [] c[1] \in {"asm", "case", "default"} -> st
           [] OTHER -> Decided(c, E(c[3], st))
Meaning(body) ==
    Exec(body, [mem |-> Memory, ok |-> "ok", flow |-> "", ret |-> Unset, fuel |-> Fuel])
=============================================================================
