----------------------------- MODULE MCCompiler -----------------------------
(***************************************************************************)
(* Small files for Compiler, compared with what C says of them.  Every     *)
(* file has the same global objects, one function to call and a main()     *)
(* whose body is what varies.                                              *)
(***************************************************************************)
EXTENDS Compiler

CONSTANT Group    \* which files a run compiles

\* A name takes three bytes of the list of names, its final 0 included.
MCWidth == [x \in {"", "__SUBC__", "__dos", "a", "c", "p", "q", "v", "w", "s", "x", "y", "t", "r", "f", "b",
                   "main", "i", "k", "n", "oi", "ok", "on", "h", "st", "cp", "pp", "e0", "e4", "e5",
                   "far1", "j", "z", "uz", "b1", "b2"} |-> 3]

Var(x) == <<"var", x>>
N(n) == <<"num", n>>
Bin2(op, l, r) == <<"bin", op, l, r>>
Seq2(op, l, r) == <<"seq", op, l, r>>
Un1(op, e) == <<"un", op, e>>
Asg(op, to, e) == <<"asg", op, to, e>>
Set(to, e) == Asg("=", to, e)
Idx(a, i) == <<"idx", "[", a, i>>
Dot(e, mem) == <<"dot", mem, e>>
Arrow(e, mem) == <<"arrow", mem, e>>
Ask(c, l, r) == <<"cond", "?", c, l, r>>
Incr(op, e) == <<"inc", op, e>>
CallF(e) == <<"call", "f", e>>
Stat(e) == <<"expr", "", e>>
None == <<"none", "">>

(***************************************************************************)
(* int f(int x) { t += x; return x; }, and the cells before main(): t      *)
(* observes the calls, oi, ok and on the locals of main().                 *)
(***************************************************************************)
F == [params |-> <<"x">>, locals |-> <<>>,
      body |-> <<"block", "", Stat(Asg("+=", Var("t"), Var("x"))), <<"return", "", Var("x")>>>>]
Funs == [f |-> F, h |-> F]

W(x, j, mem) == <<x, j, mem>>
Obj(x) == W(x, 0, "")
Cells == {Obj(x) : x \in {"a", "c", "p", "q", "t", "r", "i", "k", "n", "oi", "ok", "on", "h", "f", "cp", "pp",
                          "e0", "e4", "e5", "b1", "b2"}}
         \cup {W("v", j, "") : j \in 0 .. 2} \cup {W(x, j, "") : x \in {"st", "text"}, j \in 0 .. 2}
         \cup {W("w", j, mem) : j \in 0 .. 2, mem \in {"x", "y"}} \cup {W("b", 0, "y"), W("j", 0, "x")}
Given == [a |-> 5, c |-> 250, i |-> 2, k |-> 7, n |-> -3, e0 |-> 0, e4 |-> 4, e5 |-> 5,
          b1 |-> 250, b2 |-> 7]
Before == [cell \in Cells |->
             CASE cell[1] \in DOMAIN Given -> <<"i", Given[cell[1]]>>
               [] cell[1] \in {"st", "text"} -> <<"i", IF cell[2] = 2 THEN 0 ELSE 97 + cell[2]>>
               [] cell[1] = "p" -> <<"p", W("v", 1, "")>>
               [] cell[1] = "cp" -> <<"p", W("st", 0, "")>>
               [] cell[1] = "pp" -> <<"p", Obj("p")>>
               [] cell[1] = "q" -> <<"p", W("w", 1, "")>>
               [] cell[1] \in {"f", "h"} -> <<"p", Obj("f")>>
               [] OTHER -> <<"i", 0>>]
C == INSTANCE CSource WITH Functions <- Funs, Memory <- Before,
                           ByteCells <- {"c", "k", "y", "st", "text", "b1", "b2"}, Arrays <- {"v", "w", "st"}, Fuel <- 12

(***************************************************************************)
(* The files.                                                              *)
(***************************************************************************)
Numeral == ("0" :> 0) @@ ("2" :> 2) @@ ("3" :> 3) @@ ("4" :> 4) @@ ("5" :> 5) @@ ("7" :> 7) @@ ("250" :> 250)
Lexeme(x) ==
    CASE x \in DOMAIN Numeral -> <<"num", Numeral[x]>>
      [] x = "\"ab\"" -> <<"str", <<97, 98>>>>
      [] x \in DOMAIN MCWidth -> <<"id", x>>
      [] OTHER -> <<x, 0>>
Text(lexemes) == [j \in DOMAIN lexemes |-> Lexeme(lexemes[j])]
Objects ==
    <<"int", "a", "=", "5", ";", "char", "c", "=", "250", ";",
      "int", "*", "p", ",", "*", "*", "pp", ",", "v", "[", "3", "]", ";",
      "struct", "s", "{", "int", "x", ";", "char", "y", ";", "}", ";",
      "struct", "s", "*", "q", ",", "w", "[", "3", "]", ";",
      "int", "t", ",", "r", ",", "oi", ",", "ok", ",", "on", ";", "char", "*", "cp", ",",
      "st", "[", "]", "=", "\"ab\"", ";">>
Function1 == <<"int", "f", "(", "int", "x", ")", "{", "t", "+=", "x", ";", "return", "x", ";", "}">>
Main == <<"int", "main", "(", "void", ")", "{">>
Locals0 == <<"int", "i", "=", "2", ";", "char", "k", "=", "7", ";", "static", "int", "n", "=", "-", "3", ";">>
Point == <<Stat(Set(Var("p"), Un1("&", Idx(Var("v"), N(1))))), Stat(Set(Var("q"), Un1("&", Idx(Var("w"), N(1))))),
           Stat(Set(Var("cp"), Var("st"))), Stat(Set(Var("pp"), Un1("&", Var("p")))),
           Stat(Set(Un1("*", Var("p")), N(4))), Stat(Set(Arrow(Var("q"), "y"), N(6)))>>
Observe == <<Stat(Set(Var("oi"), Var("i"))), Stat(Set(Var("ok"), Var("k"))), Stat(Set(Var("on"), Var("n"))),
             <<"return", "", N(0)>>>>
\* decls and locals are further declarations, before f() and in main().
WithBody(decls, locals, body) ==
    [toks |-> Text(Objects \o decls \o Function1 \o Main \o Locals0 \o locals)
              \o C!All(SubSeq(body, 3, Len(body))) \o Text(<<"}">>),
     body |-> body]
File(x) == WithBody(x[1], x[2], <<"block", "">> \o Point \o x[3] \o Observe)
Plain(stats) == <<<<>>, <<>>, stats>>

(***************************************************************************)
(* Expressions.                                                            *)
(***************************************************************************)
Operands0 == {Var("a"), Var("c"), Var("i"), Var("k"), Var("n"), N(3), Un1("*", Var("p")), CallF(N(2))}
BinOps == DOMAIN binop
Binary2 == {Bin2(op, l, r) : op \in BinOps, l \in Operands0, r \in Operands0}

\* Two operators without the parentheses they do not need.
Ops2 == {"|", "&", "==", "<", "<<", "-", "+", "*", "/"}
Mk(op, l, r) == IF op \in {"&&", "||"} THEN Seq2(op, l, r) ELSE Bin2(op, l, r)
Shapes(x, y, z) ==
    {Mk(o1, Mk(o2, x, y), z) : o1, o2 \in Ops2 \cup {"&&", "||"}}
    \cup {Mk(o1, x, Mk(o2, y, z)) : o1, o2 \in Ops2 \cup {"&&", "||"}}
Shapes2 == Shapes(Var("i"), Un1("*", Var("p")), N(2)) \cup Shapes(Idx(Var("v"), Var("i")), Var("k"), CallF(N(3)))

Places == {Var("a"), Var("c"), Var("i"), Var("k"), Var("n"), Un1("*", Var("p")), Idx(Var("v"), Var("i")),
           Dot(Idx(Var("w"), Var("i")), "x"), Dot(Idx(Var("w"), N(1)), "y"), Arrow(Var("q"), "x"),
           Arrow(Var("q"), "y"), Un1("*", Un1("*", Var("pp"))), Un1("*", Var("cp")), Idx(Var("st"), N(1))}
Unary1 == {Un1(op, e) : op \in {"-", "~", "!"}, e \in Places \cup {N(3), CallF(N(2)), Bin2("<", Var("i"), Var("a"))}}
          \cup {Un1(o1, Un1(o2, Var("i"))) : o1, o2 \in {"-", "~", "!"}}
Stores == {Asg(op, to, e) : op \in {"="} \cup DOMAIN arithop, to \in Places,
                            e \in {N(3), Var("k"), CallF(N(2)), Bin2("<", Var("i"), Var("a"))}}
          \cup {Incr(op, to) : op \in {"++x", "--x", "x++", "x--"}, to \in Places \cup {Var("p"), Var("q"), Var("cp")}}
          \cup {Set(to, Asg("+=", Var("i"), N(1))) : to \in Places}
\* The place is a sum of two variables, in either order, and shared.
Shares == {Asg(op, Un1("*", to), e) : op \in DOMAIN arithop, e \in {N(0), N(2), Var("k"), CallF(N(2))},
                                      to \in {Bin2("+", Var("p"), Var("oi")), Bin2("+", Var("oi"), Var("p"))}}
Pointers == {Var("p"), Bin2("+", Var("p"), N(1)), Bin2("-", Var("p"), Var("i")), Bin2("+", N(1), Var("v")),
             Un1("&", Idx(Var("v"), Var("i"))), Asg("+=", Var("p"), N(1)), Asg("-=", Var("p"), N(1)),
             <<"cast", "int", Var("p")>>, Ask(Var("i"), Var("p"), Var("v")), Bin2("+", Var("v"), CallF(N(1)))}
Addresses2 == {Set(Var("p"), e) : e \in Pointers}
              \cup {Set(Var("q"), e) : e \in {Bin2("+", Var("q"), N(0)), Bin2("-", Var("q"), N(1)), Var("w"),
                                              Un1("&", Idx(Var("w"), Var("i"))), Asg("-=", Var("q"), N(1))}}
              \cup {Set(Var("cp"), e) : e \in {Bin2("+", Var("st"), Var("i")), Bin2("+", Var("i"), Var("cp")),
                                               Bin2("-", Bin2("+", Var("cp"), N(2)), N(1))}}
              \cup {Set(Var("r"), Bin2(op, l, Var("v"))) : op \in {"-", "==", "!=", "<", ">", "<=", ">="}, l \in Pointers}
              \cup {Set(Var("r"), Bin2("-", Var("q"), Var("w"))), Set(Var("r"), Bin2("-", Var("cp"), Var("st")))}
              \cup {Set(Var("r"), Un1("*", e)) : e \in Pointers \ {Ask(Var("i"), Var("p"), Var("v"))}}
              \cup {Set(Un1("*", Incr("x++", Var("p"))), Var("i")), Set(Var("r"), Un1("*", Incr("x--", Var("cp"))))}
Conditions2 == {Var("i"), Un1("!", Var("i")), N(0), Bin2("<", Var("i"), Var("a")), Bin2("==", Var("i"), Var("k")),
                Bin2(">", Var("p"), Var("v")), CallF(N(0)), CallF(N(2))}
               \cup {Bin2(op, Var("n"), N(2)) : op \in Relational} \cup {Bin2(op, Var("p"), Var("v")) : op \in Relational}
Chosen == {Seq2(op, l, r) : op \in {"&&", "||"}, l \in Conditions2,
                            r \in {Var("i"), N(0), CallF(N(0)), CallF(N(2)), Bin2("<", Var("i"), Var("a"))}}
          \cup {Ask(e, CallF(N(4)), CallF(N(5))) : e \in Conditions2}
          \cup {Ask(e, N(4), Ask(CallF(N(0)), N(5), Var("k"))) : e \in {Var("i"), N(0)}}
          \cup {Seq2(",", Asg("+=", Var("i"), N(1)), e) : e \in {Var("i"), CallF(Var("i"))}}
          \cup {Bin2("-", Ask(Var("i"), N(9), N(4)), Seq2("||", Var("i"), CallF(N(1)))),
                Bin2("+", CallF(N(1)), Bin2("*", CallF(N(2)), CallF(CallF(N(3))))),
                Idx(<<"text", "ab">>, N(1)), Un1("*", <<"text", "ab">>),
                <<"call", "h", N(5)>>, Bin2("-", Var("a"), <<"call", "h", Var("k")>>),
                <<"size", 2, Var("a")>>, <<"size", 1, Var("c")>>, <<"size", 6, Var("v")>>, <<"size", 12, Var("w")>>,
                <<"size", 3, Var("st")>>, <<"size", 2, Var("p")>>}
Pointing == <<"int", "(", "*", "h", ")", "(", ")", ";">>
Wide == {Plain(<<Stat(Set(Var("r"), e))>>) : e \in Binary2 \cup Shapes2 \cup Unary1}
        \cup {Plain(<<Stat(Set(Var("r"), e))>>) : e \in Shares \cup {x \in Stores : x[3] \notin {Var("p"), Var("q"), Var("cp")}}}
        \cup {Plain(<<Stat(e)>>) : e \in Addresses2 \cup {x \in Stores : x[3] \in {Var("p"), Var("q"), Var("cp")}}}
        \cup {<<Pointing, <<>>, <<Stat(Set(Var("h"), Var("f"))), Stat(Set(Var("r"), e))>>>> : e \in Chosen}

(***************************************************************************)
(* Statements.                                                             *)
(***************************************************************************)
Block(stats) == <<"block", "">> \o stats
If1(c, yes) == <<"if", "", c, yes>>
IfElse(c, yes, no) == <<"ifelse", "", c, yes, no>>
Add(n) == Stat(Asg("+=", Var("r"), N(n)))
Down == Stat(Incr("x--", Var("i")))
Break == <<"break", "">>
Continue == <<"continue", "">>
Inner == {Block(<<Down, Add(1)>>), Block(<<Down, If1(Bin2("==", Var("i"), N(1)), Break), Add(1)>>),
          Block(<<Down, If1(Var("i"), Continue), Add(1)>>),
          Block(<<Down, IfElse(Bin2("<", Var("i"), N(1)), Add(1), Add(4))>>)}
Loops == {<<"while", "", e, body>> : e \in {Var("i"), Bin2(">", Var("i"), N(0)), N(0)}, body \in Inner}
         \cup {<<"do", "", e, body>> : e \in {Var("i"), Bin2(">", Var("i"), N(0)), N(0)}, body \in Inner}
         \cup {<<"for", "", first, test, step, body>> : first \in {None, Set(Var("i"), N(3))},
                 test \in {Var("i"), Bin2(">", Var("i"), N(0))},
                 step \in {None, Asg("+=", Var("n"), N(1)), Incr("x++", Var("n")), Bin2("==", CallF(N(1)), N(1))},
                 body \in Inner}
Label1(n) == <<"case", n>>
Choice(e, items) == <<"switch", "", e, Block(items)>>
Switches == {Choice(e, items) : e \in {Var("i"), Bin2("-", Var("a"), N(2)), Var("n")},
               items \in {<<Label1(2), Add(1), Break, Label1(3), Add(2), <<"default", "">>, Add(4)>>,
                          <<Label1(3), Add(2), Label1(2), If1(Var("i"), Break), Add(1)>>,
                          <<<<"default", "">>, Add(7), Break, Label1(3), Add(5)>>,
                          <<<<"default", "">>, Add(9)>>}}
Nested == {<<"while", "", Var("i"), Block(<<Down, Choice(Var("i"), <<Label1(1), Add(1), Continue, Label1(0), Break>>), Add(8)>>)>>,
           <<"for", "", None, Var("i"), Incr("x--", Var("i")), Choice(Var("i"), <<Label1(1), Break, <<"default", "">>, Add(3)>>)>>,
           <<"do", "", Var("i"), <<"while", "", Var("i"), Block(<<Down, Break>>)>>>>,
           Block(<<If1(Var("i"), IfElse(N(0), Add(1), Add(2))), <<"asm", "">>, Add(3)>>),
           If1(Var("i"), <<"return", "", N(0)>>), <<"for", "", None, None, None, Break>>}
Tests == {IfElse(e, Add(1), Add(2)) : e \in Conditions2 \cup {Seq2("&&", Var("i"), Bin2("<", Var("n"), N(0))), Seq2("||", N(0), CallF(N(0)))}}
         \cup {If1(e, Add(3)) : e \in Conditions2}
ZeroTimes == Stat(Set(Var("r"), Bin2("*", N(0), N(5))))
Statements == Loops \cup Switches \cup Nested \cup Tests \cup {ZeroTimes}

\* Two neighbouring bytes with a label each: the first wraps, the second stays.
StaticBytes == <<"static", "char", "b1", "=", "250", ";", "static", "char", "b2", "=", "7", ";">>
Wraps(op, by) ==
    <<<<>>, StaticBytes,
      <<Stat(Set(Var("b1"), N(by))), Stat(Set(Var("r"), Incr(op, Var("b1")))),
        Stat(Asg("+=", Var("r"), Bin2("*", Var("b1"), N(2)))), Stat(Asg("+=", Var("r"), Bin2("*", Var("b2"), N(1024))))>>>>
Bytes0 == {Wraps(op, by) : op \in {"++x", "--x", "x++", "x--"}, by \in {0, 7, 255}}

\* Declarations C takes, and what is then computed.
Enum == <<"enum", "{", "e0", ",", "e4", "=", "4", ",", "e5", "}", ";">>
Union == <<"union", "uz", "{", "int", "x", ";", "char", "y", ";", "}", ";", "union", "uz", "b", ";">>
Declared0 ==
    {<<Enum, <<>>, <<Stat(Set(Var("r"), Bin2("+", Var("e5"), Bin2("*", N(16), Bin2("+", Var("e0"), Var("e4"))))))>>>>,
     <<<<>>, Enum, <<Stat(Set(Var("r"), Bin2("-", Var("e4"), Var("e5"))))>>>>,
     <<Union, <<>>, <<Stat(Set(Dot(Var("b"), "y"), N(9))), Stat(Set(Var("r"), Dot(Var("b"), "y")))>>>>,
     <<<<>>, <<"struct", "s", "j", ";">>,
       <<Stat(Set(Dot(Var("j"), "x"), N(6))), Stat(Set(Var("r"), Bin2("*", Dot(Var("j"), "x"), N(2))))>>>>,
     <<<<"extern", "int", "b", ";", "int", "b", ";", "int", "f", "(", "int", "z", ")", ";">>, <<"extern", "int", "t", ";">>,
       <<Stat(Set(Var("r"), CallF(Var("a"))))>>>>,
     <<<<"int", "z", "[", "]", "=", "{", "4", ",", "5", "}", ";">>, <<>>, <<Stat(Set(Var("r"), <<"size", 4, Var("z")>>))>>>>,
     <<<<"char", "z", "[", "]", "=", "{", "4", "}", ";">>, <<>>, <<Stat(Set(Var("r"), <<"size", 1, Var("z")>>))>>>>,
     <<<<"static", "int", "h", "(", "int", "x", ")", "{", "t", "+=", "x", ";", "return", "x", ";", "}">>, <<>>,
       <<Stat(Set(Var("r"), <<"call", "h", N(6)>>))>>>>,
     <<<<"far", "int", "far1", "(", "int", "x", ")", ";">>, <<>>, <<Stat(<<"call", "far1", N(1)>>)>>>>}

\* Files that are not C: they must be rejected.
Wrong(x) == [toks |-> Text(Objects \o x[1] \o Function1 \o Main \o x[2] \o <<"}">>), body |-> <<"wrong", "">>]
WrongStatements ==
    {<<"z", ";">>, <<"a", "=", "p", ";">>, <<"p", "=", "a", ";">>, <<"f", "(", ")", ";">>, <<"f", "(", "a", ",", "a", ")", ";">>,
     <<"f", "(", "p", ")", ";">>, <<"break", ";">>, <<"continue", ";">>, <<"a", "+", "a", "=", "a", ";">>, <<"&", "f", "(", "a", ")", ";">>,
     <<"p", "+", "p", ";">>, <<"p", "*", "a", ";">>, <<"-", "p", ";">>, <<"*", "a", ";">>, <<"a", ".", "x", ";">>, <<"a", "->", "x", ";">>,
     <<"p", "->", "x", ";">>, <<"q", "->", "z", ";">>, <<"a", "++", "++", ";">>, <<"if", "(", "a", "a", ";">>, <<"while", "(", "a", ")">>,
     <<"return", ";">>, <<"return", "p", ";">>, <<"a", "?", "p", ":", "a", ";">>, <<"a", "(", "a", ")", ";">>, <<"w", "+", "w", ";">>,
     <<"p", "-", "q", ";">>, <<"default", ":">>, <<"sizeof", "(", "void", ")", ";">>, <<"{", "a", ";">>,
     <<"switch", "(", "a", ")", "a", ";">>, <<"f", "(", "w", "[", "a", "]", ")", ";">>, <<"int", "i", "[", "a", "]", ";">>}
WrongDeclarations ==
    {<<"int", "h", "(", "int", "x", ",", "int", "y", ",", "int", "z", ",", "int", "w", ")", ";">>,
     <<"int", "a", ";">>, <<"struct", "uz", "b", ";">>, <<"union", "s", "b", ";">>, <<"void", "b", ";">>, <<"extern", "int", "b", "=", "e0", ";">>,
     <<"int", "b", "[", "]", ";">>, <<"int", "*", "b", "[", ";">>, <<"(", ";">>, <<"int", "f", "(", ")", ";", "char", "f", "(", ")", ";">>,
     <<"char", "(", "*", "h", ")", "(", ")", ";">>, <<"far", "int", "far1", "(", "int", "x", ")", "{", "}">>}
Wrongs == {<<<<>>, stats>> : stats \in WrongStatements} \cup {<<decls, <<>>>> : decls \in WrongDeclarations}

Contents ==
    CASE Group = "expressions" -> Wide
      [] Group = "statements" -> {Plain(<<c>>) : c \in Statements} \cup Declared0 \cup Bytes0
MCPrograms == {File(x) : x \in Contents} \cup (IF Group = "statements" THEN {Wrong(x) : x \in Wrongs} ELSE {})

(***************************************************************************)
(* The properties.                                                         *)
(***************************************************************************)
AddressOf(cell) ==
    LET base == code.sym[<<"g", cell[1]>>]
    IN  base + CASE cell[1] = "v" -> 2 * cell[2]
                 [] cell[1] = "st" -> cell[2]
                 [] cell[1] = "w" -> 4 * cell[2] + IF cell[3] = "y" THEN 2 ELSE 0
                 [] OTHER -> 0
Holds(cell, v) ==
    CASE v[1] = "p" -> M!At16(m, AddressOf(cell)) = AddressOf(v[2])
      [] C!IsByte(cell) -> m.mem[AddressOf(cell)] = v[2]
      [] OTHER -> M!At16(m, AddressOf(cell)) = M!Word(v[2])
Observed == {cell \in Cells : cell[1] \in {"a", "c", "p", "pp", "q", "cp", "t", "r", "oi", "ok", "on", "v", "w", "st"}}

\* A program that C gives a meaning to is accepted, and leaves in its globals
\* what C says.
Computes ==
    Ended /\ file.body[1] = "block" =>
        LET want == C!Meaning(file.body)
        IN  want.ok = "ok" => pc = "done" /\ \A cell \in Observed : Holds(cell, want.mem[cell])

\* A file that is not C is rejected.
Rejects == Ended /\ file.body[1] = "wrong" => pc = "rejected"

\* The generator never has two results in hand at once: an operand that waits,
\* a comparison and a test exclude each other.
OneQueued ==
    Cardinality({x \in {"q", "cmp", "bool"} : CASE x = "q" -> ~G!Popped(g)
                                               [] x = "cmp" -> g.cmp # "none"
                                               [] OTHER -> g.bool # "none"}) <= 1

\* Between two declarations nothing is left of the loops and the locals of the
\* function before, and no operand, comparison or test waits for its end.
FunctionsApart ==
    pc = "compile" /\ s.calls = <<>> /\ ~s.err =>
        /\ s.brk = <<>> /\ s.cont = <<>> /\ s.tab.locs = NSYMBOLS
        /\ G!Popped(g) /\ g.cmp = "none" /\ g.bool = "none"

\* The compiler comes to the end of every file, and every loop compiled to an
\* end: no jump leads back to where nothing has changed.
CompilerEnds == <>Ended
=============================================================================
