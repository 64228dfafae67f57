----------------------------- MODULE MCAssembler -----------------------------
(* Programs for TLC: templates with slots, and every statement of a pool in      *)
(* every slot, so that each kind of name is used before and after it is defined, *)
(* in each segment and scope, and next to statements that move it.               *)
EXTENDS Assembler

Exp(n, by, here, k, arith) == [name |-> n, by |-> by, here |-> here, k |-> k, arith |-> arith]
Num(k) == Exp(NoName, 1, 0, k, FALSE)
Name(n) == Exp(n, 1, 0, 0, FALSE)
Plus(n, k) == Exp(n, 1, 0, k, FALSE)
Minus(n, k) == Exp(n, 1, 0, -k, TRUE)
UpTo(k) == Exp(NoName, 1, -1, k, TRUE)      \* k - $

Sec(g) == [op |-> "section", seg |-> g]
Lab(n) == [op |-> "label", name |-> n]
Ext(n) == [op |-> "extern", name |-> n]
Glob(n) == [op |-> "global", name |-> n]
EquS(n, e) == [op |-> "equ", name |-> n, e |-> e]
LabEqu(n, e) == [op |-> "labelequ", name |-> n, e |-> e]
Resb(e) == [op |-> "res", e |-> e, unit |-> 1]
Resw(e) == [op |-> "res", e |-> e, unit |-> 2]
Ins(lead, w, mode, disp, e) ==
    [op |-> "emit", lead |-> lead, w |-> w, mode |-> mode, disp |-> disp, e |-> e]
Nop == Ins(1, 0, 0, 0, Num(0))
Db(e) == Ins(0, 1, 0, 0, e)
Dw(e) == Ins(0, 2, 1, 0, e)
Dd(e) == Ins(0, 4, 1, 0, e)
Call(e) == Ins(1, 2, 3, -2, e)
Jmp(e) == Ins(1, 1, 2, -1, e)
Mov(e) == Ins(2, 2, 1, -3, e)
TimesS(e, s) == [op |-> "times", e |-> e, body |-> s]

MCSymbolsMax == 9
a == <<"a">>
b == <<"b">>
c == <<"c">>
e1 == <<"e">>       \* declared extern
u == <<"u">>        \* not declared
x == <<".x">>

Code == {Nop, Jmp(Name(x)), Call(Name(a)), Call(Name(b)), Call(Name(u)), Mov(Name(b)),
         Mov(Plus(e1, 2)), TimesS(Name(c), Dw(Name(b))), Resb(Name(c)), Ext(e1)}
Data == {Dw(Plus(a, 1)), Dd(Name(b)), Db(Minus(c, 1)), TimesS(UpTo(6), Db(Num(7))), Resw(Num(2)),
         TimesS(Num(0), Dw(Name(b)))}
Equs == {EquS(c, Num(3)), LabEqu(c, Num(2))}

\* Text, then data or bss; b is in either, c defined last.
Plain == {<<Ext(e1), Sec("text"), Lab(a), s1, s2, Lab(x), s3, Sec("data"), s4, Lab(b), s5, q>> :
             s1 \in Code, s2 \in {Nop, Call(Name(b)), Mov(Name(b)), Resb(Name(c)), TimesS(Name(c), Dw(Name(b)))},
             s3 \in {Nop, Jmp(Name(x)), Call(Name(u)), Mov(Plus(e1, 2))},
             s4 \in Data, s5 \in {Dw(Name(u))}, q \in Equs}
\* Globals in their segments, a segment that is left and entered again, the same local
\* name in two scopes.
Scopes == {<<Sec("data"), Glob(b), Lab(b), s1, Sec("text"), Glob(a), Lab(a), Lab(x), s2,
             Sec("bss"), Resb(Num(3)), Sec("text"), Lab(e1), s3, Lab(x), s4, EquS(c, Num(1))>> :
             s1 \in Data, s2 \in Code \ {Ext(e1)}, s3 \in Code \ {Ext(e1)},
             s4 \in {Jmp(Name(x)), Mov(Name(b)), Call(Name(u))}}
\* bss between, and a constant that is an address.
Bss == {<<Sec("bss"), Resb(Name(c)), Lab(b), s1, Sec("text"), Lab(a), s2, Lab(x), s3,
          EquS(c, Num(2)), EquS(e1, Plus(c, 1)), Sec("bss"), Resw(Name(c))>> :
          s1 \in {Resb(Num(1)), Resw(Name(c)), TimesS(Num(3), Resb(Num(1)))},
          s2 \in Code \ {Ext(e1), Mov(Plus(e1, 2))}, s3 \in {Mov(Plus(b, 1)), Jmp(Name(x)), Db(Name(e1))}}
\* Code above the first section, in the segment the pass before ended in.
Heads == {<<s1, Lab(a), s2, Sec(g), Lab(b), s3, EquS(c, Num(2))>> :
             s1 \in {Nop, Call(Name(b)), Glob(a)}, s2 \in {Nop, Call(Name(u)), Resb(Name(c))},
             g \in {"text", "data"}, s3 \in {Nop, Dw(Name(a))}}

\* Programs that are refused, and programs that just fit: the names declared first leave
\* three slots.
Small == {<<s0, Sec("text"), Lab(a), s1, s2, s3>> :
             s0 \in {EquS(c, Num(2)), EquS(c, Name(u)), EquS(c, Name(a)), LabEqu(c, Num(2)), Sec("data")},
             s1 \in {Nop, Call(Name(u)), Glob(a), Ext(e1), TimesS(UpTo(1), Nop), Sec("bss"),
                     Resb(Name(u)), Resb(Name(a)), Dw(Minus(u, 1))},
             s2 \in {Nop, TimesS(UpTo(1), Nop), Lab(b), Glob(b), Lab(x), EquS(b, Name(e1)), EquS(b, Name(u)), TimesS(Num(130), Nop)},
             s3 \in {Nop, Call(Name(e1)), Resb(Name(<<"v">>)), Jmp(Name(a)), [op |-> "unknown"]}}

Externs == [i \in 1..MCSymbolsMax - 3 |-> Ext(<<<<"p", "q", "r", "s", "t", "w">>[i]>>)]
MCSources == Plain \cup Scopes \cup Bss \cup Heads \cup {Externs \o ss : ss \in Small}

MCLocals == {".x"}
=============================================================================
