-------------------------------- MODULE Stmt --------------------------------
(***************************************************************************)
(* The statement parser of scc: scc/stmt.c.  Besides what Expr keeps, the  *)
(* state of the parser holds                                               *)
(*   brk, cont   Breakstk and Contstk: where break and continue jump to    *)
(*   fn, ret     Thisfn and Retlab                                         *)
(***************************************************************************)
EXTENDS Expr

CONSTANTS MAXBREAK, MAXCASE
ASSUME LimitsAssumption == MAXBREAK \in Nat \ {0} /\ MAXCASE \in Nat \ {0}

clear1 == <<"clear", 1>>
genlab(l) == <<"genlab", l>>
genjump(l) == <<"genjump", l>>
Labels(s, k) == [s EXCEPT !.lab = @ + k]

\* A full stack is fatal.
pushbrk(s, id) == [ErrorIf(Len(s.brk) >= MAXBREAK, s) EXCEPT !.brk = Append(@, id)]
pushcont(s, id) == [ErrorIf(Len(s.cont) >= MAXBREAK, s) EXCEPT !.cont = Append(@, id)]
\* Mutant: break and continue change places.
EnterSwapped(s, lb, lc) == pushcont(pushbrk(s, lc), lb)
Enter(s, lb, lc) == pushcont(pushbrk(s, lb), lc)
Leave(s) == [s EXCEPT !.brk = Front(@), !.cont = Front(@)]
Jumpout(s, stk) == IF stk = <<>> THEN Error(s) ELSE match(";", Emit(Scan(s), <<genjump(Last(stk))>>))

RECURSIVE stmt(_), Body(_)
Body(s) ==
    CASE Tok(s) = "}" -> Scan(s)
      [] Tok(s) = "eof" -> Error(s)
      [] OTHER -> Body(stmt(s))
compound(s, lbr) == Body(IF lbr THEN Scan(s) ELSE s)

\* A statement that needs the state behind its last part twice hands it on.
Test(s, calls) == Emit(rexpr(match("(", s)), calls)
OptionalExpr(s, end, calls) == IF Tok(s) # end THEN Emit(rexpr(s), calls) ELSE s
Jumping(l) == <<<<"genbrfalse", l>>, clear1>>

Repeat(s, ls, lb) ==
    match(";", match(")", Emit(s, <<<<"genbrtrue", ls>>, clear1, genlab(lb)>>)))
DoLoop(s, ls, lb, lc) ==
    Repeat(rexpr(Emit(match("(", match("while", stmt(Emit(Enter(s, lb, lc), <<genlab(ls)>>)))),
                      <<genlab(lc)>>)), ls, lb)
do_stmt(s) == Leave(DoLoop(Labels(Scan(s), 3), s.lab + 1, s.lab + 2, s.lab + 3))

\* The value of the third expression is dropped as it stands in the queue.
ForFirst(s) == OptionalExpr(match("(", s), ";", <<clear1>>)
ForSecond(s, ls, lb) == OptionalExpr(Emit(match(";", s), <<genlab(ls)>>), ";", Jumping(lb))
ForThird(s, lbody, lc) ==
    OptionalExpr(Emit(match(";", Emit(s, <<genjump(lbody)>>)), <<genlab(lc)>>), ")", <<>>)
ForLoop(s, ls, lbody, lb, lc) ==
    stmt(Emit(match(")", Emit(ForThird(ForSecond(ForFirst(Enter(s, lb, lc)), ls, lb), lbody, lc),
                              <<clear1, genjump(ls)>>)), <<genlab(lbody)>>))
\* Mutant: the body is followed by the test, not by the third expression.
forStmtNoStep(s) ==
    Leave(Emit(ForLoop(Labels(Scan(s), 4), s.lab + 1, s.lab + 2, s.lab + 3, s.lab + 4),
               <<genjump(s.lab + 1), genlab(s.lab + 3)>>))
for_stmt(s) ==
    Leave(Emit(ForLoop(Labels(Scan(s), 4), s.lab + 1, s.lab + 2, s.lab + 3, s.lab + 4),
               <<genjump(s.lab + 4), genlab(s.lab + 3)>>))

WhileLoop(s, lb, lc) ==
    stmt(match(")", Test(Emit(Enter(s, lb, lc), <<genlab(lc)>>), Jumping(lb))))
while_stmt(s) ==
    Leave(Emit(WhileLoop(Labels(Scan(s), 2), s.lab + 1, s.lab + 2),
               <<genjump(s.lab + 2), genlab(s.lab + 1)>>))

Branch1(s) == stmt(match(")", Emit(s, Jumping(s.lab))))
Branch2(s, l1) == Emit(stmt(Scan(Emit(s, <<genjump(s.lab), genlab(l1)>>))), <<genlab(s.lab)>>)
Branches(s, l1) == IF Tok(s) = "else" THEN Branch2(label(s), l1) ELSE Emit(s, <<genlab(l1)>>)
Conditional(s) == Branches(Branch1(s), s.lab)
if_stmt(s) == Conditional(label(rexpr(match("(", Scan(s)))))

Returned(s, type) == ErrorIf(~typematch(s.prim, type), s)
ReturnValue(s, type) ==
    IF Tok(s) = ";" THEN ErrorIf(type # PVOID, s) ELSE Returned(expr(s, TRUE), type)
return_stmt(s) == match(";", Emit(ReturnValue(Scan(s), s.tab.ent[s.fn].prim), <<genjump(s.ret)>>))

(***************************************************************************)
(* switch: the cases seen so far, their labels, and that of default.       *)
(***************************************************************************)
RECURSIVE Cases(_, _, _, _)
Colon(s) == match(":", Emit(s, <<genlab(s.lab)>>))
OneCase(s, vals, labs, dflt) == Cases(Colon(s), Append(vals, s.k), Append(labs, s.lab), dflt)
OneDefault(s, vals, labs) == Cases(Colon(s), vals, labs, s.lab)
Cases(s, vals, labs, dflt) ==
    CASE Tok(s) = "eof" \/ (Tok(s) \in {"case", "default"} /\ Len(vals) >= MAXCASE)
               -> <<Error(s), vals, labs, dflt>>
      [] Tok(s) = "}" -> <<s, vals, labs, dflt>>
      [] Tok(s) = "case" /\ Len(vals) < MAXCASE -> OneCase(label(constexpr(Scan(s))), vals, labs, dflt)
      [] Tok(s) = "default" /\ Len(vals) < MAXCASE -> OneDefault(label(Scan(s)), vals, labs)
      [] OTHER -> Cases(stmt(s), vals, labs, dflt)

genswitch(vals, labs, dflt, lb) ==
    <<"genswitch", IF vals = <<>> THEN <<0>> ELSE vals, IF vals = <<>> THEN <<dflt>> ELSE labs,
      IF dflt = 0 THEN lb ELSE dflt>>
Table(all, lb, ls) ==
    Emit(ErrorIf(all[2] = <<>> /\ all[4] = 0, all[1]),
         <<genjump(lb), genlab(ls), genswitch(all[2], all[3], all[4], lb), <<"gentext">>, genlab(lb)>>)
\* Mutant: Bsp is not counted down.
LeaveSwitchInside(s) == Scan(s)
LeaveSwitch(s) == [Scan(s) EXCEPT !.brk = Front(@)]
switch_block(s) ==
    LeaveSwitch(Table(Cases(Emit(pushbrk(Labels(Scan(s), 2), s.lab + 1), <<genjump(s.lab + 2)>>),
                            <<>>, <<>>, 0), s.lab + 1, s.lab + 2))
Switch(s) == IF Tok(s) = "{" THEN switch_block(s) ELSE Error(s)
switch_stmt(s) == Switch(match(")", Test(Scan(s), <<commit, clear0>>)))

RECURSIVE Lines(_)
Lines(s) == IF Tok(s) = "str" THEN Lines(Emit(Scan(s), <<<<"genasm", Val(s)>>>>)) ELSE s
asm_stmt(s) == stmt(match(")", Lines(match("(", Scan(s)))))

Statement(s, t) ==
    CASE t = "break" -> Jumpout(s, s.brk)
      [] t = "continue" -> Jumpout(s, s.cont)
      [] t = "do" -> do_stmt(s)
      [] t = "for" -> for_stmt(s)
      [] t = "if" -> if_stmt(s)
      [] t = "asm" -> asm_stmt(s)
      [] t = "return" -> return_stmt(s)
      [] t = "switch" -> switch_stmt(s)
      [] t = "while" -> while_stmt(s)
      [] t = "{" -> compound(s, TRUE)
      [] t = ";" -> Scan(s)
      [] t \in {"default", "case"} -> Error(s)    \* wrong_ctx()
      [] OTHER -> Emit(match(";", expr(s, FALSE)), <<commit>>)
stmt(s) == IF s.err THEN s ELSE Emit(Statement(s, Tok(s)), <<clear1>>)
=============================================================================
