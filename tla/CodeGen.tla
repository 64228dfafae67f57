------------------------------ MODULE CodeGen -------------------------------
(***************************************************************************)
(* The code generator of scc: scc/gen.c and its 8086 half, scc/cg.c.       *)
(* An operand is queued (Q_type and its value), a comparison or a test     *)
(* too, and is emitted by the operation that needs it.  The state g holds  *)
(*   acc         Acc: the accumulator holds a value not stored yet         *)
(*   q           Q_type: <<"empty">>, <<"literal", v>> or what of which    *)
(*               place: <<"addr" | "byte" | "word", place>>                *)
(*   cmp, bool   Q_cmp, Q_bool                                             *)
(*   text, data  the two sections; textseg: the one written to             *)
(*   lab, err    the last label of the generator's own; an error reported  *)
(* A place is <<"bp", offset>>, <<"L", label>>, <<"g", name>> or Nowhere,  *)
(* which stands for the address in the accumulator.                        *)
(***************************************************************************)
EXTENDS Integers, Sequences

NoQueue == <<"empty", 0>>
Generator == [acc |-> 0, q |-> NoQueue, cmp |-> "none", bool |-> "none", text |-> <<>>,
              data |-> <<>>, textseg |-> TRUE, lab |-> 0, err |-> FALSE]

Reg(r) == <<"reg", r>>
AX == Reg("ax")
BX == Reg("bx")
CX == Reg("cx")
DX == Reg("dx")
Imm(v) == <<"imm", v>>
Mem(place) == <<"mem", place>>
Addr(place) == <<"addr", place>>
At(r) == <<"at", r>>
Own(g) == <<"K", g.lab>>                  \* a label of cg.c, from the same counter

gen(g, ins) == IF g.textseg THEN [g EXCEPT !.text = @ \o ins] ELSE [g EXCEPT !.data = @ \o ins]
gentext(g) == [g EXCEPT !.textseg = TRUE]
gendata(g) == [g EXCEPT !.textseg = FALSE]
Text(g, ins) == gen(gentext(g), ins)
clear(g, q) ==
    IF q = 1 THEN [g EXCEPT !.acc = 0, !.q = NoQueue, !.cmp = "none", !.bool = "none"]
    ELSE [g EXCEPT !.acc = 0]
load(g) == [g EXCEPT !.acc = 1]
spill(g) == IF g.acc = 1 THEN Text(g, <<<<"push", AX>>>>) ELSE g

(***************************************************************************)
(* cgsynth(), cgload2(): the second operand, from the queue or the stack.  *)
(* What is queued never reaches them through emittree(), which commits     *)
(* first; the static word is then loaded as an address.                    *)
(***************************************************************************)
Operand(q) ==
    CASE q[1] = "literal" -> Imm(q[2])
      [] q[1] = "addr" -> Addr(q[2])
      [] OTHER -> Mem(q[2])
Load2(q) ==
    CASE q[1] = "empty" -> <<<<"pop", CX>>>>
      [] q[1] = "byte" -> <<<<"xor", CX, CX>>, <<"movb", CX, Mem(q[2])>>>>
      [] q[1] = "addr" /\ q[2][1] = "bp" -> <<<<"lea", CX, Mem(q[2])>>>>
      [] q[1] = "word" /\ q[2][1] = "L" -> <<<<"mov", CX, Addr(q[2])>>>>
      [] OTHER -> <<<<"mov", CX, Operand(q)>>>>
cgload2(g) == [gen(g, Load2(g.q)) EXCEPT !.q = NoQueue]
Popped(g) == g.q = NoQueue
cgsynth(g, op) ==
    LET q == g.q
        with == CASE q[1] = "addr" /\ q[2][1] = "bp" -> <<<<"leal", CX, Mem(q[2])>>, <<op, AX, CX>>>>
                  [] q[1] \in {"empty", "byte"} -> Load2(q) \o <<<<op, AX, CX>>>>
                  [] OTHER -> <<<<op, AX, Operand(q)>>>>
    IN  [gen(g, with) EXCEPT !.q = NoQueue]
\* Mutant: an operand from the stack is not exchanged with the other.
BinaryAsIs(g, ins) == gen(cgload2(gentext(g)), ins)
Binary(g, ins) ==
    LET l == cgload2(gentext(g))
    IN  gen(IF Popped(g) THEN gen(l, <<<<"xchg", AX, CX>>>>) ELSE l, ins)

(***************************************************************************)
(* The jump that skips what a comparison does: for its value, for a branch *)
(* when it fails and for one when it holds.                                *)
(***************************************************************************)
Unless == [equal |-> "jne", not_equal |-> "je", less |-> "jge", greater |-> "jle",
           less_equal |-> "jg", greater_equal |-> "jl", below |-> "jae", above |-> "jbe",
           below_equal |-> "ja", above_equal |-> "jb"]
When == [equal |-> "je", not_equal |-> "jne", less |-> "jl", greater |-> "jg",
         less_equal |-> "jle", greater_equal |-> "jge", below |-> "jb", above |-> "ja",
         below_equal |-> "jbe", above_equal |-> "jae"]
Compared(g) ==
    IF Popped(g) THEN gen(g, <<<<"pop", CX>>, <<"cmp", CX, AX>>>>) ELSE cgsynth(g, "cmp")
NewLabel(g) == [g EXCEPT !.lab = @ + 1]
Skip(g, ins, over) ==    \* ins; jump to a new label behind over
    LET n == NewLabel(g)
    IN  gen(n, <<<<ins, Own(n)>>>> \o over \o <<<<"label", Own(n)>>>>)
cgcmp(g) ==
    gen(Skip(Compared(gen(g, <<<<"xor", DX, DX>>>>)), Unless[g.cmp], <<<<"inc", DX>>>>),
        <<<<"mov", AX, DX>>>>)
commit_cmp(g) == [cgcmp(g) EXCEPT !.cmp = "none"]
commit_bool(g) ==
    [gen(g, <<<<"neg", AX>>, <<"sbb", AX, AX>>, <<IF g.bool = "lognot" THEN "inc" ELSE "neg", AX>>>>)
        EXCEPT !.bool = "none"]

Jump(l) == <<"jmp", <<"L", l>>>>
genbranch(g, dest, inv) ==
    [Skip(Compared(g), (IF inv THEN Unless ELSE When)[g.cmp], <<Jump(dest)>>) EXCEPT !.cmp = "none"]
cgbr(g, how, dest) == Skip(gen(g, <<<<"or", AX, AX>>>>), how, <<Jump(dest)>>)
genlogbr(g, dest, inv) ==
    [cgbr(g, IF (g.bool = "normalize") = inv THEN "jnz" ELSE "jz", dest) EXCEPT !.bool = "none"]

(***************************************************************************)
(* commit(): what is queued is loaded, and what the accumulator held       *)
(* before is pushed.                                                       *)
(***************************************************************************)
Load(q) ==
    CASE q[1] = "byte" -> <<<<"xor", AX, AX>>, <<"movb", AX, Mem(q[2])>>>>
      [] q[1] = "addr" /\ q[2][1] = "bp" -> <<<<"lea", AX, Mem(q[2])>>>>
      [] OTHER -> <<<<"mov", AX, Operand(q)>>>>
commit(g) ==
    CASE g.cmp # "none" -> commit_cmp(g)
      [] g.bool # "none" -> commit_bool(g)
      [] Popped(g) -> g
      [] OTHER -> [load(gen(spill(g), Load(g.q))) EXCEPT !.q = NoQueue]
\* Mutant: what waits is not committed before the next operand waits.
queueOver(g, q) == [g EXCEPT !.q = q]
queue(g, q) == [commit(g) EXCEPT !.q = q]
queue_cmp(g, op) == [commit(g) EXCEPT !.cmp = op]
queue_bool(g, op) == [commit(g) EXCEPT !.bool = op]
Committed(g, ins) == gen(commit(gentext(g)), ins)

(***************************************************************************)
(* Operands, loads and stores.                                             *)
(***************************************************************************)
Width2(byte) == IF byte THEN "byte" ELSE "word"
Move(byte) == IF byte THEN "movb" ELSE "mov"
genind(g, byte) ==
    Committed(g, <<<<"mov", BX, AX>>>>
                 \o (IF byte THEN <<<<"xor", AX, AX>>>> ELSE <<>>)
                 \o <<<<Move(byte), AX, At("bx")>>>>)
genrval(g, place, byte) ==
    IF place[1] = "none" THEN genind(g, byte) ELSE queue(gentext(g), <<Width2(byte), place>>)
genstore(g, place, byte) ==
    Text(g, IF place[1] = "none" THEN <<<<"pop", BX>>, <<Move(byte), At("bx"), AX>>>>
            ELSE <<<<Move(byte), Mem(place), AX>>>>)

(***************************************************************************)
(* geninc(), genincptr(): the operand is changed in memory.  A byte of the *)
(* frame is looked for at the step instead of at its offset, a byte of a   *)
(* global symbol is changed as a word (that of a local static as a byte),  *)
(* and an indirect prefix operator goes through [ax].                      *)
(***************************************************************************)
ByteForm == [add |-> "addb", sub |-> "subb"]
cginc(place, byte, step, op, pre) ==
    LET byte1 == byte /\ place[1] # "g"
        to == CASE place[1] = "none" -> At("bx")
                [] byte1 /\ place[1] = "bp" -> Mem(<<"bp", step>>)
                [] OTHER -> Mem(place)
    IN  (IF place[1] = "none" /\ pre THEN <<<<"mov", BX, At("ax")>>>> ELSE <<>>)
        \o <<<<Move(byte1), CX, Imm(step)>>, <<IF byte1 THEN ByteForm[op] ELSE op, to, CX>>>>
geninc(g, place, byte, step, inc, pre) ==
    LET g1 == commit(gentext(g))
        g2 == IF pre THEN g1 ELSE commit(genrval(g1, place, byte))
        g3 == gen(g2, cginc(place, byte, step, IF inc THEN "add" ELSE "sub", pre))
    IN  IF pre THEN genrval(g3, place, byte) ELSE g3

(***************************************************************************)
(* Arithmetic.  A unit tells how an integer is scaled before it is added   *)
(* to a pointer: <<"none" | "bytes" | "words" | "by", size>>.              *)
(***************************************************************************)
Scales(u) == u[1] \in {"words", "by"}
cgscale(u) ==
    CASE u[1] = "words" -> <<<<"shl", AX, Imm(1)>>>>
      [] u[1] = "by" -> <<<<"mov", CX, Imm(u[2])>>, <<"mul", CX>>>>
      [] OTHER -> <<>>
cgscale2(u) ==
    CASE u[1] = "words" -> <<<<"shl", CX, Imm(1)>>>>
      [] u[1] = "by" -> <<<<"push", AX>>, <<"mov", AX, Imm(u[2])>>, <<"mul", CX>>,
                          <<"mov", CX, AX>>, <<"pop", AX>>>>
      [] OTHER -> <<>>
cgunscale(u) ==
    CASE u[1] = "words" -> <<<<"shr", AX, Imm(1)>>>>
      [] u[1] = "by" -> <<<<"mov", CX, Imm(u[2])>>, <<"xor", DX, DX>>, <<"div", CX>>>>
      [] OTHER -> <<>>
genadd(g, u1, u2) ==    \* popped: the operands, and so their types, change places
    LET first == IF Popped(g) THEN u2 ELSE u1
        second == IF Popped(g) THEN u1 ELSE u2
    IN  gen(cgload2(gentext(g)),
            (IF first[1] # "none" THEN cgscale2(first) ELSE cgscale(second)) \o <<<<"add", AX, CX>>>>)
gensub(g, clash, u1, u2) ==
    [Binary(g, (IF u2[1] = "none" THEN cgscale2(u1) ELSE <<>>)
               \o <<<<"sub", AX, CX>>>>
               \o (IF Scales(u1) /\ Scales(u2) THEN cgunscale(u1) ELSE <<>>))
        EXCEPT !.err = @ \/ clash]
Machinery == [genshl |-> <<<<"shl", AX, CX>>>>, genshr |-> <<<<"sar", AX, CX>>>>,
              gendiv |-> <<<<"cwd">>, <<"idiv", CX>>>>,
              genmod |-> <<<<"cwd">>, <<"idiv", CX>>, <<"mov", AX, DX>>>>]
Bitwise2 == [genand |-> "and", genior |-> "or", genxor |-> "xor"]
genarith(g, name) ==
    CASE name \in DOMAIN Bitwise2 -> cgsynth(gentext(g), Bitwise2[name])
      [] name = "genmul" -> gen(cgload2(gentext(g)), <<<<"imul", CX>>>>)
      [] OTHER -> Binary(g, Machinery[name])
genunary(g, name) ==
    CASE name = "genbool" -> queue_bool(g, "normalize")
      [] name = "genlognot" -> queue_bool(g, "lognot")
      [] name = "genneg" -> Committed(g, <<<<"neg", AX>>>>)
      [] name = "gennot" -> Committed(g, <<<<"not", AX>>>>)
      [] OTHER -> Committed(g, cgscale(<<"words", 2>>))

(***************************************************************************)
(* Branches, calls, the frame of a function, switch tables.                *)
(***************************************************************************)
genbr(g, dest, iftrue) ==
    LET g1 == gentext(g)
    IN  CASE g.cmp # "none" -> genbranch(g1, dest, iftrue)
          [] g.bool # "none" -> genlogbr(g1, dest, ~iftrue)
          [] OTHER -> cgbr(commit(g1), IF iftrue THEN "jz" ELSE "jnz", dest)
gencall(g, name) == load(Committed(g, <<<<"call", Addr(<<"g", name>>)>>>>))
gencallfar(g, name) == load(Committed(g, <<<<"push", Reg("cs")>>, <<"call", Addr(<<"g", name>>)>>>>))
gencalr(g) == load(Committed(g, <<<<"call", AX>>>>))
genstack(g, n) == IF n = 0 THEN g ELSE Text(g, <<<<"add", Reg("sp"), Imm(n)>>>>)
genentry(g) == Text(g, <<<<"push", Reg("bp")>>, <<"mov", Reg("bp"), Reg("sp")>>>>)
genexit(g, far) == Text(g, <<<<"pop", Reg("bp")>>, <<IF far THEN "retf" ELSE "ret">>>>)
genlocinit(g, li) ==
    Text(g, [i \in 1 .. 2 * Len(li) |->
               LET at == li[(i + 1) \div 2]
               IN  IF i % 2 = 1 THEN <<"mov", AX, Imm(at[2])>> ELSE <<"mov", Mem(<<"bp", at[1]>>), AX>>])
genswitch(g, vals, labs, dflt) ==
    LET n == NewLabel(gentext(g))
    IN  gen(n, <<<<"mov", Reg("si"), Addr(Own(n))>>, <<"switch">>, <<"label", Own(n)>>,
                 <<"table", vals, labs, dflt>>>>)

(***************************************************************************)
(* Data.                                                                   *)
(***************************************************************************)
genplace(g, place) == gen(g, <<<<"label", place>>>>)     \* genlab(), genname()
genpublic(g, name) == gen(g, <<<<"global", name>>>>)
gendefs(g, bytes) == gen(gendata(g), [i \in DOMAIN bytes |-> <<"db", bytes[i]>>])
gendefw(g, v) == gen(gendata(g), <<<<"dw", v>>>>)
genbss(g, place, k) == gen(gendata(g), <<<<"label", place>>, <<"times", k>>>>)
=============================================================================
