------------------------------ MODULE Machine -------------------------------
(***************************************************************************)
(* The part of an 8086 that compiled code uses, and of the assembler, the  *)
(* linker and the start-up code what it takes to run one file: a label is  *)
(* an address, "switch" is the routine of lib/libc/dos/start.asm.          *)
(*                                                                         *)
(* An instruction has an address of its own, from CODE on; bytes live in   *)
(* mem, the data from DATA on and the stack above it.  The machine stops   *)
(* when it touches anything else.                                          *)
(***************************************************************************)
EXTENDS Integers, Sequences, Bitwise, TLC

CONSTANTS STACK,      \* bytes of the stack
          GARBAGE     \* what they hold at first

WORD == 65536
DATA == 256
CODE == 4096
Signed16(v) == IF v >= WORD \div 2 THEN v - WORD ELSE v
Word(v) == v % WORD
Bytes(v) == <<v % 256, (v \div 256) % 256>>

(***************************************************************************)
(* The sections laid out: the bytes of the data, and the address of each   *)
(* label.                                                                  *)
(***************************************************************************)
Emitted(item) ==
    CASE item[1] = "db" -> <<item[2] % 256>>
      [] item[1] = "dw" -> Bytes(Word(item[2]))
      [] item[1] = "times" -> [i \in 1 .. item[2] |-> 0]
      [] OTHER -> <<>>
RECURSIVE Image(_)
Image(data) == IF data = <<>> THEN <<>> ELSE Emitted(Head(data)) \o Image(Tail(data))
LabelsOf(section) == {i \in DOMAIN section : section[i][1] = "label"}
Addresses(section, Where(_)) ==
    [place \in {section[i][2] : i \in LabelsOf(section)} |->
        Where(CHOOSE i \in LabelsOf(section) : section[i][2] = place)]
Symbols(text, data) ==
    Addresses(text, LAMBDA i : CODE + i)
    @@ Addresses(data, LAMBDA i : DATA + Len(Image(SubSeq(data, 1, i))))
Started(text, data) ==
    LET image == Image(data)
        top == DATA + Len(image) + STACK
    IN  [r |-> [ax |-> 0, bx |-> 0, cx |-> 0, dx |-> 0, si |-> 0, cs |-> 0, bp |-> 0, sp |-> top - 2],
         mem |-> [a \in DATA .. top - 1 |->
                    CASE a < DATA + Len(image) -> image[a - DATA + 1]
                      [] a >= top - 2 -> 0             \* main() returns to 0
                      [] OTHER -> GARBAGE],
         ip |-> Symbols(text, data)[<<"g", "main">>], zf |-> FALSE, lt |-> FALSE, cf |-> FALSE]

(***************************************************************************)
(* Operands.                                                               *)
(***************************************************************************)
Address(m, sym, x) ==
    CASE x[1] = "at" -> m.r[x[2]]
      [] x[1] = "mem" /\ x[2][1] = "bp" -> Word(m.r.bp + x[2][2])
      [] OTHER -> sym[x[2]]

At16(m, a) == m.mem[a] + 256 * m.mem[a + 1]
Get(m, sym, x) ==
    CASE x[1] = "reg" -> m.r[x[2]]
      [] x[1] = "imm" -> Word(x[2])
      [] x[1] = "addr" -> sym[x[2]]
      [] OTHER -> At16(m, Address(m, sym, x))
Put16(m, a, v) == [m EXCEPT !.mem[a] = v % 256, !.mem[a + 1] = v \div 256]
Put(m, sym, x, v) ==
    IF x[1] = "reg" THEN [m EXCEPT !.r[x[2]] = v] ELSE Put16(m, Address(m, sym, x), v)
Push(m, v) == Put16([m EXCEPT !.r.sp = @ - 2], m.r.sp - 2, v)
Pop(m, r) == [m EXCEPT !.r[r] = At16(m, m.r.sp), !.r.sp = IF r = "sp" THEN @ ELSE @ + 2]

\* Nothing but [bx] and [bp+n] is addressed through a register, and what an
\* instruction touches must be there.
Legal(m, sym, ins) ==
    /\ \A k \in 2 .. Len(ins) :
          LET x == ins[k]
          IN  CASE ins[1] \in {"label", "table", "global", "switch", "asm"} -> TRUE
                [] x[1] = "at" -> x[2] = "bx" /\ {m.r.bx, m.r.bx + 1} \subseteq DOMAIN m.mem
                [] x[1] = "mem" -> /\ x[2][1] = "bp" \/ x[2] \in DOMAIN sym
                                   /\ \/ ins[1] = "lea"
                                      \/ LET a == Address(m, sym, x) IN {a, a + 1} \subseteq DOMAIN m.mem
                [] x[1] = "addr" -> x[2] \in DOMAIN sym
                [] x[1] \in {"L", "K"} -> x \in DOMAIN sym
                [] OTHER -> TRUE
    /\ ins[1] \in {"push", "call"} => {m.r.sp - 2, m.r.sp - 1} \subseteq DOMAIN m.mem
    /\ ins[1] \in {"pop", "ret", "retf"} => {m.r.sp, m.r.sp + 1} \subseteq DOMAIN m.mem
    /\ ins[1] = "retf" => {m.r.sp + 2, m.r.sp + 3} \subseteq DOMAIN m.mem
    /\ ins[1] = "div" => m.r.cx # 0
    /\ ins[1] = "idiv" => m.r.cx # 0 /\ ~(m.r.ax = 32768 /\ m.r.cx = WORD - 1)
    /\ ins[1] \notin {"table", "dw", "db", "leal"}

(***************************************************************************)
(* What an instruction computes from its operands.                         *)
(***************************************************************************)
Count(v) == IF v % 256 > 15 THEN 16 ELSE v % 256
Low(d, s) == 256 * (d \div 256) + (s % 256)
Value16(m, op, d, s) ==
    CASE op \in {"mov", "lea"} -> s
      [] op = "movb" -> Low(d, s)
      [] op = "addb" -> Low(d, d + s)
      [] op = "subb" -> Low(d, (d - s) % 256)
      [] op = "add" -> Word(d + s)
      [] op \in {"sub", "cmp"} -> Word(d - s)
      [] op = "sbb" -> Word(d - s - (IF m.cf THEN 1 ELSE 0))
      [] op = "and" -> d & s
      [] op = "or" -> d | s
      [] op = "xor" -> d ^^ s
      [] op = "shl" -> IF Count(s) = 16 THEN 0 ELSE Word(d * 2^Count(s))
      [] op = "shr" -> d \div 2^Count(s)
      [] op = "sar" -> Word(Signed16(d) \div 2^Count(s))
      [] op = "inc" -> Word(d + 1)
      [] op = "neg" -> Word(0 - d)
      [] op = "not" -> WORD - 1 - d
Flags(m, op, d, s) ==
    CASE op = "cmp" -> [m EXCEPT !.zf = (d = s), !.lt = (Signed16(d) < Signed16(s)), !.cf = (d < s)]
      [] op = "or" -> [m EXCEPT !.zf = ((d | s) = 0), !.lt = (Signed16(d | s) < 0), !.cf = FALSE]
      [] op = "neg" -> [m EXCEPT !.cf = (d # 0)]
      [] OTHER -> m
Taken(m, op) ==
    CASE op = "jmp" -> TRUE
      [] op \in {"je", "jz"} -> m.zf
      [] op \in {"jne", "jnz"} -> ~m.zf
      [] op = "jl" -> m.lt
      [] op = "jge" -> ~m.lt
      [] op = "jle" -> m.lt \/ m.zf
      [] op = "jg" -> ~m.lt /\ ~m.zf
      [] op = "jb" -> m.cf
      [] op = "jae" -> ~m.cf
      [] op = "jbe" -> m.cf \/ m.zf
      [] op = "ja" -> ~m.cf /\ ~m.zf
Jumps == {"jmp", "je", "jz", "jne", "jnz", "jl", "jge", "jle", "jg", "jb", "jae", "jbe", "ja"}

Quotient(a, b) == IF (a >= 0) = (b >= 0) THEN (IF a < 0 THEN -a ELSE a) \div (IF b < 0 THEN -b ELSE b)
                  ELSE -((IF a < 0 THEN -a ELSE a) \div (IF b < 0 THEN -b ELSE b))
Multiplied(m, op) ==
    LET a == Signed16(m.r.ax)  c == Signed16(m.r.cx)
        q == Quotient(a, c)
    IN  CASE op \in {"mul", "imul"} -> [m EXCEPT !.r.ax = Word(a * c), !.r.dx = 0]
          [] op = "cwd" -> [m EXCEPT !.r.dx = IF a < 0 THEN WORD - 1 ELSE 0]
          [] op = "idiv" -> [m EXCEPT !.r.ax = Word(q), !.r.dx = Word(a - c * q)]
          [] op = "div" -> [m EXCEPT !.r.ax = m.r.ax \div m.r.cx, !.r.dx = m.r.ax % m.r.cx]

(***************************************************************************)
(* One instruction.                                                        *)
(***************************************************************************)
To(m, a) == [m EXCEPT !.ip = a]
Case(m, table, sym) ==    \* the routine "switch"
    LET hits == {i \in DOMAIN table[2] : Word(table[2][i]) = m.r.ax}
        l == IF hits = {} THEN table[4] ELSE table[3][CHOOSE i \in hits : \A j \in hits : i <= j]
    IN  To(m, sym[<<"L", l>>])
Step(m, text, sym) ==
    LET ins == text[m.ip - CODE]
        op == ins[1]
        next == To(m, m.ip + 1)
        d == Get(m, sym, ins[2])
        s == IF op = "lea" THEN Address(m, sym, ins[3])
             ELSE IF Len(ins) = 3 THEN Get(m, sym, ins[3]) ELSE 0
        result == Put(Flags(next, op, d, s), sym, ins[2], Value16(m, op, d, s))
    IN  CASE op \in {"label", "global", "asm"} -> next
          [] op \in Jumps -> IF Taken(m, op) THEN To(m, sym[ins[2]]) ELSE next
          [] op = "push" -> Push(next, d)
          [] op = "pop" -> Pop(next, ins[2][2])
          [] op = "call" -> To(Push(m, m.ip + 1), d)
          [] op = "ret" -> [To(m, At16(m, m.r.sp)) EXCEPT !.r.sp = @ + 2]
          [] op = "retf" -> [To(m, At16(m, m.r.sp)) EXCEPT !.r.sp = @ + 4]
          [] op = "switch" -> Case(m, text[m.r.si - CODE + 1], sym)
          [] op \in {"mul", "imul", "cwd", "idiv", "div"} -> Multiplied(next, op)
          [] op = "xchg" -> Put(Put(next, sym, ins[2], s), sym, ins[3], d)
          [] op = "cmp" -> Flags(next, op, d, s)
          [] OTHER -> result
=============================================================================
