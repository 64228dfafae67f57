------------------------------ MODULE Compiler ------------------------------
(***************************************************************************)
(* scc compiling one file, and the file running.                           *)
(*                                                                         *)
(* program() parses one declaration after the other (Top); what a          *)
(* declaration makes the code generator do is worked off call by call, and *)
(* when the file is at its end the code is loaded and executed one         *)
(* instruction at a time.                                                  *)
(***************************************************************************)
EXTENDS Decl

CONSTANTS Programs,    \* the files: the tokens of each, and what it stands for
          STACK, GARBAGE

G == INSTANCE CodeGen
M == INSTANCE Machine

VARIABLES file,  \* the one compiled
          pc,    \* "compile", "run", or how it ended
          s,     \* the parser
          g,     \* the code generator
          code,  \* the code that is run, and the addresses of its labels
          m      \* the machine
vars == <<file, pc, s, g, code, m>>

Parser(toks) ==
    [toks |-> toks, i |-> 1, tab |-> Predeclared, lab |-> 0, calls |-> <<>>, err |-> FALSE,
     n |-> NULL, k |-> 0, prim |-> PVOID, sym |-> 0, addr |-> FALSE,
     brk |-> <<>>, cont |-> <<>>, fn |-> 0, ret |-> 0,
     name |-> "", type |-> "", size |-> 0, val |-> 0, ini |-> FALSE, li |-> <<>>, off |-> 0]
NoCode == [text |-> <<>>, sym |-> <<>>]
Init == /\ pc = "compile"
        /\ file \in Programs
        /\ s = Parser(file.toks)
        /\ g = G!Generator
        /\ code = NoCode
        /\ m = <<>>

(***************************************************************************)
(* Compiling.                                                              *)
(***************************************************************************)
Compiling == pc = "compile"
Top == /\ Compiling /\ s.calls = <<>> /\ Tok(s) # "eof" /\ ~g.err
       /\ s' = top(s)
       /\ UNCHANGED <<file, pc, g, code, m>>

Call(name) == Compiling /\ s.calls # <<>> /\ ~g.err /\ Head(s.calls)[1] = name
Arg(k) == Head(s.calls)[k + 1]
Becomes(new) == /\ g' = new
                /\ s' = [s EXCEPT !.calls = Tail(@)]
                /\ UNCHANGED <<file, pc, code, m>>

Clear == Call("clear") /\ Becomes(G!clear(g, Arg(1)))
Commit == Call("commit") /\ Becomes(G!commit(g))
Spill == Call("spill") /\ Becomes(G!spill(g))
Segment == \/ Call("gentext") /\ Becomes(G!gentext(g))
           \/ Call("gendata") /\ Becomes(G!gendata(g))
Label == \/ Call("genlab") /\ Becomes(G!genplace(g, <<"L", Arg(1)>>))
         \/ Call("genplace") /\ Becomes(G!genplace(g, Arg(1)))
         \/ Call("genpublic") /\ Becomes(G!genpublic(g, Arg(1)))
Data == \/ Call("gendefs") /\ Becomes(G!gendefs(g, Arg(1)))
        \/ Call("gendefw") /\ Becomes(G!gendefw(g, Arg(1)))
        \/ Call("genbss") /\ Becomes(G!genbss(g, Arg(1), Arg(2)))
Queue == \/ Call("genaddr") /\ Becomes(G!queue(G!gentext(g), <<"addr", Arg(1)>>))
         \/ Call("genldlab") /\ Becomes(G!queue(G!gentext(g), <<"addr", <<"L", Arg(1)>>>>))
         \/ Call("genlit") /\ Becomes(G!queue(G!gentext(g), <<"literal", Arg(1)>>))
         \/ Call("genrval") /\ Becomes(G!genrval(g, Arg(1), Arg(2)))
Store == Call("genstore") /\ Becomes(G!genstore(g, Arg(1), Arg(2)))
Inc == Call("geninc") /\ Becomes(G!geninc(g, Arg(1), Arg(2), Arg(3), Arg(4), Arg(5)))
Unaries == \E name \in {"genbool", "genlognot", "genneg", "gennot", "genscale"} :
              Call(name) /\ Becomes(G!genunary(g, name))
Scaleby == Call("genscaleby") /\ Becomes(G!Committed(g, G!cgscale(<<"by", Arg(1)>>)))
Binaries == \E name \in {"genshl", "genshr", "gendiv", "genmod", "genand", "genior", "genxor", "genmul"} :
              Call(name) /\ Becomes(G!genarith(g, name))
AddSub == \/ Call("genadd") /\ Becomes(G!genadd(g, Arg(1), Arg(2)))
          \/ Call("gensub") /\ Becomes(G!gensub(g, Arg(1), Arg(2), Arg(3)))
Comparison == Call("queue_cmp") /\ Becomes(G!queue_cmp(g, Arg(1)))
Branch == \/ Call("genjump") /\ Becomes(G!Committed(g, <<G!Jump(Arg(1))>>))
          \/ Call("genbrfalse") /\ Becomes(G!genbr(g, Arg(1), FALSE))
          \/ Call("genbrtrue") /\ Becomes(G!genbr(g, Arg(1), TRUE))
          \/ Call("genswitch") /\ Becomes(G!genswitch(g, Arg(1), Arg(2), Arg(3)))
Calling == \/ Call("gencall") /\ Becomes(G!gencall(g, Arg(1)))
           \/ Call("gencallfar") /\ Becomes(G!gencallfar(g, Arg(1)))
           \/ Call("gencalr") /\ Becomes(G!gencalr(g))
           \/ Call("genstack") /\ Becomes(G!genstack(g, Arg(1)))
Frame == \/ Call("genentry") /\ Becomes(G!genentry(g))
         \/ Call("genlocinit") /\ Becomes(G!genlocinit(g, Arg(1)))
         \/ Call("genexit") /\ Becomes(G!genexit(g, FALSE))
         \/ Call("genexitfar") /\ Becomes(G!genexit(g, TRUE))
Asm == Call("genasm") /\ Becomes(G!gen(g, <<<<"asm", Arg(1)>>>>))
Generate == \/ Clear \/ Commit \/ Spill \/ Segment \/ Label \/ Data \/ Queue \/ Store \/ Inc
            \/ Unaries \/ Scaleby \/ Binaries \/ AddSub \/ Comparison \/ Branch \/ Calling
            \/ Frame \/ Asm

Ends(how) == pc' = how /\ UNCHANGED <<file, s, g, code, m>>
Reject == Compiling /\ (g.err \/ (s.calls = <<>> /\ s.err)) /\ Ends("rejected")
Trapped == Call("trap") /\ Ends("trapped")

(***************************************************************************)
(* Running.                                                                *)
(***************************************************************************)
Start == /\ Compiling /\ s.calls = <<>> /\ ~s.err /\ ~g.err /\ Tok(s) = "eof"
         /\ pc' = "run"
         /\ code' = [text |-> g.text, sym |-> M!Symbols(g.text, g.data)]
         /\ m' = M!Started(g.text, g.data)
         /\ UNCHANGED <<file, s, g>>

Fetched == m.ip - M!CODE
Sound == Fetched \in DOMAIN code.text /\ M!Legal(m, code.sym, code.text[Fetched])
Execute == /\ pc = "run" /\ Sound
           /\ m' = M!Step(m, code.text, code.sym)
           /\ UNCHANGED <<file, pc, s, g, code>>
Stop == /\ pc = "run" /\ ~Sound
        /\ Ends(IF m.ip = 0 THEN "done" ELSE "crashed")


Ended == pc \notin {"compile", "run"}
Finished == Ended /\ UNCHANGED vars
Next == Top \/ Generate \/ Reject \/ Trapped \/ Start \/ Execute \/ Stop \/ Finished

\* The compiler and the machine do not stop on the way: WF_vars(Next) with what
\* enables a step written out, for TLC evaluates an ENABLED without remembering
\* the results of the parser.
Fairness == <>[]Ended \/ []<><<Next>>_vars
Spec == Init /\ [][Next]_vars /\ Fairness
=============================================================================
