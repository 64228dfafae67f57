------------------------------ MODULE Symbols -------------------------------
(***************************************************************************)
(* The symbol table of scc over the declarations of a program: decl() of   *)
(* scc/decl.c with the table of scc/sym.c as it fills up.  A function's    *)
(* parameters and locals are forgotten when decl() returns, which is       *)
(* behind the token that follows the function: where that token stands     *)
(* behind an #include, the declarations of the header come first.          *)
(*                                                                         *)
(* Structs, enums, arrays and initial values are left to Compiler.  The    *)
(* model ends with the first error, as what is compiled is thrown away.    *)
(***************************************************************************)
EXTENDS SymTab

CONSTANTS Names,        \* what a program declares
          Prims,        \* with which types
          MAXPARAMS,    \* bounds of the model: parameters and locals of a function,
          MAXINCLUDES   \* and headers open at a time

ASSUME NamesAssumption ==
    /\ \A n \in DOMAIN Width : Width[n] \in Nat \ {0}
    /\ Names \cup {"", "__SUBC__", "__dos"} \subseteq DOMAIN Width
    /\ "" \notin Names
ASSUME BoundsAssumption == NSYMBOLS > 1 /\ MAXPARAMS \in Nat /\ MAXINCLUDES \in Nat

VARIABLES t,        \* the table
          at,       \* where the parser is in decl()
          head,     \* the name, type and class of the function
          outer,    \* include() calls made from within decl(): a number
          own,      \* what the program declares in the function, in order
          first,    \* function |-> the types of its parameters, where it was first declared
          known,    \* global |-> its type
          stale     \* in a header whose includer has yet to forget its locals
vars == <<t, at, head, outer, own, first, known, stale>>

Nobody == [name |-> "", prim |-> PVOID, stcls |-> ""]
Init ==
    /\ t = Predeclared /\ at = "outside" /\ head = Nobody /\ outer = 0 /\ own = <<>>
    /\ first = [n \in {} |-> <<>>] /\ known = [n \in {} |-> PVOID] /\ stale = FALSE

With(f, n, value) == [m \in DOMAIN f \cup {n} |-> IF m = n THEN value ELSE f[m]]
Rejected == t.fatal \/ t.err
Here(where) == ~Rejected /\ at = where

\* An object outside all functions, of a header or of the file itself.
Object(n, prim, stcls) ==
    /\ Here("outside")
    /\ t' = addglob(t, Entry(n, prim, "variable", stcls, 0, 0))
    /\ known' = With(known, n, prim)
    /\ UNCHANGED <<at, head, outer, own, first, stale>>

\* declarator() meets the name of a function, then pmtrdecls() its parameters.
OpenFunction(n, prim, stcls) ==
    /\ Here("outside")
    /\ at' = "parameters" /\ head' = [name |-> n, prim |-> prim, stcls |-> stcls]
    /\ own' = <<>> /\ UNCHANGED <<t, outer, first, known, stale>>
Parameter(n, prim) ==
    /\ Here("parameters") /\ Len(own) < MAXPARAMS
    /\ t' = addloc(t, Entry(n, prim, "variable", "auto", 0, 0))
    /\ own' = Append(own, [name |-> n, prim |-> prim])
    /\ UNCHANGED <<at, head, outer, first, known, stale>>

\* The function is declared, as a prototype at first, with the types of the locals.
Prototype == IF head.stcls = "static" THEN "sproto" ELSE "extern"
Signed(d) == IF d.fatal \/ d.err THEN d ELSE signature(d, d.y, Parameters(d))
OwnTypes == [i \in 1 .. Len(own) |-> own[i].prim]
Declare ==
    /\ Here("parameters")
    /\ t' = Signed(addglob(t, Entry(head.name, head.prim, "function", Prototype, 0, 0)))
    /\ first' = IF head.name \in DOMAIN first THEN first ELSE With(first, head.name, [types |-> OwnTypes, stale |-> stale])
    /\ known' = With(known, head.name, head.prim)
    /\ at' = "declared" /\ UNCHANGED <<head, outer, own, stale>>

\* Its body: the definition, and the locals behind the parameters.
Define ==
    /\ Here("declared")
    /\ t' = addglob(t, Entry(head.name, head.prim, "function", head.stcls, 0, 0))
    /\ at' = "body" /\ UNCHANGED <<head, outer, own, first, known, stale>>
Local(n, prim) ==
    /\ Here("body") /\ Len(own) < MAXPARAMS
    /\ t' = addloc(t, Entry(n, prim, "variable", "auto", 0, 0))
    /\ own' = Append(own, [name |-> n, prim |-> prim])
    /\ UNCHANGED <<at, head, outer, first, known, stale>>

\* semi() or compound() reads the token behind the function, and decl() returns.
Behind == /\ at \in {"declared", "body"} /\ Here(at)
          /\ at' = "behind" /\ UNCHANGED <<t, head, outer, own, first, known, stale>>
Forget == /\ Here("behind")
          /\ t' = clrlocs(t) /\ at' = "outside" /\ own' = <<>> /\ stale' = FALSE
          /\ UNCHANGED <<head, outer, first, known>>

\* An #include in front of that token: top() is called for the declarations of
\* the header until its end, then decl() goes on.
Include == /\ Here("behind") /\ outer < MAXINCLUDES
           /\ outer' = outer + 1 /\ at' = "outside" /\ own' = <<>> /\ stale' = TRUE
           /\ UNCHANGED <<t, head, first, known>>
EndInclude == /\ Here("outside") /\ outer > 0
              /\ outer' = outer - 1 /\ at' = "behind"
              /\ UNCHANGED <<t, head, own, first, known, stale>>

Ended == Rejected /\ UNCHANGED vars

Next ==
    \/ \E n \in Names, prim \in Prims, stcls \in {"public", "extern", "static"} :
          Object(n, prim, stcls) \/ (stcls # "extern" /\ OpenFunction(n, prim, stcls))
    \/ \E n \in Names, prim \in Prims : Parameter(n, prim) \/ Local(n, prim)
    \/ Declare \/ Define \/ Behind \/ Forget \/ Include \/ EndInclude \/ Ended
Spec == Init /\ [][Next]_vars

-----------------------------------------------------------------------------
Types == {PVOID} \cup Prims
EntryType == [name : DOMAIN Width, prim : Types, type : {"", "macro", "variable", "function"},
              stcls : {"", "public", "extern", "static", "sproto", "auto"}, size : {0}, val : {0},
              sig : BOOLEAN \X Seq(Types) \X Nat, at : Nat]
TableType == [ent : [0 .. NSYMBOLS - 1 -> EntryType], globs : 0 .. NSYMBOLS, locs : 0 .. NSYMBOLS,
              nbot : 0 .. POOLSIZE, ntop : 0 .. POOLSIZE, y : 0 .. NSYMBOLS - 1,
              err : BOOLEAN, fatal : BOOLEAN]
TypeOK ==
    /\ t \in TableType
    /\ at \in {"outside", "parameters", "declared", "body", "behind"}
    /\ head \in [name : Names \cup {""}, prim : Types, stcls : {"", "public", "static"}]
    /\ outer \in 0 .. MAXINCLUDES
    /\ own \in Seq([name : Names, prim : Prims])

\* The table and the list of names grow from both ends: the ends never cross,
\* every name stands on its own side of the gap, and no two names of a side
\* share a byte; nor does a function's signature share one with a name or with
\* another signature.  A full table ends the compiler before it overwrites anything.
End(e) == e.at + Width[e.name]
Disjoint(d, e) == End(d) <= e.at \/ End(e) <= d.at
Apart(u) ==
    /\ u.globs <= u.locs /\ u.nbot <= u.ntop
    /\ \A i \in Globals(u) : End(u.ent[i]) <= u.nbot
    /\ \A i \in Locals(u) : u.ntop <= u.ent[i].at /\ End(u.ent[i]) <= POOLSIZE
    /\ \A i, j \in Globals(u) : i # j => Disjoint(u.ent[i], u.ent[j])
    /\ \A i, j \in Locals(u) : i # j => Disjoint(u.ent[i], u.ent[j])
\* The signature of d against the name and the signature of e.
SigAt(d) == d.sig[3]
SigEnd(d) == SigAt(d) + SigBytes(d.sig[2])
OffName(d, e) == SigEnd(d) <= e.at \/ End(e) <= SigAt(d)
OffSig(d, e) == SigEnd(d) <= SigAt(e) \/ SigEnd(e) <= SigAt(d)
SigsApart(u) ==
    \A i \in Globals(u) :
        u.ent[i].sig[1] =>
            /\ SigEnd(u.ent[i]) <= u.nbot
            /\ \A j \in Globals(u) : /\ OffName(u.ent[i], u.ent[j])
                                     /\ i # j /\ u.ent[j].sig[1] => OffSig(u.ent[i], u.ent[j])
TablesApart == Apart(t) /\ SigsApart(t)

\* Every name is found, innermost and newest declaration first, and none that
\* is out of scope: what decl() forgets and what the tables keep agree with the
\* scopes of C.  In a header behind a function that is so from the end of its
\* first function on.
Newest(n) == CHOOSE i \in DOMAIN own : /\ own[i].name = n
                                       /\ \A j \in DOMAIN own : own[j].name = n => j <= i
DeclaredIn(n) == \E i \in DOMAIN own : own[i].name = n
Found(n, prim) == findsym(t, n) # 0 /\ t.ent[findsym(t, n)].prim = prim
ScopesRight ==
    ~stale /\ ~Rejected /\ at # "behind" =>
        \A n \in Names :
            CASE DeclaredIn(n) -> Found(n, own[Newest(n)].prim)
              [] ~DeclaredIn(n) /\ n \in DOMAIN known -> Found(n, known[n])
              [] OTHER -> findsym(t, n) = 0

\* The signature that calls of a function are checked against is the types of its
\* own parameters, as they were where it was first declared, whatever is declared,
\* included or defined later.  Left out is a function first declared in a header
\* whose includer has yet to forget its locals: it takes these for parameters.
\* That the bytes of the signature are its own is TablesApart.
SignaturesOwn ==
    ~Rejected =>
        \A n \in DOMAIN first :
            LET sig == t.ent[findglob(t, n)].sig
            IN  ~first[n].stale => sig[1] /\ sig[2] = first[n].types
=============================================================================
