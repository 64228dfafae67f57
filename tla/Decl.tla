-------------------------------- MODULE Decl --------------------------------
(***************************************************************************)
(* The declaration parser of scc: scc/decl.c, with what scc/sym.c emits    *)
(* for a variable.  Besides what Stmt keeps, the state of the parser holds *)
(* what declarator() returns: name, type, size, val, ini, and its prim; li *)
(* is the list of initialisers of locals, off the offset of the last one.  *)
(***************************************************************************)
EXTENDS Stmt

CONSTANT MAXLOCINIT
ASSUME InitialisersAssumption == MAXLOCINIT \in Nat

Even(k) == IF k > 0 THEN ((k + BPW - 1) \div BPW) * BPW ELSE 0

(***************************************************************************)
(* defglob(), defloc(): the storage of a variable.                         *)
(***************************************************************************)
Storage(t, place, e, v) ==
    IF e.type = "array" \/ e.prim[1] \in {"struct", "union"}
    THEN <<<<"genbss", place, Even(objsize(t, e.prim, e.type, e.size))>>>>
    ELSE <<<<"genplace", place>>,
           IF e.prim = PCHAR THEN <<"gendefs", <<v % 256, 0>>>> ELSE <<"gendefw", v>>>>
defglob(t, e, ini) ==
    IF e.type \in {"constant", "function"} THEN <<>>
    ELSE <<<<"gendata">>>>
         \o (IF e.stcls = "public" THEN <<<<"genpublic", e.name>>>> ELSE <<>>)
         \o (IF ini /\ e.type = "array" THEN <<>> ELSE Storage(t, <<"g", e.name>>, e, e.val))
defloc(t, e, init) == <<<<"gendata">>>> \o Storage(t, <<"L", e.val>>, e, init)

Declared(s, stcls, val) == Entry(s.name, s.prim, s.type, stcls, s.size, val)
Global(s, e, ini) ==
    LET t == addglob(s.tab, e)
    IN  WithTable(IF Defined(t.ent[t.y].stcls) THEN Emit(s, defglob(t, t.ent[t.y], ini)) ELSE s, t)
Local(s, e) == WithTable(s, addloc(s.tab, e))

(***************************************************************************)
(* enumdecl()                                                              *)
(***************************************************************************)
RECURSIVE Enumerators(_, _, _)
Constant(k) == Entry(k.name, PINT, "constant", "", 0, k.val)
Enumerator(s, glob) == IF glob THEN Global(s, Constant(s), FALSE) ELSE Local(s, Constant(s))
Numbered(c) == [c EXCEPT !.val = c.k]
EnumValue(s) == IF Tok(s) = "=" THEN Numbered(constexpr(Scan(s))) ELSE s
NextEnumerator(s, glob) ==
    IF Tok(s) = "," THEN Enumerators(Scan(s), glob, s.val + 1) ELSE s
Enumerators(s, glob, v) ==
    CASE Tok(s) = "}" -> s
      [] Tok(s) = "id" ->
             NextEnumerator(Enumerator(EnumValue([Scan(s) EXCEPT !.name = Val(s), !.val = v]), glob), glob)
      [] OTHER -> Error(s)
Tagless(s) == IF Tok(s) = "id" THEN Scan(s) ELSE s
enumdecl(s, glob) == match(";", match("}", Enumerators(match("{", Tagless(Scan(s))), glob, 0)))

(***************************************************************************)
(* initlist(): leaves the number of elements in "size".  It takes any      *)
(* token for the closing brace.                                            *)
(***************************************************************************)
RECURSIVE Constants(_, _, _)
PutConstant(c, byte) ==
    Emit(ErrorIf(byte /\ c.k \notin 0 .. 255, c),
         <<IF byte THEN <<"gendefs", <<c.k>>>> ELSE <<"gendefw", c.k>>>>)
NextConstant(s, byte, n) ==
    IF Tok(s) = "," THEN Constants(Scan(s), byte, n) ELSE [s EXCEPT !.size = n]
Constants(s, byte, n) ==
    IF Tok(s) = "}" THEN [s EXCEPT !.size = n]
    ELSE NextConstant(PutConstant(constexpr(s), byte), byte, n + 1)
Padded(s, prim) ==
    ErrorIf(s.size = 0, Scan(Emit(s, <<<<"gendefs", IF prim = PCHAR THEN Pad(s.size) ELSE <<>>>>>>)))
TextOf(s, text) == [Scan(Emit(s, <<<<"gendefs", text \o Pad(Len(text))>>>>)) EXCEPT !.size = Len(text)]
Items(s, prim) ==
    IF Tok(s) = "str" THEN TextOf(ErrorIf(prim # PCHAR, s), Val(s) \o <<0>>)
    ELSE Padded(Constants(match("{", s), prim = PCHAR, 0), prim)
initlist(s, name, prim) == Items(Emit(s, <<<<"gendata">>, <<"genplace", <<"g", name>>>>>>), prim)

(***************************************************************************)
(* declarator() and pmtrdecls(), which leaves the number of parameters in  *)
(* "size".                                                                 *)
(***************************************************************************)
RECURSIVE pmtrdecls(_, _, _)
InitialValue(c, p) == IF p = PCHAR THEN c.k % 256 ELSE c.k
Initialised(c, p) ==
    [ErrorIf(InitialValue(c, p) # 0 /\ ~inttype(p), c) EXCEPT !.prim = p, !.val = InitialValue(c, p), !.ini = TRUE]
Functional(ps, p, name) == [match(")", ps) EXCEPT !.prim = p, !.name = name, !.type = "function"]
Sized(c, p) == [match("]", ErrorIf(c.k < 0, c)) EXCEPT !.prim = p, !.size = c.k, !.type = "array"]
Listed(list, p, name, scls) ==
    [ErrorIf(~inttype(p) \/ scls = "auto", list)
        EXCEPT !.prim = p, !.name = name, !.type = "array", !.ini = TRUE]
Unsized(s, scls) ==    \* behind "[]"
    IF Tok(s) = "=" THEN Listed(initlist(Scan(s), s.name, s.prim), s.prim, s.name, scls)
    ELSE [ErrorIf(scls # "extern", s) EXCEPT !.type = "array", !.size = 1]
Array(s, pmtr, scls) ==
    CASE Tok(Scan(s)) # "]" -> Sized(constexpr(Scan(s)), s.prim)
      [] pmtr -> Pointer(Scan(Scan(s)))
      [] OTHER -> Unsized(Scan(Scan(s)), scls)
Behind(s, p, twice, pmtr, scls) ==    \* what follows the name
    CASE ~pmtr /\ Tok(s) = "(" ->
           Functional(pmtrdecls(Scan(s), 0, IF scls \in {"far", "fproto"} THEN 6 ELSE 4), p, s.name)
      [] ~pmtr /\ Tok(s) = "=" -> Initialised(constexpr(Scan(s)), p)
      [] Tok(s) = "[" -> Array(ErrorIf(twice, s), pmtr, scls)
      [] OTHER -> s
Nonvoid(s) == ErrorIf(s.type # "function" /\ s.prim = PVOID, s)
Name(s) == [Scan(s) EXCEPT !.name = Val(s), !.type = "variable"]
Named(s) == IF s.prim = FUNPTR THEN match(")", match("(", match(")", Name(s)))) ELSE Name(s)
Declarator(s, twice, pmtr, scls) ==
    IF Tok(s) = "id" THEN Nonvoid(Behind(Named(s), s.prim, twice, pmtr, scls)) ELSE Error(s)
Indirections(s) ==
    CASE Tok(s) = "*" -> Stars(s)
      [] Tok(s) = "(" -> [ErrorIf(s.prim # PINT, match("*", Scan(s))) EXCEPT !.prim = FUNPTR]
      [] OTHER -> s
declarator(s, pmtr, scls) ==
    Declarator(Indirections(s), Tok(s) = "*" /\ Tok(Scan(s)) = "*", pmtr, scls)

ParameterType(s) ==
    CASE Tok(s) = "id" -> [s EXCEPT !.prim = PINT]
      [] Tok(s) \in Types -> primtype(s)
      [] OTHER -> Error(s)
Parameter(d, addr) == Local(d, Declared(d, "auto", addr))
NextParameter(s, na, addr) ==
    IF Tok(s) = "," THEN pmtrdecls(Scan(s), na, addr + BPW) ELSE [s EXCEPT !.size = na]
pmtrdecls(s, na, addr) ==
    CASE na = 0 /\ Tok(s) = ")" -> [s EXCEPT !.size = 0]
      [] na = 0 /\ Tok(s) = "void" /\ Tok(Scan(s)) = ")" -> [Scan(s) EXCEPT !.prim = PVOID, !.size = 0]
      [] na > 0 /\ Tok(s) = "..." -> [Scan(s) EXCEPT !.size = -(na + 1)]
      [] OTHER -> NextParameter(Parameter(declarator([ParameterType(s) EXCEPT !.size = 1], TRUE, "auto"), addr),
                                na + 1, addr)

(***************************************************************************)
(* localdecls()                                                            *)
(***************************************************************************)
Classes == {"auto", "extern", "register", "static", "volatile"}
Initialise(s, at) ==
    [ErrorIf(Len(s.li) >= MAXLOCINIT, s) EXCEPT !.li = Append(@, <<at, s.val>>)]
RECURSIVE Declarators(_, _, _), localdecls(_)
Static(d, e) == Local(Emit(d, defloc(d.tab, e, d.val)), e)
Auto(d, at) == [Local(d, Declared(d, "auto", at)) EXCEPT !.off = at]
LocalOf(d, cls) ==
    CASE cls = "static" -> Static(label(d), Declared(d, "lstatic", d.lab + 1))
      [] cls = "extern" -> Local(d, Declared(d, "extern", 0))
      [] OTHER -> Auto(d, d.off - Even(objsize(d.tab, d.prim, d.type, d.size)))
NextLocal(s, base, cls) ==
    IF Tok(s) = "," THEN Declarators(Scan(s), base, cls) ELSE match(";", s)
Ready(s, cls) == IF s.ini /\ cls # "static" THEN Initialise(s, s.off) ELSE s
Reserved(d, base, cls) == IF d.err THEN d ELSE NextLocal(Ready(LocalOf(d, cls), cls), base, cls)
Declarators(s, base, cls) ==
    Reserved(declarator([s EXCEPT !.prim = base, !.size = 1, !.ini = FALSE, !.val = 0], FALSE, "auto"), base, cls)
Typed(s) == IF Tok(s) \in Types THEN primtype(s) ELSE [s EXCEPT !.prim = PINT]
LocalType(s) == Typed(IF Tok(s) \in Classes THEN Scan(s) ELSE s)
OfType(s, cls) == localdecls(Declarators(s, s.prim, cls))
localdecls(s) ==
    CASE Tok(s) = "enum" -> localdecls(enumdecl(s, FALSE))
      [] Tok(s) \in Classes \cup Types -> OfType(LocalType(s), Tok(s))
      [] OTHER -> s

(***************************************************************************)
(* decl(): the declarators behind a type, or one function.                 *)
(***************************************************************************)
Prototype(clss) == CASE clss = "static" -> "sproto" [] clss = "far" -> "fproto" [] OTHER -> "extern"
Definition(clss) == CASE clss = "static" -> "static" [] clss = "far" -> "far" [] OTHER -> "public"
Head1(name, def, lsize, li) ==
    <<<<"gentext">>>> \o (IF def = "static" THEN <<>> ELSE <<<<"genpublic", name>>>>)
    \o <<<<"genplace", <<"g", name>>>>, <<"genentry">>, <<"genstack", lsize>>, <<"genlocinit", li>>>>
Left(s, def, lsize) ==
    Emit(s, <<genlab(s.ret), <<"genstack", -lsize>>, <<IF def = "far" THEN "genexitfar" ELSE "genexit">>>>)
Body1(s, name, def) ==    \* behind the declarations of locals
    Left(compound([label(Emit(s, Head1(name, def, s.off, s.li))) EXCEPT !.ret = s.lab + 1], FALSE), def, s.off)
Opened(s) == localdecls(Scan([s EXCEPT !.fn = s.tab.y, !.li = <<>>, !.off = 0]))
Function(s, d, def) ==    \* s: behind its prototype
    IF Tok(s) = "{" THEN Body1(Opened(Global(s, Declared(d, def, 0), FALSE)), d.name, def) ELSE match(";", s)
WithSignature(s) == WithTable(s, signature(s.tab, s.tab.y, Parameters(s.tab)))
Forgotten(s) == [s EXCEPT !.tab = clrlocs(@)]
fdecl(d, clss) ==
    Forgotten(Function(WithSignature(Global(d, Declared(d, Prototype(clss), 0), FALSE)), d, Definition(clss)))
RECURSIVE decl(_, _, _)
NextDeclarator(s, clss, base) == IF Tok(s) = "," THEN decl(Scan(s), clss, base) ELSE match(";", s)
Defined1(d, clss, base) ==
    CASE d.err -> d
      [] d.type = "function" -> fdecl(d, clss)
      [] OTHER -> NextDeclarator(ErrorIf(clss = "extern" /\ d.ini, Global(d, Declared(d, clss, d.val), d.ini)),
                                 clss, base)
decl(s, clss, base) ==
    Defined1(declarator([s EXCEPT !.prim = base, !.val = 0, !.ini = FALSE], FALSE, clss), clss, base)

(***************************************************************************)
(* structdecl(): "at" is the offset of the next member, or the size of the *)
(* union so far.                                                           *)
(***************************************************************************)
RECURSIVE Members(_, _, _, _), Fields(_, _, _)
Offset(at, size, uniondecl) ==
    CASE ~uniondecl -> Even(at + size)
      [] size > at -> size
      [] OTHER -> at
NextMember(s, base, uniondecl, at) ==
    IF Tok(s) = "," THEN Members(Scan(s), base, uniondecl, at) ELSE <<match(";", s), at>>
Member(d, base, uniondecl, at, size) ==
    IF d.err THEN <<d, at>>
    ELSE NextMember([Global(d, Declared(d, "member", IF uniondecl THEN 0 ELSE at), FALSE) EXCEPT !.size = size],
                    base, uniondecl, Offset(at, size, uniondecl))
Measured(d, base, uniondecl, at) == Member(d, base, uniondecl, at, objsize(d.tab, d.prim, d.type, d.size))
Members(s, base, uniondecl, at) ==
    Measured(declarator([s EXCEPT !.prim = base], TRUE, "member"), base, uniondecl, at)
OfBase(s, uniondecl, at) == Members([s EXCEPT !.size = 0], s.prim, uniondecl, at)
MoreFields(some, uniondecl) == Fields(some[1], uniondecl, some[2])
Fields(s, uniondecl, at) ==
    IF Tok(s) \in Types THEN MoreFields(OfBase(primtype(s), uniondecl, at), uniondecl) ELSE <<s, at>>
Closed(all, y) == [match(";", match("}", all[1])) EXCEPT !.tab.ent[y].size = all[2]]
Struct(tag, kind) == Closed(Fields(Scan(tag), kind = "union", 0), tag.tab.y)
structdecl(s) ==    \* without "{" it is a type: see Declaration
    Struct(Global(Scan(Scan(s)), Entry(Val(Scan(s)), <<Tok(s), 0, 0>>, "struct", "member", 0, 0), FALSE), Tok(s))

(***************************************************************************)
(* top(): one declaration.                                                 *)
(***************************************************************************)
BaseType(s) == IF Tok(s) = "id" THEN [s EXCEPT !.prim = PINT] ELSE primtype(s)
Based(s, clss) == decl([s EXCEPT !.size = 0], clss, s.prim)
Specified(s) == Tok(s) \in {"struct", "union"} /\ Tok(Scan(s)) = "id" /\ Tok(Scan(Scan(s))) = "{"
Declaration(s, clss) ==
    CASE Tok(s) = "enum" -> enumdecl(s, TRUE)
      [] Specified(s) -> structdecl(s)
      [] Tok(s) \in DOMAIN Basic \cup {"id", "struct", "union"} -> Based(BaseType(s), clss)
      [] OTHER -> Error(s)
StorageClass(s) == IF Tok(s) \in {"extern", "static", "far"} THEN Tok(s) ELSE "public"
Unclassed(s) == IF Tok(s) \in {"extern", "static", "far", "volatile"} THEN Scan(s) ELSE s
top(s) == Declaration(Unclassed(s), StorageClass(s))
=============================================================================
