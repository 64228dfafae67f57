------------------------------- MODULE SymTab -------------------------------
(***************************************************************************)
(* The symbol table of scc: scc/sym.c, the types of scc/defs.h, and the    *)
(* few functions on types that live in other files.  Pure operators on a   *)
(* table; Symbols drives them through declarations, Compiler through       *)
(* whole programs.                                                         *)
(*                                                                         *)
(* Both the table (globals from the bottom, locals from the top) and the   *)
(* list of names (globals' names and signatures from the bottom, locals'   *)
(* names from the top) grow from two ends.                                 *)
(***************************************************************************)
EXTENDS Integers, FiniteSets, Sequences

CONSTANTS NSYMBOLS,   \* entries of the table
          POOLSIZE,   \* bytes of the list of names
          MAXFNARGS,  \* parameters of a function
          Width       \* the bytes a name takes, its final 0 included

ASSUME SizesAssumption == NSYMBOLS \in Nat \ {0} /\ POOLSIZE \in Nat /\ MAXFNARGS \in Nat

(***************************************************************************)
(* A primitive type is what it is built from, how many times it is pointed *)
(* to, and the entry of the structure.                                     *)
(***************************************************************************)
PCHAR == <<"char", 0, 0>>
PINT == <<"int", 0, 0>>
PVOID == <<"void", 0, 0>>
VOIDPTR == <<"void", 1, 0>>
CHARPTR == <<"char", 1, 0>>
FUNPTR == <<"fun", 1, 0>>

inttype(p) == p \in {PCHAR, PINT}
comptype(p) == p[1] \in {"struct", "union"} /\ p[2] = 0
IsPtr(p) == p[2] > 0
Needscale(p) == p[2] = 2 \/ (p[2] = 1 /\ p[1] \notin {"char", "void", "fun"})

TooManyLevels(p) == p[2] = 2 \/ p = FUNPTR
pointerto(p) == IF TooManyLevels(p) THEN <<"void", 2, 0>> ELSE [p EXCEPT ![2] = @ + 1]
Dereferenced(p) == p[2] > 0
deref(p) == IF p \in {VOIDPTR, FUNPTR} THEN PCHAR ELSE [p EXCEPT ![2] = @ - 1]

typematch(p1, p2) ==
    \/ p1 = p2
    \/ inttype(p1) /\ inttype(p2)
    \/ ~inttype(p1) /\ p2 = VOIDPTR
    \/ p1 = VOIDPTR /\ ~inttype(p2)

(***************************************************************************)
(* An entry.  "sig" is Mtext[] of a function: whether it is set, the types *)
(* it points at, and where they start.  "at" is where its name starts.     *)
(***************************************************************************)
NoSig == <<FALSE, <<>>, 0>>
Entry(name, prim, type, stcls, size, val) ==
    [name |-> name, prim |-> prim, type |-> type, stcls |-> stcls,
     size |-> size, val |-> val, sig |-> NoSig, at |-> 0]
NoEntry == Entry("", PVOID, "", "", 0, 0)

Defined(stcls) == stcls \in {"public", "static"}

(***************************************************************************)
(* The lookups.  0 is "not found", and the entry of the empty name.        *)
(***************************************************************************)
First(S) == IF S = {} THEN 0 ELSE CHOOSE i \in S : \A j \in S : i <= j

Globals(t) == 0 .. t.globs - 1
Locals(t) == t.locs .. NSYMBOLS - 1

findglob(t, s) ==
    First({i \in Globals(t) : /\ t.ent[i].type # "macro"
                              /\ t.ent[i].stcls # "member"
                              /\ t.ent[i].name = s})
findloc(t, s) ==
    First({i \in Locals(t) : t.ent[i].stcls # "member" /\ t.ent[i].name = s})
findsym(t, s) == IF findloc(t, s) # 0 THEN findloc(t, s) ELSE findglob(t, s)
findmac(t, s) == First({i \in Globals(t) : t.ent[i].type = "macro" /\ t.ent[i].name = s})
findstruct(t, s) ==
    LET In(S) == First({i \in S : t.ent[i].type = "struct" /\ t.ent[i].name = s})
    IN  IF In(Locals(t)) # 0 THEN In(Locals(t)) ELSE In(Globals(t))

\* The walk of findmem(): entries behind y as long as they are members.
MembersFrom(t, y) ==
    {i \in y + 1 .. NSYMBOLS - 1 :
        \A j \in y + 1 .. i : /\ j \in Globals(t) \cup Locals(t)
                              /\ t.ent[j].stcls = "member"}
findmem(t, y, s) == First({i \in MembersFrom(t, y) : t.ent[i].name = s})

(***************************************************************************)
(* Sizes.                                                                  *)
(***************************************************************************)
objsize(t, prim, type, size) ==
    LET k == CASE prim[2] > 0 -> 2
               [] prim = PINT -> 2
               [] prim = PCHAR -> 1
               [] comptype(prim) -> t.ent[prim[3]].size
               [] OTHER -> 0
    IN  CASE type \in {"function", "constant", "macro"} -> -1
          [] type = "array" -> k * size
          [] OTHER -> k

(***************************************************************************)
(* Taking entries and bytes.  A full table or list is fatal.               *)
(***************************************************************************)
fatal(t) == [t EXCEPT !.fatal = TRUE]
newglob(t) == IF t.globs >= t.locs THEN fatal(t) ELSE [t EXCEPT !.globs = @ + 1]
\* Mutant: locals may take the last entry of the globals.
newlocOver(t) == IF t.locs < t.globs THEN fatal(t) ELSE [t EXCEPT !.locs = @ - 1]
newloc(t) == IF t.locs - 1 <= t.globs THEN fatal(t) ELSE [t EXCEPT !.locs = @ - 1]
galloc(t, k) == IF t.nbot + k >= t.ntop THEN fatal(t) ELSE [t EXCEPT !.nbot = @ + k]
locname(t, k) == IF t.nbot + k >= t.ntop THEN fatal(t) ELSE [t EXCEPT !.ntop = @ - k]

(***************************************************************************)
(* The class a second declaration leaves, and whether it is an error.      *)
(***************************************************************************)
Redeclared(old, new) ==
    CASE old = "public" /\ new = "extern" -> "public"
      [] old = "static" /\ new = "sproto" -> "static"
      [] old \in {"public", "static"} /\ new # old -> old
      [] OTHER -> new
RedeclareOK(old, new) ==
    \/ old = "extern" /\ new \in {"public", "extern"}
    \/ old = "public" /\ new = "extern"
    \/ old = "sproto" /\ new \in {"static", "sproto"}
    \/ old = "static" /\ new = "sproto"

(***************************************************************************)
(* addglob() and addloc().  "y" is the entry they return, "err" whether    *)
(* they reported an error; a declaration goes on after one.                *)
(***************************************************************************)
addglob(t, e) ==
    LET old == findglob(t, e.name)
        was == t.ent[old]
        room == newglob(t)
        named == galloc(room, Width[e.name])
        cls == Redeclared(was.stcls, e.stcls)
        known == was.type = "function"
    IN  IF old = 0
        THEN IF room.fatal \/ named.fatal THEN fatal(t)
             ELSE [named EXCEPT !.ent[t.globs] = [e EXCEPT !.at = t.nbot],
                                !.y = t.globs, !.err = FALSE]
        ELSE [t EXCEPT !.ent[old] = [e EXCEPT !.stcls = cls, !.at = was.at,
                                              !.sig = IF known THEN was.sig ELSE e.sig],
                       !.y = old,
                       !.err = \/ ~RedeclareOK(was.stcls, e.stcls)
                               \/ known /\ (was.prim # e.prim \/ was.type # e.type)]

addloc(t, e) ==
    LET room == newloc(t)
        named == locname(room, Width[e.name])
    IN  IF room.fatal \/ named.fatal THEN fatal(t)
        ELSE [named EXCEPT !.ent[room.locs] = [e EXCEPT !.at = named.ntop],
                           !.y = room.locs, !.err = findloc(t, e.name) # 0]

\* Mutant: the entries of the locals stay.
clrlocsNames(t) == [t EXCEPT !.ntop = POOLSIZE]
clrlocs(t) == [t EXCEPT !.ntop = POOLSIZE, !.locs = NSYMBOLS]

\* What galloc() takes for types: four bytes each, for the 0 behind them and to align them.
SigBytes(types) == 4 * (Len(types) + 2)

\* Mutant: a later declaration replaces the types of the first.
signatureLast(t, fn, types) ==
    LET room == galloc(t, SigBytes(types))
    IN  IF room.fatal THEN fatal(t)
        ELSE [room EXCEPT !.ent[fn].sig = <<TRUE, types, t.nbot>>, !.err = FALSE]

\* signature(): the types of the parameters of entry fn.
signature(t, fn, types) ==
    LET had == t.ent[fn].sig
        room == galloc(t, SigBytes(types))
    IN  IF Len(types) > MAXFNARGS THEN [t EXCEPT !.err = TRUE]
        ELSE IF had[1] THEN [t EXCEPT !.err = had[2] # types]
        ELSE IF room.fatal THEN fatal(t)
        ELSE [room EXCEPT !.ent[fn].sig = <<TRUE, types, t.nbot>>, !.err = FALSE]
Parameters(t) == [i \in 1 .. NSYMBOLS - t.locs |-> t.ent[NSYMBOLS - i].prim]

(***************************************************************************)
(* Predeclared: the table init() leaves: the entry of the empty name, which 0 stands    *)
(* for, and the macros that are always defined.                            *)
(***************************************************************************)
Macro(name) == Entry(name, PVOID, "macro", "", 0, 0)
Bare == [ent |-> [i \in 0 .. NSYMBOLS - 1 |-> NoEntry], globs |-> 0, locs |-> NSYMBOLS,
         nbot |-> 0, ntop |-> POOLSIZE, y |-> 0, err |-> FALSE, fatal |-> FALSE]
Predefined(t, name) == addglob(galloc(t, 1), Macro(name))   \* an empty text, then the name
Predeclared == Predefined(Predefined(addglob(Bare, NoEntry), "__SUBC__"), "__dos")
=============================================================================
