----------------------------- MODULE CPreprocess -----------------------------
(***************************************************************************)
(* What C makes of the characters of a file: its comments become blanks,   *)
(* then it is split into lines, then each line is a directive or is split  *)
(* into tokens whose macros are replaced, a macro never inside its own     *)
(* text.  A reference to compare Scanner with, which does all of this in   *)
(* one pass and with one character of lookahead.                           *)
(***************************************************************************)
EXTENDS Integers, Sequences

CONSTANTS Included,     \* name of a header |-> its characters
          Punctuators,  \* the operators of the language
          IfDepth, MacroDepth

From(s, k) == SubSeq(s, k, Len(s))
Join(s) == LET j[k \in 0 .. Len(s)] == IF k = 0 THEN "" ELSE j[k - 1] \o s[k] IN j[Len(s)]
Starts(s, x) == Len(s) >= Len(x) /\ SubSeq(s, 1, Len(x)) = x
FirstAt(s, x) ==
    LET at == {k \in 1 .. Len(s) : Starts(From(s, k), x)}
    IN  IF at = {} THEN Len(s) + 1 ELSE CHOOSE k \in at : \A j \in at : k <= j

RECURSIVE NoComments(_), Lines(_), Lexed(_), Expanded(_, _, _), Nests(_, _, _), After(_, _), File(_, _)
NoComments(s) ==
    IF s = <<>> THEN <<>>
    ELSE IF Starts(s, <<"/", "/">>) THEN NoComments(From(s, FirstAt(s, <<"\n">>)))
    ELSE IF Starts(s, <<"/", "*">>)
    THEN LET body == From(s, 3) IN <<" ">> \o NoComments(From(body, FirstAt(body, <<"*", "/">>) + 2))
    ELSE <<Head(s)>> \o NoComments(Tail(s))

Lines(s) ==
    IF s = <<>> THEN <<>>
    ELSE <<SubSeq(s, 1, FirstAt(s, <<"\n">>) - 1)>> \o Lines(From(s, FirstAt(s, <<"\n">>) + 1))

\* The tokens of a line: names, and operators as long as they can be.
Longest(s) == CHOOSE k \in 1 .. 3 : /\ k <= Len(s) /\ Join(SubSeq(s, 1, k)) \in Punctuators
                                    /\ \A j \in k + 1 .. 3 : j <= Len(s) => Join(SubSeq(s, 1, j)) \notin Punctuators
Lexed(s) ==
    IF s = <<>> THEN <<>>
    ELSE IF Head(s) = " " THEN Lexed(Tail(s))
    ELSE IF Head(s) \notin Punctuators THEN <<Head(s)>> \o Lexed(Tail(s))
    ELSE <<Join(SubSeq(s, 1, Longest(s)))>> \o Lexed(From(s, Longest(s) + 1))

(***************************************************************************)
(* Macros: mac is name |-> tokens.  Nests is whether replacing them takes  *)
(* a macro inside itself, or deeper than a compiler has to go.             *)
(***************************************************************************)
Expanded(toks, mac, hidden) ==
    IF toks = <<>> THEN <<>>
    ELSE (IF Head(toks) \in DOMAIN mac \ hidden
          THEN Expanded(mac[Head(toks)], mac, hidden \cup {Head(toks)})
          ELSE <<Head(toks)>>) \o Expanded(Tail(toks), mac, hidden)
Nests(toks, mac, inside) ==
    \E k \in DOMAIN toks :
        /\ toks[k] \in DOMAIN mac
        /\ \/ Len(inside) >= MacroDepth
           \/ \E j \in DOMAIN inside : inside[j] = toks[k]
           \/ Nests(mac[toks[k]], mac, Append(inside, toks[k]))

(***************************************************************************)
(* A line, in a state r of what is known before it.                        *)
(***************************************************************************)
Open(r) == \A k \in DOMAIN r.conds : r.conds[k].holds # r.conds[k].else
Level(holds) == [holds |-> holds, else |-> FALSE]
Says(r, e) == [r EXCEPT !.errors = Append(@, e)]
Conditional(r, holds) ==
    IF Len(r.conds) >= IfDepth THEN [r EXCEPT !.end = "too many nested '#ifdef's"]
    ELSE [r EXCEPT !.conds = Append(@, Level(holds))]
Else(r) ==
    LET n == Len(r.conds)
        around == [r EXCEPT !.conds = SubSeq(@, 1, n - 1)]
    IN  IF n = 0 \/ (r.conds[n].else /\ Open(around)) THEN Says(r, "#else")
        ELSE [r EXCEPT !.conds[n].else = TRUE]
Endif(r) ==
    IF r.conds = <<>> THEN Says(r, "#endif") ELSE [r EXCEPT !.conds = SubSeq(@, 1, Len(@) - 1)]
DefineAs(r, name, toks) ==
    IF name \in DOMAIN r.mac /\ r.mac[name] # toks THEN Says(r, "redefinition")
    ELSE [r EXCEPT !.mac = [n \in DOMAIN @ \cup {name} |-> IF n = name THEN toks ELSE @[n]]]
Undefine(r, name) == [r EXCEPT !.mac = [n \in DOMAIN @ \ {name} |-> @[n]]]
Include(r, line) ==
    LET name == SubSeq(line, 2, Len(line) - 1)
    IN  IF name \in DOMAIN Included THEN File(r, Included[name]) ELSE Says(r, "include")
\* A character that C does not use is reported and left out.
Stray(c) == c = "@"
Known(toks) == SelectSeq(toks, LAMBDA c : ~Stray(c))
Strays(toks) == [k \in 1 .. Len(SelectSeq(toks, Stray)) |-> "funny"]
Text(r, toks) ==
    [r EXCEPT !.out = @ \o Expanded(Known(toks), r.mac, {}), !.errors = @ \o Strays(toks),
              !.deep = @ \/ Nests(toks, r.mac, <<>>)]

Ignored == {"define", "undef", "include", "error", "pragma", "line"}
IsDirective(line) == Lexed(line) # <<>> /\ Lexed(line)[1] = "#"
After(r, line) ==
    LET toks == Lexed(line)
        what == IF Len(toks) > 1 THEN toks[2] ELSE ""
        name == IF Len(toks) > 2 THEN toks[3] ELSE ""
    IN  IF r.end # "" THEN r
        ELSE IF ~IsDirective(line) THEN (IF Open(r) THEN Text(r, toks) ELSE r)
        ELSE CASE what = "ifdef" -> Conditional(r, name \in DOMAIN r.mac)
               [] what = "ifndef" -> Conditional(r, name \notin DOMAIN r.mac)
               [] what = "else" -> Else(r)
               [] what = "endif" -> Endif(r)
               [] what = "define" /\ Open(r) -> DefineAs(r, name, From(toks, 4))
               [] what = "undef" /\ Open(r) -> Undefine(r, name)
               [] what = "include" /\ Open(r) -> Include(r, From(toks, 3))
               [] what = "error" /\ Open(r) -> [Says(r, "#error") EXCEPT !.end = "stopped"]
               [] what \notin Ignored /\ Open(r) -> Says(r, "unknown")
               [] OTHER -> r
File(r, text) ==
    LET ls == Lines(NoComments(text))
        f[k \in 0 .. Len(ls)] == IF k = 0 THEN r ELSE After(f[k - 1], ls[k])
    IN  f[Len(ls)]

\* What a compiler has to get: the tokens, the errors, and how it ends.
Expected(text) ==
    LET r == File([mac |-> [n \in {"__SUBC__", "__dos"} |-> <<>>], conds |-> <<>>, out |-> <<>>,
                   errors |-> <<>>, end |-> "", deep |-> FALSE], text)
    IN  IF r.end = "" THEN [r EXCEPT !.end = IF r.conds = <<>> THEN "done" ELSE "missing '#endif'"] ELSE r
=============================================================================
