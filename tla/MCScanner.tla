----------------------------- MODULE MCScanner ------------------------------
(***************************************************************************)
(* Short files for Scanner, compared with what C makes of them.            *)
(***************************************************************************)
EXTENDS Scanner

R == INSTANCE CPreprocess WITH Included <- Headers, Punctuators <- Operators \ {".."},
                               IfDepth <- MAXIFDEF, MacroDepth <- MAXNMAC

D(words) == <<"#">> \o words \o <<"\n">>
L(words) == words \o <<"\n">>
Lines(choice, n) == {FlattenSeq(f) : f \in UNION {[1 .. k -> choice] : k \in 0 .. n}}

\* Comments and blanks: every text of up to five of these characters.
Comments == {<<"x">> \o s : s \in UNION {[1 .. k -> {"y", "/", "*", "\n", " ", "="}] : k \in 0 .. 5}}

\* Operators next to each other, which must be split where C splits them.
Signs == {"<", "=", ">", "-", "&", "+", "|", "!", "."}
OperatorRuns == {s \o <<"y">> : s \in UNION {[1 .. k -> Signs] : k \in 2 .. 3}}
Dotted(s) == \E k \in 1 .. Len(s) - 1 : s[k] = "." /\ s[k + 1] = "."

\* Conditions in each other, with a name in every part.
IfLines == {D(<<"ifdef", " ", "a">>) \o L(<<"x">>), D(<<"ifndef", " ", "a">>) \o L(<<"y">>),
            D(<<"else">>) \o L(<<"z">>), D(<<"endif">>) \o L(<<"t">>),
            D(<<"define", " ", "a">>)}
Ifs == Lines(IfLines, 5)

\* Macros in macros, taken away and defined again.
MacroLines == {D(<<"define", " ", "a", " ">> \o s) : s \in {<<"1">>, <<"b">>, <<"b", "+", "b">>, <<"(", "b", ")">>}}
              \cup {D(<<"define", " ", "b", " ">> \o s) : s \in {<<"c">>, <<"-", "c">>, <<"a", "+", "1">>}}
              \cup {D(<<"define", " ", "c">>), D(<<"define", " ", "c", " ", "2">>),
                    D(<<"undef", " ", "a">>), L(<<"a", "=", "b">>), L(<<"b", " ", "c">>)}
Macros == Lines(MacroLines, 3) \cup {s \o L(<<"a", ";">>) : s \in Lines(MacroLines, 3)}

\* Files in files: guarded, defining, leaving out, missing, and comments around.
MCHeaders == [f \in {<<"g">>, <<"h">>, <<"u">>} |->
    CASE f = <<"g">> -> D(<<"ifndef", " ", "a">>) \o D(<<"define", " ", "a", " ", "b">>) \o L(<<"x", ";">>)
                        \o D(<<"endif">>)
      [] f = <<"h">> -> D(<<"include", " ", "\"", "g", "\"">>) \o <<"a">>
      [] f = <<"u">> -> L(<<"/", "*", "z", "*", "/">>) \o D(<<"undef", " ", "a">>)]
IncludeLines == {D(<<"include", " ", "\"", f, "\"">>) : f \in {"g", "h", "u", "v"}}
                \cup {D(<<"ifdef", " ", "a">>), D(<<"else">>), D(<<"endif">>), L(<<"a">>)}
Includes == Lines(IncludeLines, 4)

Others == {D(<<"pragma", " ", "x">>) \o L(<<"y">>), D(<<"error", " ", "x">>) \o L(<<"y">>),
           D(<<"z", " ", "x">>) \o L(<<"y">>), L(<<"x", "@", "y">>), D(<<"line", " ", "1">>) \o L(<<"x">>), L(<<"x">>) \o <<"\n", " ">>}

\* Two files the scanner never gets through: a macro that ends with itself is
\* left before it is entered again, so that it is never nested too deep, and a
\* header that ends in text left out is read on behind its end.
MCMoreHeaders == MCHeaders @@ (<<"e">> :> D(<<"ifdef", " ", "a">>) \o L(<<"x">>))
Endless == {D(<<"define", " ", "x", " ", "x">>) \o L(<<"x">>), D(<<"include", " ", "\"", "e", "\"">>)}

\* No C: a / where the name of a file is expected takes its part of the line.
NotC == {D(<<"include", " ", "/">> \o s) : s \in {<<"g", "/">>, <<"x", "g", "/">>, <<"g">>, <<>>}}

MCSources == Endless \cup NotC \cup Comments \cup {s \in OperatorRuns : ~Dotted(s)} \cup Ifs \cup Macros \cup Includes \cup Others

\* The parser gets the tokens C says, errors are reported where C has them,
\* and the compiler gives up only where it must.
AsC(expected) ==
    IF status = "too many nested macros" THEN expected.deep
    ELSE /\ status = expected.end
         /\ out = expected.out
         /\ errors = expected.errors
TokensRight == status \notin {"scanning", "broken"} /\ source \notin NotC => AsC(R!Expected(source))

\* The scanner gets to the end of every other file, or gives up.
ScanEnds == source \in Endless \/ <>(status # "scanning")
=============================================================================
