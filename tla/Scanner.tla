------------------------------ MODULE Scanner -------------------------------
(***************************************************************************)
(* scc/scan.c and scc/prep.c: from the characters of a file to the tokens  *)
(* the parser gets, with macros, #include and conditional compilation done *)
(* on the way.  There is one character of lookahead, Putback, shared by    *)
(* everybody who reads, and directives take their line straight from the   *)
(* file behind it.                                                         *)
(*                                                                         *)
(* A name, a keyword or a number is one character here, as are the letters *)
(* behind the # of a directive.  Literals, the number of the line, the     *)
(* wording of messages and the limit of ten of them are left out.          *)
(***************************************************************************)
EXTENDS IfStack, SequencesExt

CONSTANTS Sources,   \* the files to compile: sequences of characters
          Headers,   \* what #include finds: name |-> characters
          MAXNMAC    \* macros that may be read at a time

NoChar == "none"
EOF == "<EOF>"

VARIABLES source,    \* the file that is compiled, as it was given
          Infile,    \* what is left of the file being read
          Outer,     \* include(): the rest of the file, and oc, for every file around it
          Putback, Macp, Mtext, errors, out,
          pc,        \* where skip() or scanpp() is: [at, nl, text]
          ask,       \* who asked for a token
          status
reader == <<Infile, Putback, Macp>>
vars == <<source, Infile, Outer, Putback, Macp, Mtext, errors, out, pc, ask, status, ifvars>>

-----------------------------------------------------------------------------
(***************************************************************************)
(* next(): what was put back, then what is left of the innermost macro and *)
(* the character its name was followed by, then the file.                  *)
(***************************************************************************)
Char ==
    CASE Putback # NoChar -> Putback
      [] Putback = NoChar /\ Macp # <<>> ->
            IF Last(Macp).text = <<>> THEN Last(Macp).macc ELSE Head(Last(Macp).text)
      [] OTHER -> IF Infile = <<>> THEN EOF ELSE Head(Infile)

FromMacro == Putback = NoChar /\ Macp # <<>>
FromFile == Putback = NoChar /\ Macp = <<>> /\ Infile # <<>>
Played ==
    IF Last(Macp).text = <<>> THEN Front(Macp)
    ELSE [Macp EXCEPT ![Len(Macp)].text = Tail(@)]

\* A character is read, and "back" put back for the next one who reads.
read(back) ==
    /\ Macp' = IF FromMacro THEN Played ELSE Macp
    /\ Infile' = IF FromFile THEN Tail(Infile) ELSE Infile
    /\ Putback' = back
next == read(NoChar)
peek == read(Char)

-----------------------------------------------------------------------------
Blanks == {" ", "\n"}
Operators ==
    {"!", "!=", "%", "%=", "&", "&&", "&=", "(", ")", "*", "*=", "+", "++", "+=", ",", "-", "--", "-=", "->",
     "/", "/=", ":", ";", "<", "<<", "<<=", "<=", "=", "==", ">", ">>", ">>=", ">=", "?", "[", "]", "^", "^=",
     "{", "|", "||", "|=", "}", "~", ".", "..", "..."}
Extends(s) == \E c \in {"=", "&", "+", "-", ">", "<", "|", "."} : s \o c \in Operators
FirstOfOperator == {"!", "%", "&", "(", ")", "*", "+", ",", "-", "/", ":", ";", "<", "=", ">", "?", "[", "]",
                    "^", "{", "|", "}", "~", "."}
Funny == {"@", "\\"}
Conditionals == {"#ifdef", "#ifndef", "#else", "#endif"}
Named == {"#define", "#undef", "#ifdef", "#ifndef"}
Directives == Conditionals \cup {"#define", "#undef", "#include", "#error", "#line", "#pragma"}
IsWord(c) == c \notin FirstOfOperator \cup Blanks \cup Funny \cup {"#", "\"", EOF}
IsName(s) == s # EOF /\ s \notin Operators /\ s \notin Directives

At(at, nl, text) == pc' = [at |-> at, nl |-> nl, text |-> text]
Skip(nl) == At("skip", nl, "")
report(e) == errors' = Append(errors, e)

Here(at) == status = "scanning" /\ pc.at = at
NoDirective == UNCHANGED <<source, Outer, Mtext, ifvars, status>>
Scans == NoDirective /\ UNCHANGED <<ask, out>>

-----------------------------------------------------------------------------
(* skip(): blanks, comments, and the directives that start a line. *)

Blank == /\ Here("skip") /\ Char \in Blanks
         /\ next /\ Skip(pc.nl \/ Char = "\n") /\ Scans /\ UNCHANGED errors

\* preproc() is called for the # behind the end of a line: it asks for a directive.
\* Where a name is expected that is a call inside a call: it is not followed.
preproc ==
    /\ Here("skip") /\ Char = "#" /\ pc.nl
    /\ next /\ At("hash", FALSE, "#") /\ ask' = "directive"
    /\ status' = IF ask = "program" THEN "scanning" ELSE "broken"
    /\ UNCHANGED <<source, Outer, Mtext, ifvars, out, errors>>

Slash == /\ Here("skip") /\ Char = "/"
         /\ next /\ At("slash", FALSE, "") /\ Scans /\ UNCHANGED errors
AfterSlash ==
    /\ Here("slash") /\ UNCHANGED errors /\ Scans
    /\ \/ Char = "/" /\ next /\ At("line", FALSE, "")
       \/ Char = "*" /\ next /\ At("comment", FALSE, "")
       \/ Char \notin {"/", "*"} /\ peek /\ At(IF ask = "#include" THEN "delimiter" ELSE "operator", FALSE, "/")

InLine == /\ Here("line") /\ UNCHANGED errors /\ Scans
          /\ IF Char \in {"\n", EOF} THEN Skip(FALSE) /\ UNCHANGED reader
             ELSE next /\ UNCHANGED pc
\* Mutant: the end of the file does not end a comment.
InCommentForever ==
    /\ Here("comment") /\ UNCHANGED errors /\ Scans
    /\ next /\ IF Char = "/" /\ pc.text = "*" THEN Skip(FALSE) ELSE At("comment", FALSE, Char)
InComment ==
    /\ Here("comment") /\ UNCHANGED errors /\ Scans
    /\ IF Char = EOF THEN Skip(FALSE) /\ UNCHANGED reader
       ELSE next /\ IF Char = "/" /\ pc.text = "*" THEN Skip(FALSE) ELSE At("comment", FALSE, Char)

-----------------------------------------------------------------------------
(* scanpp(): one token. *)

AtToken == Here("skip") /\ Char \notin Blanks \cup {"/"} /\ ~(Char = "#" /\ pc.nl) /\ ask # "#include"

Begin ==
    /\ AtToken /\ Char \notin Funny
    /\ next /\ UNCHANGED errors /\ Scans
    /\ At(CASE Char = EOF -> "token"
            [] Char = "#" -> "hash"
            [] Char \in FirstOfOperator -> "operator"
            [] OTHER -> "word", FALSE, Char)
FunnyChar ==
    /\ AtToken /\ Char \in Funny
    /\ next /\ Skip(FALSE) /\ report("funny") /\ Scans

\* The longest operator, read a character at a time.
Operator ==
    /\ Here("operator") /\ Scans
    /\ IF ~Extends(pc.text) THEN At("token", FALSE, pc.text) /\ UNCHANGED <<reader, errors>>
       ELSE IF Char # EOF /\ pc.text \o Char \in Operators
       THEN next /\ At("operator", FALSE, pc.text \o Char) /\ UNCHANGED errors
       ELSE peek /\ IF pc.text = ".." THEN At("token", FALSE, "...") /\ report("incomplete")
                    ELSE At("token", FALSE, pc.text) /\ UNCHANGED errors

\* The word behind a # is a directive, if it is one.
Hash ==
    /\ Here("hash") /\ UNCHANGED errors /\ Scans
    /\ IF IsWord(Char) THEN next /\ At("directive", FALSE, "#" \o Char)
       ELSE At("directive", FALSE, "#") /\ UNCHANGED reader
Directive ==
    /\ Here("directive") /\ Scans
    /\ peek /\ At("token", FALSE, pc.text)
    /\ IF pc.text \in Directives THEN UNCHANGED errors ELSE report("unknown")

\* The character behind a name is read and put back before the name is looked
\* up: a macro that ends with the name is left before the next one is entered.
Word == /\ Here("word") /\ peek /\ At("name", FALSE, pc.text) /\ Scans /\ UNCHANGED errors

IsMacro(name) == name \in DOMAIN Mtext
macro ==
    /\ Here("name") /\ UNCHANGED <<source, Infile, Outer, Mtext, ifvars, errors, out, ask>>
    /\ IF ask # "program" \/ ~IsMacro(pc.text)
       THEN At("token", FALSE, pc.text) /\ UNCHANGED <<Putback, Macp, status>>
       ELSE IF Len(Macp) >= MAXNMAC
       THEN status' = "too many nested macros" /\ UNCHANGED <<Putback, Macp, pc>>
       ELSE /\ Macp' = Append(Macp, [text |-> Mtext[pc.text], macc |-> Putback])
            /\ Putback' = NoChar /\ Skip(FALSE) /\ UNCHANGED status

-----------------------------------------------------------------------------
(***************************************************************************)
(* scan(): a token for the parser, unless it is left out.  The end of an   *)
(* included file is the end of the loop in include(): the file around it   *)
(* goes on with the character that was read too far.                       *)
(***************************************************************************)
AtEOF == pc.text = EOF
scan ==
    /\ Here("token") /\ ask = "program"
    /\ UNCHANGED <<source, Macp, Mtext, ifvars, errors, ask>>
    /\ IF AtEOF /\ Outer = <<>> /\ Isp > 0
       THEN status' = "missing '#endif'" /\ UNCHANGED <<Infile, Outer, Putback, out, pc>>
       ELSE IF frozen(1) THEN Skip(FALSE) /\ UNCHANGED <<Infile, Outer, Putback, out, status>>
       ELSE IF ~AtEOF
       THEN out' = Append(out, pc.text) /\ Skip(FALSE) /\ UNCHANGED <<Infile, Outer, Putback, status>>
       ELSE IF Outer = <<>> THEN status' = "done" /\ UNCHANGED <<Infile, Outer, Putback, out, pc>>
       ELSE /\ Infile' = Last(Outer).infile /\ Putback' = Last(Outer).oc /\ Outer' = Front(Outer)
            /\ Skip(TRUE) /\ UNCHANGED <<out, status>>

(***************************************************************************)
(* preproc(): the line is the file's up to the end, whatever is put back.  *)
(***************************************************************************)
Min1(S) == CHOOSE k \in S : \A j \in S : k <= j
LineEnd == Min1({k \in DOMAIN Infile : Infile[k] = "\n"} \cup {Len(Infile)})
getln == SubSeq(Infile, 1, LineEnd - 1)
Below == SubSeq(Infile, LineEnd + 1, Len(Infile))

DirectiveDone == Skip(TRUE) /\ ask' = "program"
Asked(d) == Here("token") /\ ask = "directive" /\ pc.text = d
KeepsText == UNCHANGED <<source, Outer, Putback, Macp, out>>

LeftOutDirective == frozen(1) /\ pc.text \notin Conditionals
junkln ==
    /\ Here("token") /\ ask = "directive"
    /\ LeftOutDirective \/ pc.text = "#pragma" \/ pc.text \notin Directives
    /\ Infile' = Below
    /\ DirectiveDone /\ KeepsText /\ UNCHANGED <<Mtext, ifvars, errors, status>>

setline ==
    /\ Asked("#line") /\ ~LeftOutDirective
    /\ Infile' = IF Putback = "\n" THEN Infile ELSE Below
    /\ DirectiveDone /\ KeepsText /\ UNCHANGED <<Mtext, ifvars, errors, status>>

pperror ==
    /\ Asked("#error") /\ ~LeftOutDirective
    /\ Infile' = IF Putback = "\n" THEN Infile ELSE Below
    /\ report("#error") /\ status' = "stopped"
    /\ KeepsText /\ UNCHANGED <<Mtext, ifvars, pc, ask>>

\* p_else() and endif() without an #ifdef report it and leave the stack alone.
elseLine ==
    /\ Asked("#else") /\ DirectiveDone /\ KeepsText
    /\ UNCHANGED <<Infile, Mtext, status>>
    /\ IF Matched THEN p_else /\ UNCHANGED errors ELSE report("#else") /\ UNCHANGED ifvars
endifLine ==
    /\ Asked("#endif") /\ DirectiveDone /\ KeepsText
    /\ UNCHANGED <<Infile, Mtext, status>>
    /\ IF Isp > 0 THEN endif /\ UNCHANGED errors ELSE report("#endif") /\ UNCHANGED ifvars

\* The others read a name first, or the character that starts the name of a file.
AskForName ==
    /\ Here("token") /\ ask = "directive" /\ ~LeftOutDirective
    /\ pc.text \in Named \cup {"#include"}
    /\ UNCHANGED <<Infile, Mtext, errors, ifvars>> /\ KeepsText
    /\ IF pc.text \in {"#ifdef", "#ifndef"} /\ Isp >= MAXIFDEF
       THEN status' = "too many nested '#ifdef's" /\ UNCHANGED <<pc, ask>>
       ELSE ask' = pc.text /\ Skip(FALSE) /\ UNCHANGED status

Got(d) == Here("token") /\ ask = d
NameError == IF IsName(pc.text) THEN <<>> ELSE <<"identifier">>
ifdefLine ==
    /\ Got("#ifdef") \/ Got("#ifndef")
    /\ ifdef(IsMacro(pc.text) = (ask = "#ifdef"))
    /\ errors' = errors \o NameError
    /\ DirectiveDone /\ KeepsText /\ UNCHANGED <<Infile, Mtext, status>>

undef ==
    /\ Got("#undef")
    /\ Mtext' = [name \in DOMAIN Mtext \ {pc.text} |-> Mtext[name]]
    /\ errors' = errors \o NameError
    /\ DirectiveDone /\ KeepsText /\ UNCHANGED <<Infile, ifvars, status>>

\* defmac(): the text is compared with its leading blanks, and kept without.
LeadingBlanks(s) == Min1({k \in DOMAIN s : s[k] \notin Blanks} \cup {Len(s) + 1}) - 1
Stripped(s) == SubSeq(s, LeadingBlanks(s) + 1, Len(s))
Redefinition(name, text) == IF IsMacro(name) /\ Mtext[name] # text THEN <<"redefinition">> ELSE <<>>
Define(name, text) ==
    /\ Mtext' = [n \in DOMAIN Mtext \cup {name} |-> IF IsMacro(n) THEN Mtext[n] ELSE Stripped(text)]
    /\ errors' = errors \o NameError \o Redefinition(name, text)
defmac ==
    /\ Got("#define")
    /\ IF Putback = "\n" THEN Define(pc.text, <<>>) /\ UNCHANGED <<Infile, status>>
       ELSE IF Infile = <<>> THEN status' = "broken" /\ UNCHANGED <<Infile, Mtext, errors>>
       ELSE Define(pc.text, getln) /\ Infile' = Below /\ UNCHANGED status
    /\ DirectiveDone /\ KeepsText /\ UNCHANGED ifvars

\* include(): the character skip() stopped at, the line behind it, the file the
\* line names, and the first character below, which is read before the file is.
\* A / it stopped at (AfterSlash) leaves one put back, which is read instead.
Delimiter == /\ Here("skip") /\ ask = "#include" /\ Char \notin Blanks \cup {"/"}
             /\ next /\ At("delimiter", FALSE, Char) /\ Scans /\ UNCHANGED errors

Closing == IF pc.text = "<" THEN ">" ELSE pc.text
Delimited == getln # <<>> /\ Last(getln) = Closing
File == IF getln = <<>> THEN <<>> ELSE Front(getln)
\* Mutant: what is read before the included file is not put back.
FirstBelowLost == "\n"
FirstBelow == IF Putback # NoChar THEN Putback ELSE IF Below = <<>> THEN EOF ELSE Head(Below)
BehindFirst == IF Putback # NoChar THEN Below ELSE SubSeq(Below, 2, Len(Below))
IncludeErrors ==
    (IF Delimited THEN <<>> ELSE <<"delimiter">>) \o (IF File \in DOMAIN Headers THEN <<>> ELSE <<"include">>)
include ==
    /\ Here("delimiter") /\ DirectiveDone
    /\ errors' = errors \o IncludeErrors
    /\ IF File \in DOMAIN Headers
       THEN /\ Outer' = Append(Outer, [infile |-> BehindFirst, oc |-> FirstBelow])
            /\ Infile' = Headers[File] /\ Putback' = "\n"
       ELSE Infile' = Below /\ UNCHANGED <<Outer, Putback>>
    /\ UNCHANGED <<source, Macp, Mtext, ifvars, out, status>>

-----------------------------------------------------------------------------
\* init(), and program() asks for the first token.
Init ==
    /\ source \in Sources /\ Infile = source
    /\ Outer = <<>> /\ Putback = "\n" /\ Macp = <<>> /\ errors = <<>> /\ out = <<>>
    /\ Mtext = [name \in {"__SUBC__", "__dos"} |-> <<>>]
    /\ pc = [at |-> "skip", nl |-> FALSE, text |-> ""] /\ ask = "program" /\ status = "scanning"
    /\ IfInit

Lexical == \/ Blank \/ Slash \/ AfterSlash \/ InLine \/ InComment
           \/ Begin \/ FunnyChar \/ Operator \/ Hash \/ Directive \/ Word \/ macro \/ scan
Preprocess == \/ preproc \/ junkln \/ setline \/ pperror \/ elseLine \/ endifLine \/ AskForName
              \/ ifdefLine \/ undef \/ defmac \/ Delimiter \/ include
Ended == status # "scanning" /\ UNCHANGED vars
Next == Lexical \/ Preprocess \/ Ended
Spec == Init /\ [][Next]_vars
FairSpec == Spec /\ WF_vars(Lexical \/ Preprocess)
=============================================================================
