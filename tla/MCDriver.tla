------------------------------- MODULE MCDriver -------------------------------
(***************************************************************************)
(* The driver on command lines of one and two files out of six, whatever   *)
(* of them is there, and some of three.                                    *)
(***************************************************************************)
EXTENDS Driver

MCBases == {"a", "b", "aout", "out", "longname"}
File(b, s) == [base |-> b, sfx |-> s]
MCAout == File("aout", "")
Out == File("out", "")
LongName == File("longname", "")

Inputs == {File(b, s) : b \in {"a", "b"}, s \in {"c", "s", "o"}}
Disk(S) == [n \in Names |-> IF n \in S THEN Text(n) ELSE Absent]
MCDisks == {Disk(S) : S \in SUBSET Inputs} \cup {Disk(Inputs \cup {MCAout, Out})}

\* Three files are more than the driver has room for, MAXFILES = 2.
MCCommands == [1 .. 1 -> Inputs] \cup [1 .. 2 -> Inputs]
    \cup {<<File("a", "c"), File("b", "o"), File(b, s)>> : b \in {"a", "b"}, s \in {"s", "o"}}
    \cup {<<File("a", "o"), File("b", "o"), File("b", s)>> : s \in {"c", "s", "o"}}

\* A name as long as three others fits no command with another file.
MCWidth(f) == IF f.base = "longname" THEN 3 ELSE 1

Mode(c, s, t, o) ==
    [componly |-> c, asmonly |-> s, testonly |-> t, longdef |-> FALSE, outfile |-> o]
MCOptions ==
    {Mode(FALSE, FALSE, FALSE, o) : o \in {NoName, Out, LongName, File("b", "o")}}
    \cup {Mode(TRUE, FALSE, FALSE, o) : o \in {NoName, Out, LongName}}
    \cup {Mode(TRUE, TRUE, FALSE, o) : o \in {NoName, Out}}
    \cup {Mode(FALSE, FALSE, TRUE, NoName)}
    \cup {[Mode(FALSE, FALSE, t, NoName) EXCEPT !.longdef = TRUE] : t \in BOOLEAN}
=============================================================================
