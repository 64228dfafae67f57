------------------------------ MODULE MCLinker ------------------------------
(* Command lines for TLC: every list of up to three objects from a pool in     *)
(* which names are defined once, several times, not at all, or not referred   *)
(* to, alone and after a startup file.                                        *)
EXTENDS Linker

Glob(n, g, o) == [kind |-> "global", name |-> n, seg |-> g, off |-> o]
Abs(n, g, o, a) == [kind |-> "ref", name |-> n, seg |-> g, off |-> o, rel |-> "abs",
                    disp |-> 0, addend |-> a]
Rel16(n, o) == [kind |-> "ref", name |-> n, seg |-> "text", off |-> o, rel |-> "rel16",
                disp |-> -2, addend |-> 0]
Rel8(n, o) == [Rel16(n, o) EXCEPT !.rel = "rel8", !.disp = -1]
Obj(t, d, b, ss) == [text |-> t, data |-> d, bss |-> b, syms |-> ss]

\* A startup file: calls f and loads the address of its own data.
Start == Obj(20, 3, 0, <<Rel16("f", 1), Glob("_start", "text", 4), Abs("__dataoff", "text", 8, 1),
                         Abs("__segoff", "text", 12, 0)>>)
\* Library members.
DefF == Obj(9, 0, 2, <<Glob("f", "text", 2), Abs("g", "text", 3, 0), Abs("__etext", "text", 5, 0),
                       Abs("__edata", "text", 7, 0)>>)
DefFX == Obj(7, 4, 3, <<Glob("f", "text", 0), Glob("x", "data", 2), Abs("__bssoff", "text", 1, 2)>>)
DefG == Obj(7, 0, 18, <<Glob("g", "bss", 9), Rel8("f", 1), Abs("__end", "text", 3, 0)>>)
DefGX == Obj(0, 17, 0, <<Glob("g", "data", 16), Glob("x", "data", 0)>>)
\* It refers to names in its data.
DataRefs == Obj(2, 6, 1, <<Abs("x", "data", 2, 1), Glob("f", "text", 1), Abs("__textoff", "data", 4, 1)>>)
\* It refers to a name nothing defines.
Dangling == Obj(4, 0, 0, <<Abs("h", "text", 0, 0), Glob("g", "text", 3)>>)
Plain == Obj(1, 1, 1, <<>>)

Pool == {Start, DefF, DefFX, DefG, DefGX, DataRefs, Dangling, Plain}
Lists(S) == LET L == UNION {[1..n -> S] : n \in 1..3} IN L \cup {<<Start>> \o ff : ff \in L}
Job(f, b, ff) == [fmt |-> f, b |-> b, stack |-> 20, files |-> ff, names |-> 9]

SmallJobs == {Job("com", FALSE, ff) : ff \in Lists(Pool)}
          \cup {Job("pcboot", FALSE, <<Start, ff>>) : ff \in Pool}
          \cup {Job("v7", TRUE, ff) : ff \in Lists(Pool)}
          \cup {Job("v7tiny", FALSE, ff) : ff \in Lists(Pool \ {DataRefs})}

\* Objects near the limits of a segment.
Big(t, d, b) == Obj(t, d, b, <<Glob("f", "bss", 0), Glob("_start", "text", 0), Rel16("g", 1)>>)
BigRest(t, d, b) == Obj(t, d, b, <<Glob("g", "text", 0)>>)
\* It refers to the bss of the first object, as an address and as a distance.
FarRefs(t, d, b) == Obj(t, d, b, <<Glob("g", "text", 0), Abs("f", "text", 1, 0), Rel16("f", 4)>>)
Alone(t, d, b) == Obj(t, d, b, <<Glob("_start", "text", 0)>>)
MCLargeV7Jobs ==
    {Job("v7", FALSE, <<Big(t[1], d[1], b[1]), BigRest(t[2], d[2], b[2])>>) :
         t \in {<<65500, 19>>, <<65500, 20>>, <<10, 65509>>},
         d \in {<<100, 0>>, <<65400, 64>>, <<65400, 63>>, <<65400, 80>>},
         b \in {<<0, 0>>, <<1, 18>>, <<0, 21>>}}
\* One object: in a .com each object is counted again with all those before it.
MCLargeComJobs ==
    {Job("com", FALSE, <<Alone(t, 100, 100)>>) : t \in {65024, 65025}}
    \cup {Job("com", FALSE, <<Big(t, 100, 100), BigRest(10, 0, 0)>>) : t \in {32000, 33000}}
\* One segment near and above its limit, which ld does not test.
MCLargeTinyJobs ==
    {Job("v7tiny", FALSE, <<Big(t, 30000, 10), FarRefs(9, 5, b)>>) :
         t \in {35000, 36000, 65000}, b \in {0, 500}}
\* File names that leave room in _names for: not even what the linker enters itself;
\* that and nothing else; one name more; two.
MCLongNamesJobs ==
    {[Job("com", FALSE, <<Start>> \o ff) EXCEPT !.names = n] :
         n \in {33, 32, 30, 28}, ff \in UNION {[1..k -> Pool] : k \in 1..2}}
MCJobs == SmallJobs \cup MCLargeV7Jobs \cup MCLargeComJobs \cup MCLargeTinyJobs
          \cup MCLongNamesJobs

MCTinyJobs == {Job("v7tiny", FALSE, <<Start, DataRefs, DefFX>>)}

MCNames == LinkerNames \cup {"_start", "f", "g", "h", "x"}
MCNameLen == [n \in MCNames |->
    CASE n \in {"f", "g", "h", "x"} -> 2
      [] n = "__end" -> 6
      [] n = "_start" -> 7
      [] n \in {"__etext", "__edata"} -> 8
      [] n \in {"__segoff", "__bssoff"} -> 9
      [] OTHER -> 10]
=============================================================================
