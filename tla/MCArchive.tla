------------------------------- MODULE MCArchive ------------------------------
(***************************************************************************)
(* Libraries of up to three members, with empty files, files that are      *)
(* libraries themselves, and one too large for its header.                 *)
(***************************************************************************)
EXTENDS Archive

C(sig, size, name) == [sig |-> sig, size |-> size, name |-> name]

\* Two objects, a text, an empty file, an object of WRAP + 1 cells, and libraries
\* of an object, whose headers must not be taken for headers of the one around.
O1 == <<C("object", 1, "o1")>>
O2 == <<C("object", 2, "o2"), C("data", 0, "o2")>>
MCFiles == [f \in {"o1", "o2", "text", "empty", "big", "inner"} |->
    CASE f = "o1" -> O1
      [] f = "o2" -> O2
      [] f = "text" -> <<C("data", 0, "text"), C("member", 1, "text")>>
      [] f = "empty" -> <<>>
      [] f = "big" -> <<C("object", 5, "big"), C("member", 1, "o1")>> \o O1 \o <<C("data", 0, "big"), C("data", 0, "big")>>
      [] f = "inner" -> <<C("member", 2, "o2")>> \o O2]

\* Libraries made by one call, and by two; the file "none" does not exist, and in some
\* jobs there is room for the name of one object.
Some(n) == UNION {[1 .. k -> DOMAIN MCFiles] : k \in 0 .. n}
MCJobs ==
    [puts : {<<p>> : p \in Some(3)}, libs : 0 .. 2, objs : {<<>>, <<"o1">>, <<"o1", "o2">>},
     room : {2}]
    \cup [puts : {<<p, <<"o2">>>> : p \in Some(1)}, libs : {1},
          objs : {<<"o2", "none">>, <<"text", "o1">>}, room : {1, 2}]
=============================================================================
