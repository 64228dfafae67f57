------------------------------- MODULE MCStdio -------------------------------
(* Buffers of three bytes; files and strings shorter and longer than one and  *)
(* two buffers, with newlines inside and at the end.                         *)
EXTENDS Stdio

x == 120

MCFiles == {<<>>, <<x, NL, x, x, x, x, x>>}
MCStrings == {<<NL, NL>>, <<x, x, x, NL, x, x, x>>}

\* No call depends on what the last one returned; the result is looked at in
\* the step that makes it.
View == <<st, open, dir>>
=============================================================================
