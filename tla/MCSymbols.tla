----------------------------- MODULE MCSymbols ------------------------------
(* A table and a list of names that a few declarations fill. *)
EXTENDS Symbols

MCNames == {"f", "g"}
MCPrims == {PINT, CHARPTR}
MCWidth == [n \in MCNames \cup {"", "__SUBC__", "__dos"} |-> IF n = "g" THEN 3 ELSE IF n = "" THEN 1 ELSE 2]
=============================================================================
