------------------------------ MODULE IfStack -------------------------------
(***************************************************************************)
(* Conditional compilation in scc: the stack of open #ifdefs of            *)
(* scc/prep.c, Ifdefstk[0 .. Isp - 1].  Only the two innermost levels are  *)
(* ever looked at.  "levels" is what the source says: for each level       *)
(* whether its condition held when it was met, and whether its #else was.  *)
(***************************************************************************)
EXTENDS Integers, Sequences

CONSTANT MAXIFDEF
ASSUME DepthAssumption == MAXIFDEF \in Nat \ {0}

VARIABLES Ifdefstk, levels
ifvars == <<Ifdefstk, levels>>

P_IFDEF == "#ifdef"
P_IFNDEF == "#ifndef"
P_ELSE == "#else"
P_ELSENOT == "#elsenot"

Isp == Len(Ifdefstk)
frozen(depth) == Isp >= depth /\ Ifdefstk[Isp + 1 - depth] \in {P_IFNDEF, P_ELSENOT}

IfInit == Ifdefstk = <<>> /\ levels = <<>>

\* ifdef(): "holds" is whether the name is a macro, or is not one for #ifndef.
ifdef(holds) ==
    /\ Isp < MAXIFDEF
    /\ Ifdefstk' = Append(Ifdefstk, IF ~frozen(1) /\ holds THEN P_IFDEF ELSE P_IFNDEF)
    /\ levels' = Append(levels, [holds |-> holds, else |-> FALSE])

\* What p_else() takes for an #else that belongs to an #ifdef.
Matched == Isp > 0 /\ (frozen(2) \/ Ifdefstk[Isp] \in {P_IFDEF, P_IFNDEF})
Flipped(kind) == IF kind = P_IFDEF THEN P_ELSENOT ELSE P_ELSE
\* Mutant: the level around is not looked at.
p_elseAlone ==
    /\ Matched
    /\ Ifdefstk' = [Ifdefstk EXCEPT ![Isp] = Flipped(@)]
    /\ levels' = [levels EXCEPT ![Isp].else = TRUE]
p_else ==
    /\ Matched
    /\ Ifdefstk' = IF frozen(2) THEN Ifdefstk ELSE [Ifdefstk EXCEPT ![Isp] = Flipped(@)]
    /\ levels' = [levels EXCEPT ![Isp].else = TRUE]

Top(stk) == SubSeq(stk, 1, Len(stk) - 1)
endif ==
    /\ Isp > 0
    /\ Ifdefstk' = Top(Ifdefstk)
    /\ levels' = Top(levels)

IfNext == (\E holds \in BOOLEAN : ifdef(holds)) \/ p_else \/ endif
IfSpec == IfInit /\ [][IfNext]_ifvars

(***************************************************************************)
(* A level is left out when the condition that governs its current part    *)
(* does not hold; text is compiled when no level leaves it out.            *)
(***************************************************************************)
LeftOut(level) == level.holds = level.else

\* scc compiles text exactly when no level of the #ifdefs around it leaves
\* it out, although frozen() looks at the innermost level alone.
FrozenWhenLeftOut == frozen(1) <=> \E k \in DOMAIN levels : LeftOut(levels[k])
=============================================================================
