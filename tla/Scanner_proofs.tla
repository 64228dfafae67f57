--------------------------- MODULE Scanner_proofs ---------------------------
(***************************************************************************)
(* The stack of #ifdefs, for every depth: frozen() looks at the innermost  *)
(* level, p_else() at the two innermost, and still text is compiled        *)
(* exactly when no level leaves it out.  What makes it so is that an entry *)
(* inside text that is left out is P_IFNDEF from the time it is pushed     *)
(* until it is popped (EntriesRight); nothing the scanner does touches the *)
(* stack but ifdef(), p_else() and endif() (ScannerImplementsStack).       *)
(***************************************************************************)
EXTENDS Scanner, TLAPS

Entries == {P_IFDEF, P_IFNDEF, P_ELSE, P_ELSENOT}
Levels == [holds : BOOLEAN, else : BOOLEAN]
Shape == /\ Ifdefstk \in Seq(Entries) /\ levels \in Seq(Levels)
         /\ Len(Ifdefstk) = Len(levels)

\* Some level outside level k leaves its text out.
Around(k) == \E j \in 1 .. k - 1 : LeftOut(levels[j])
Open(level) == IF level.else THEN (IF level.holds THEN P_ELSENOT ELSE P_ELSE)
               ELSE (IF level.holds THEN P_IFDEF ELSE P_IFNDEF)
EntriesRight ==
    \A k \in 1 .. Len(levels) : Ifdefstk[k] = IF Around(k) THEN P_IFNDEF ELSE Open(levels[k])

StackInv == Shape /\ EntriesRight
-----------------------------------------------------------------------------
USE DEF P_IFDEF, P_IFNDEF, P_ELSE, P_ELSENOT

\* An entry is one of the two frozen() looks for exactly when its level, or one
\* around it, leaves its text out.
LEMMA EntryFrozen ==
    ASSUME StackInv, NEW k \in 1 .. Len(levels)
    PROVE  Ifdefstk[k] \in {P_IFNDEF, P_ELSENOT} <=> \E j \in 1 .. k : LeftOut(levels[j])
<1>1. levels[k] \in Levels BY DEF StackInv, Shape
<1>2. Ifdefstk[k] = IF Around(k) THEN P_IFNDEF ELSE Open(levels[k]) BY DEF StackInv, EntriesRight
<1>3. (\E j \in 1 .. k : LeftOut(levels[j])) <=> Around(k) \/ LeftOut(levels[k])
  <2>1. 1 .. k = (1 .. k - 1) \cup {k} OBVIOUS
  <2>2. QED BY <2>1 DEF Around
<1>4. Open(levels[k]) \in {P_IFNDEF, P_ELSENOT} <=> LeftOut(levels[k])
  BY <1>1 DEF Open, LeftOut, Levels
<1>5. QED BY <1>2, <1>3, <1>4

\* frozen(d), in terms of the levels.
LEMMA FrozenAround ==
    ASSUME StackInv, NEW d \in 1 .. 2
    PROVE  frozen(d) <=> Len(levels) >= d /\ \E j \in 1 .. Len(levels) + 1 - d : LeftOut(levels[j])
<1>1. Len(levels) \in Nat /\ Len(Ifdefstk) = Len(levels) BY DEF StackInv, Shape
<1>2. CASE Len(levels) < d BY <1>1, <1>2 DEF frozen, Isp
<1>3. CASE Len(levels) >= d
  <2>1. Len(levels) + 1 - d \in 1 .. Len(levels) BY <1>1, <1>3
  <2>2. QED BY <1>1, <1>3, <2>1, EntryFrozen DEF frozen, Isp
<1>4. QED BY <1>1, <1>2, <1>3

LEMMA StackRight == StackInv => FrozenWhenLeftOut
<1>1. ASSUME StackInv PROVE FrozenWhenLeftOut
  <2>1. levels \in Seq(Levels) /\ DOMAIN levels = 1 .. Len(levels) /\ Len(levels) \in Nat
    BY <1>1 DEF StackInv, Shape
  <2>2. frozen(1) <=> Len(levels) >= 1 /\ \E j \in 1 .. Len(levels) + 1 - 1 : LeftOut(levels[j])
    BY <1>1, FrozenAround
  <2>3. Len(levels) + 1 - 1 = Len(levels) BY <2>1
  <2>4. (\E j \in 1 .. Len(levels) : LeftOut(levels[j])) => Len(levels) >= 1 BY <2>1
  <2>5. QED BY <2>1, <2>2, <2>3, <2>4 DEF FrozenWhenLeftOut
<1>2. QED BY <1>1

LEMMA InitStack == IfInit => StackInv
BY DEF IfInit, StackInv, Shape, EntriesRight
-----------------------------------------------------------------------------
LEMMA IfdefStack == ASSUME StackInv, NEW holds \in BOOLEAN, ifdef(holds) PROVE StackInv'
<1> DEFINE n == Len(levels)
           entry == IF ~frozen(1) /\ holds THEN P_IFDEF ELSE P_IFNDEF
           level == [holds |-> holds, else |-> FALSE]
<1>1. /\ Ifdefstk \in Seq(Entries) /\ levels \in Seq(Levels) /\ n \in Nat /\ Len(Ifdefstk) = n
      /\ Ifdefstk' = Append(Ifdefstk, entry) /\ levels' = Append(levels, level)
  BY DEF StackInv, Shape, ifdef
<1>2. entry \in Entries /\ level \in Levels BY DEF Entries, Levels
<1>3. /\ Len(levels') = n + 1 /\ levels'[n + 1] = level /\ Ifdefstk'[n + 1] = entry
      /\ \A k \in 1 .. n : levels'[k] = levels[k] /\ Ifdefstk'[k] = Ifdefstk[k]
  BY <1>1, <1>2
<1>4. Shape' BY <1>1, <1>2 DEF Shape
<1>5. \A k \in 1 .. n + 1 : Around(k)' <=> Around(k)
  <2>1. TAKE k \in 1 .. n + 1
  <2>2. \A j \in 1 .. k - 1 : levels'[j] = levels[j] BY <1>1, <1>3
  <2>3. QED BY <2>2 DEF Around, LeftOut
<1>6. frozen(1) <=> Around(n + 1)
  <2>1. frozen(1) <=> n >= 1 /\ \E j \in 1 .. n + 1 - 1 : LeftOut(levels[j]) BY FrozenAround
  <2>2. (\E j \in 1 .. n : LeftOut(levels[j])) => n >= 1 BY <1>1
  <2>3. n + 1 - 1 = n BY <1>1
  <2>4. QED BY <2>1, <2>2, <2>3 DEF Around
<1>7. EntriesRight'
  <2>1. SUFFICES ASSUME NEW k \in 1 .. n + 1
                 PROVE  Ifdefstk'[k] = IF Around(k)' THEN P_IFNDEF ELSE Open(levels'[k])
    BY <1>3 DEF EntriesRight, Open
  <2>2. CASE k = n + 1
    <3>1. Open(levels'[k]) = IF holds THEN P_IFDEF ELSE P_IFNDEF BY <1>3, <2>2 DEF Open
    <3>2. QED BY <1>3, <1>5, <1>6, <2>2, <3>1
  <2>3. CASE k # n + 1
    <3>1. k \in 1 .. n BY <1>1, <2>3
    <3>2. Ifdefstk[k] = IF Around(k) THEN P_IFNDEF ELSE Open(levels[k])
      BY <3>1 DEF StackInv, EntriesRight
    <3>3. QED BY <1>3, <1>5, <3>1, <3>2
  <2>4. QED BY <2>2, <2>3
<1>8. QED BY <1>4, <1>7 DEF StackInv

\* #else changes the innermost entry, and only outside text that is left out.
LEMMA ElseStack == ASSUME StackInv, p_else PROVE StackInv'
<1> DEFINE n == Len(levels)
           level == [levels[n] EXCEPT !.else = TRUE]
<1>1. /\ Ifdefstk \in Seq(Entries) /\ levels \in Seq(Levels) /\ n \in Nat /\ Len(Ifdefstk) = n
      /\ n > 0 /\ levels[n] \in Levels /\ Isp = n
  BY DEF StackInv, Shape, p_else, Matched, Isp
<1>2. /\ Len(levels') = n /\ levels' \in Seq(Levels) /\ levels'[n] = level
      /\ \A k \in 1 .. n - 1 : levels'[k] = levels[k]
  <2>1. level \in Levels BY <1>1 DEF Levels
  <2>2. levels' = [levels EXCEPT ![n] = level] BY <1>1 DEF p_else
  <2>3. QED
    <3> HIDE DEF level
    <3>1. QED BY <1>1, <2>1, <2>2
<1>3. /\ Ifdefstk' \in Seq(Entries) /\ Len(Ifdefstk') = n
      /\ \A k \in 1 .. n - 1 : Ifdefstk'[k] = Ifdefstk[k]
      /\ Ifdefstk'[n] = IF frozen(2) THEN Ifdefstk[n] ELSE Flipped(Ifdefstk[n])
  BY <1>1 DEF p_else, Flipped, Entries
<1>4. Shape' BY <1>2, <1>3 DEF Shape
<1>5. \A k \in 1 .. n : Around(k)' <=> Around(k)
  <2>1. TAKE k \in 1 .. n
  <2>2. \A j \in 1 .. k - 1 : levels'[j] = levels[j] BY <1>1, <1>2
  <2>3. QED BY <2>2 DEF Around, LeftOut
<1>6. frozen(2) <=> Around(n)
  <2>1. frozen(2) <=> n >= 2 /\ \E j \in 1 .. n + 1 - 2 : LeftOut(levels[j]) BY FrozenAround
  <2>2. n + 1 - 2 = n - 1 BY <1>1
  <2>3. (\E j \in 1 .. n - 1 : LeftOut(levels[j])) => n >= 2 BY <1>1
  <2>4. QED BY <2>1, <2>2, <2>3 DEF Around
<1>7. Ifdefstk[n] = IF Around(n) THEN P_IFNDEF ELSE Open(levels[n])
  BY <1>1 DEF StackInv, EntriesRight
<1>8. Ifdefstk'[n] = IF Around(n) THEN P_IFNDEF ELSE Open(level)
  <2>1. CASE Around(n) BY <1>3, <1>6, <1>7, <2>1
  <2>2. CASE ~Around(n)
    <3>1. Ifdefstk[n] \in {P_IFDEF, P_IFNDEF} BY <1>1, <1>6, <2>2 DEF p_else, Matched
    <3>2. ~levels[n].else BY <1>7, <2>2, <3>1 DEF Open
    <3>3. level.else = TRUE /\ level.holds = levels[n].holds BY <1>1 DEF Levels
    <3>4. QED BY <1>3, <1>6, <1>7, <2>2, <3>2, <3>3 DEF Open, Flipped
  <2>3. QED BY <2>1, <2>2
<1>9. EntriesRight'
  <2>1. SUFFICES ASSUME NEW k \in 1 .. n
                 PROVE  Ifdefstk'[k] = IF Around(k)' THEN P_IFNDEF ELSE Open(levels'[k])
    BY <1>2 DEF EntriesRight, Open
  <2>2. CASE k = n BY <1>2, <1>5, <1>8, <2>2
  <2>3. CASE k # n
    <3>1. k \in 1 .. n - 1 BY <1>1, <2>3
    <3>2. Ifdefstk[k] = IF Around(k) THEN P_IFNDEF ELSE Open(levels[k]) BY DEF StackInv, EntriesRight
    <3>3. QED BY <1>2, <1>3, <1>5, <3>1, <3>2
  <2>4. QED BY <2>2, <2>3
<1>10. QED BY <1>4, <1>9 DEF StackInv

LEMMA EndifStack == ASSUME StackInv, endif PROVE StackInv'
<1> DEFINE n == Len(levels)
<1>1. /\ Ifdefstk \in Seq(Entries) /\ levels \in Seq(Levels) /\ n \in Nat /\ Len(Ifdefstk) = n /\ n > 0
      /\ Ifdefstk' = SubSeq(Ifdefstk, 1, n - 1) /\ levels' = SubSeq(levels, 1, n - 1)
  BY DEF StackInv, Shape, endif, Isp, Top
<1>2. /\ Len(levels') = n - 1 /\ levels' \in Seq(Levels)
      /\ Len(Ifdefstk') = n - 1 /\ Ifdefstk' \in Seq(Entries)
      /\ \A k \in 1 .. n - 1 : levels'[k] = levels[k] /\ Ifdefstk'[k] = Ifdefstk[k]
  BY <1>1
<1>3. Shape' BY <1>2 DEF Shape
<1>4. \A k \in 1 .. n - 1 : Around(k)' <=> Around(k)
  <2>1. TAKE k \in 1 .. n - 1
  <2>2. \A j \in 1 .. k - 1 : levels'[j] = levels[j] BY <1>1, <1>2
  <2>3. QED BY <2>2 DEF Around, LeftOut
<1>5. EntriesRight'
  <2>1. SUFFICES ASSUME NEW k \in 1 .. n - 1
                 PROVE  Ifdefstk'[k] = IF Around(k)' THEN P_IFNDEF ELSE Open(levels'[k])
    BY <1>2 DEF EntriesRight, Open
  <2>2. k \in 1 .. n BY <1>1
  <2>3. Ifdefstk[k] = IF Around(k) THEN P_IFNDEF ELSE Open(levels[k])
    BY <2>2 DEF StackInv, EntriesRight
  <2>4. QED BY <1>2, <1>4, <2>3
<1>6. QED BY <1>3, <1>5 DEF StackInv

LEMMA StepStack == StackInv /\ [IfNext]_ifvars => StackInv'
<1>1. ASSUME StackInv, [IfNext]_ifvars PROVE StackInv'
  <2>1. CASE \E holds \in BOOLEAN : ifdef(holds) BY <1>1, <2>1, IfdefStack
  <2>2. CASE p_else BY <1>1, <2>2, ElseStack
  <2>3. CASE endif BY <1>1, <2>3, EndifStack
  <2>4. CASE UNCHANGED ifvars
    BY <1>1, <2>4 DEF StackInv, Shape, EntriesRight, Around, LeftOut, Open, ifvars
  <2>5. QED BY <1>1, <2>1, <2>2, <2>3, <2>4 DEF IfNext
<1>2. QED BY <1>1
-----------------------------------------------------------------------------
(* The scanner and the stack. *)

LEMMA LexicalKeepsStack == Lexical => UNCHANGED ifvars
BY DEF Lexical, Blank, Slash, AfterSlash, InLine, InComment, Begin, FunnyChar, Operator, Hash, Directive,
       Word, macro, scan, Scans, NoDirective, ifvars

LEMMA PreprocessStack == Preprocess => [IfNext]_ifvars
<1>1. ASSUME Preprocess PROVE [IfNext]_ifvars
  <2>1. CASE preproc \/ junkln \/ setline \/ pperror \/ AskForName \/ undef \/ defmac \/ Delimiter \/ include
    BY <2>1 DEF preproc, junkln, setline, pperror, AskForName, undef, defmac, Delimiter, include,
                Scans, NoDirective, ifvars
  <2>2. CASE elseLine BY <2>2 DEF elseLine, IfNext, ifvars
  <2>3. CASE endifLine BY <2>3 DEF endifLine, IfNext, ifvars
  <2>4. CASE ifdefLine BY <2>4 DEF ifdefLine, IfNext
  <2>5. QED BY <1>1, <2>1, <2>2, <2>3, <2>4 DEF Preprocess
<1>2. QED BY <1>1

\* Whatever the scanner reads, it uses the stack as IfStack says.
THEOREM ScannerImplementsStack == Spec => IfSpec
<1>1. Init => IfInit BY DEF Init
<1>2. [Next]_vars => [IfNext]_ifvars
  BY LexicalKeepsStack, PreprocessStack DEF Next, Ended, vars, ifvars
<1>3. QED BY <1>1, <1>2, PTL DEF Spec, IfSpec

\* Text is compiled exactly when no #ifdef around it leaves it out, for every
\* source and every depth: frozen() and p_else() of prep.c need not look further
\* than the two innermost levels.
THEOREM StackFreezes == IfSpec => []FrozenWhenLeftOut
<1>1. IfInit => StackInv BY InitStack
<1>2. StackInv /\ [IfNext]_ifvars => StackInv' BY StepStack
<1>3. StackInv => FrozenWhenLeftOut BY StackRight
<1>4. QED BY <1>1, <1>2, <1>3, PTL DEF IfSpec

THEOREM ScannerFreezes == Spec => []FrozenWhenLeftOut
BY ScannerImplementsStack, StackFreezes
=============================================================================
