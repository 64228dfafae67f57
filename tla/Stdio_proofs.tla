----------------------------- MODULE Stdio_proofs -----------------------------
(***************************************************************************)
(* A stream of the C library: no complete line waits in the buffer of a    *)
(* line-buffered stream, and whatever the size of the buffer and of the    *)
(* disk a program sees the bytes, the position and the character put back  *)
(* that AbstractStream promises.                                           *)
(***************************************************************************)
EXTENDS Stdio, WellFoundedInduction, TLAPS

Bytes == Chars \cup {Hole}
FileState ==
    [file : Seq(Bytes), there : BOOLEAN, pos : Nat, lost : BOOLEAN,
     can : SUBSET {"read", "write"}, err : BOOLEAN, last : {"closed", "read", "write"},
     acc : Access, ptr : Nat, buf : Seq(Bytes), ch : Chars \cup {EOF}]

\* A stream whose buffer has room for what is in it.
Stream == {s \in FileState : s.ptr <= End(s) /\ End(s) <= BUFSIZ}

\* What a program that reads has before it, and where that is in the file: the
\* buffer holds the bytes the descriptor has just passed.
Rest(s) == Held(s) \o After(s.file, s.pos)
At(s) == s.pos - Unread(s)
Behind(s) == At(s) >= 0 /\ Rest(s) = After(s.file, At(s))

\* The direction a program keeps to is that of the last call, and what it may do
\* in either direction finds nothing in the buffer that came the other way.  The
\* error flag alone means the end of the file: nothing is unread or put back.
Sound(s, d) ==
    /\ d = "read" => s.last = "read"
    /\ d = "write" => s.last = "write"
    /\ d # "read" => s.ch = EOF
    /\ d = "any" => Empty(s)
    /\ s.err => s.last = "read" /\ s.ch = EOF /\ Empty(s)
    /\ s.last = "read" => Behind(s)

\* The file fits the disk, and the descriptor is no more than a buffer past it.
Fits(s) == Len(s.file) <= DISK /\ s.pos <= DISK + BUFSIZ

\* A stream that is not open is as fclose() leaves it.
Shut(s) == s.last = "closed" /\ s.buf = <<>> /\ s.ch = EOF /\ ~s.err /\ ~s.lost /\ s.acc # "none"

IInv ==
    /\ st \in Stream /\ open \in BOOLEAN /\ dir \in {"any", "read", "write"}
    /\ ~open => Shut(st) /\ dir = "any"
    /\ st.acc = "none" => st.buf = <<>>
    /\ Fits(st)
    /\ ~st.lost => Sound(st, dir)
    /\ LinesAreOut
-----------------------------------------------------------------------------
-----------------------------------------------------------------------------
(* The smallest of a set of natural numbers, and induction on a set of them: the library
   states it for an operator P(_), which the provers cannot instantiate. *)

LEMMA NatWellFounded ==
    \E R : IsWellFoundedOn(R, Nat) /\ \A x, y \in Nat : y < x => <<y, x>> \in R
<1>1. IsWellFoundedOn(OpToRel(<,Nat), Nat) BY NatLessThanWellFounded
<1>2. \A x, y \in Nat : y < x => <<y, x>> \in OpToRel(<,Nat) BY DEF OpToRel
<1>3. QED BY <1>1, <1>2

\* A set of natural numbers has a smallest element.
LEMMA LeastNat ==
    ASSUME NEW S \in SUBSET Nat, S # {}
    PROVE  \E m \in S : \A k \in S : m <= k
<1>1. PICK R : IsWellFoundedOn(R, Nat) /\ \A x, y \in Nat : y < x => <<y, x>> \in R
  BY NatWellFounded
<1>4. \E x \in S : \A y \in S : ~(<<y, x>> \in R) BY <1>1, WFMin
<1>5. PICK m \in S : \A k \in S : ~(<<k, m>> \in R) BY <1>4
<1>6. ASSUME NEW k \in S PROVE m <= k
  <2>1. ~(k < m) BY <1>1, <1>5, Zenon
  <2>2. QED BY <2>1
<1>7. QED BY <1>6

\* Induction.
LEMMA NatIndSet ==
    ASSUME NEW S, 0 \in S, \A n \in Nat : n \in S => n + 1 \in S
    PROVE  Nat \subseteq S
<1>1. SUFFICES ASSUME Nat \ S # {} PROVE FALSE OBVIOUS
<1>2. PICK m \in Nat \ S : \A k \in Nat \ S : m <= k BY <1>1, LeastNat
<1>3. m - 1 \in Nat /\ m - 1 \notin Nat \ S BY <1>2
<1>4. QED BY <1>2, <1>3
-----------------------------------------------------------------------------
(* Beginnings and ends of sequences. *)
LEMMA SameSeq ==
    ASSUME NEW S, NEW s \in Seq(S), NEW t \in Seq(S), Len(s) = Len(t),
           \A i \in 1 .. Len(s) : s[i] = t[i]
    PROVE  s = t
OBVIOUS

LEMMA AfterIs ==
    ASSUME NEW S, NEW s \in Seq(S), NEW n \in Nat
    PROVE  /\ After(s, n) \in Seq(S)
           /\ Len(After(s, n)) = Most(Len(s) - n, 0)
           /\ \A i \in 1 .. Len(After(s, n)) : After(s, n)[i] = s[n + i]
BY DEF After, Most

LEMMA FirstIs ==
    ASSUME NEW S, NEW s \in Seq(S), NEW n \in Nat
    PROVE  /\ First(s, n) \in Seq(S)
           /\ Len(First(s, n)) = Least(n, Len(s))
           /\ \A i \in 1 .. Len(First(s, n)) : First(s, n)[i] = s[i]
BY DEF First, Least

LEMMA BetweenIs ==
    ASSUME NEW S, NEW s \in Seq(S), NEW m \in Nat, NEW n \in Nat, m <= n, n <= Len(s)
    PROVE  /\ SubSeq(s, m + 1, n) \in Seq(S) /\ Len(SubSeq(s, m + 1, n)) = n - m
           /\ \A i \in 1 .. n - m : SubSeq(s, m + 1, n)[i] = s[m + i]
OBVIOUS

LEMMA BetweenBytes ==
    \A s \in Seq(Bytes), a, b \in Nat : a <= b /\ b <= Len(s) =>
       /\ SubSeq(s, a + 1, b) \in Seq(Bytes)
       /\ Len(SubSeq(s, a + 1, b)) = b - a
       /\ \A i \in 1 .. b - a : SubSeq(s, a + 1, b)[i] = s[a + i]
BY BetweenIs

LEMMA CatIs ==
    ASSUME NEW S, NEW s \in Seq(S), NEW t \in Seq(S)
    PROVE  /\ s \o t \in Seq(S) /\ Len(s \o t) = Len(s) + Len(t)
           /\ \A i \in 1 .. Len(s) : (s \o t)[i] = s[i]
           /\ \A i \in 1 .. Len(t) : (s \o t)[Len(s) + i] = t[i]
OBVIOUS

LEMMA NoBytes ==
    ASSUME NEW S, NEW s \in Seq(S)
    PROVE  /\ Len(s) = 0 <=> s = <<>>
           /\ s \o <<>> = s /\ <<>> \o s = s
           /\ After(s, 0) = s /\ First(s, 0) = <<>>
           /\ \A n \in Nat : n >= Len(s) => After(s, n) = <<>> /\ First(s, n) = s
<1>1. Len(s) = 0 <=> s = <<>> OBVIOUS
<1>2. s \o <<>> = s /\ <<>> \o s = s OBVIOUS
<1>3. First(s, 0) = <<>> BY DEF First, Least
<1>4. After(s, 0) = s BY DEF After
<1>5. \A n \in Nat : n >= Len(s) => After(s, n) = <<>>
  <2>1. TAKE n \in Nat
  <2>2. HAVE n >= Len(s)
  <2>3. After(s, n) \in Seq(S) /\ Len(After(s, n)) = 0 BY <2>2, AfterIs DEF Most
  <2>4. QED BY <2>3
<1>6. \A n \in Nat : n >= Len(s) => First(s, n) = s BY DEF First, Least
<1>7. QED BY <1>1, <1>2, <1>3, <1>4, <1>5, <1>6

LEMMA AfterAfter ==
    ASSUME NEW S, NEW s \in Seq(S), NEW m \in Nat, NEW n \in Nat
    PROVE  After(After(s, m), n) = After(s, m + n)
<1>1. /\ After(s, m) \in Seq(S) /\ Len(After(s, m)) = Most(Len(s) - m, 0)
      /\ \A i \in 1 .. Len(After(s, m)) : After(s, m)[i] = s[m + i]
  BY AfterIs
<1>2. /\ After(After(s, m), n) \in Seq(S)
      /\ Len(After(After(s, m), n)) = Most(Len(After(s, m)) - n, 0)
      /\ \A i \in 1 .. Len(After(After(s, m), n)) : After(After(s, m), n)[i] = After(s, m)[n + i]
  BY <1>1, AfterIs
<1>3. /\ After(s, m + n) \in Seq(S) /\ Len(After(s, m + n)) = Most(Len(s) - (m + n), 0)
      /\ \A i \in 1 .. Len(After(s, m + n)) : After(s, m + n)[i] = s[(m + n) + i]
  BY AfterIs
<1>4. Len(After(After(s, m), n)) = Len(After(s, m + n)) BY <1>1, <1>2, <1>3 DEF Most
<1>5. ASSUME NEW i \in 1 .. Len(After(s, m + n))
      PROVE  After(After(s, m), n)[i] = After(s, m + n)[i]
  <2>1. n + i \in 1 .. Len(After(s, m)) BY <1>1, <1>3 DEF Most
  <2>2. After(After(s, m), n)[i] = s[m + (n + i)] BY <1>1, <1>2, <1>4, <2>1
  <2>3. m + (n + i) = (m + n) + i OBVIOUS
  <2>4. QED BY <1>3, <2>2, <2>3
<1>6. QED BY <1>2, <1>3, <1>4, <1>5, SameSeq

LEMMA FirstThenAfter ==
    ASSUME NEW S, NEW s \in Seq(S), NEW n \in Nat
    PROVE  /\ First(s, n) \o After(s, n) = s
           /\ After(s, Len(First(s, n))) = After(s, n)
<1>1. /\ First(s, n) \in Seq(S) /\ Len(First(s, n)) = Least(n, Len(s))
      /\ \A i \in 1 .. Len(First(s, n)) : First(s, n)[i] = s[i]
  BY FirstIs
<1>2. /\ After(s, n) \in Seq(S) /\ Len(After(s, n)) = Most(Len(s) - n, 0)
      /\ \A i \in 1 .. Len(After(s, n)) : After(s, n)[i] = s[n + i]
  BY AfterIs
<1>3. First(s, n) \o After(s, n) = s
  <2> DEFINE f == First(s, n)
             g == After(s, n)
  <2>1. f \in Seq(S) /\ g \in Seq(S) BY <1>1, <1>2
  <2>2. /\ f \o g \in Seq(S) /\ Len(f \o g) = Len(f) + Len(g)
        /\ \A i \in 1 .. Len(f) : (f \o g)[i] = f[i]
        /\ \A i \in 1 .. Len(g) : (f \o g)[Len(f) + i] = g[i]
    BY <2>1, CatIs
  <2>3. Len(f) + Len(g) = Len(s) /\ (Len(f) = n \/ Len(g) = 0)
    <3>1. Len(f) = Least(n, Len(s)) /\ Len(g) = Most(Len(s) - n, 0) /\ Len(s) \in Nat
      BY <1>1, <1>2
    <3> HIDE DEF f, g
    <3>2. CASE n <= Len(s)
      <4>1. Len(f) = n /\ Len(g) = Len(s) - n BY <3>1, <3>2 DEF Least, Most
      <4>2. QED BY <3>1, <4>1
    <3>3. CASE n > Len(s)
      <4>1. Len(f) = Len(s) /\ Len(g) = 0 BY <3>1, <3>3 DEF Least, Most
      <4>2. QED BY <3>1, <4>1
    <3>4. QED BY <3>1, <3>2, <3>3
  <2>4. ASSUME NEW i \in 1 .. Len(s) PROVE (f \o g)[i] = s[i]
    <3>1. CASE i <= Len(f) BY <1>1, <2>2, <3>1
    <3>2. CASE i > Len(f)
      <4>1. i - Len(f) \in 1 .. Len(g) /\ Len(f) = n BY <2>1, <2>3, <3>2
      <4>2. (f \o g)[Len(f) + (i - Len(f))] = g[i - Len(f)] BY <2>2, <4>1
      <4>3. g[i - Len(f)] = s[n + (i - Len(f))] BY <1>2, <4>1
      <4>4. Len(f) + (i - Len(f)) = i /\ n + (i - Len(f)) = i BY <2>1, <4>1
      <4>5. QED BY <4>2, <4>3, <4>4
    <3>3. Len(f) \in Nat /\ i \in Nat BY <2>1
    <3> HIDE DEF f, g
    <3>4. i <= Len(f) \/ i > Len(f) BY <3>3
    <3>5. QED BY <3>1, <3>2, <3>4
  <2> HIDE DEF f, g
  <2>5. f \o g = s BY <2>2, <2>3, <2>4, SameSeq
  <2>6. QED BY <2>5 DEF f, g
<1>4. After(s, Len(First(s, n))) = After(s, n)
  <2>1. CASE n <= Len(s) BY <1>1, <2>1 DEF Least
  <2>2. CASE n > Len(s) BY <1>1, <2>2, NoBytes DEF Least
  <2>3. QED BY <2>1, <2>2
<1>5. QED BY <1>3, <1>4

LEMMA CatCat ==
    ASSUME NEW S, NEW s \in Seq(S), NEW t \in Seq(S), NEW u \in Seq(S)
    PROVE  (s \o t) \o u = s \o (t \o u)
BY SMTT(40)

LEMMA CatBytes == \A a, b, c \in Seq(Bytes) : (a \o b) \o c = a \o (b \o c)
BY CatCat

\* The end, and the beginning, of two sequences one behind the other.
LEMMA AfterCat ==
    ASSUME NEW S, NEW s \in Seq(S), NEW t \in Seq(S), NEW n \in Nat
    PROVE  After(s \o t, n) = IF n <= Len(s) THEN After(s, n) \o t ELSE After(t, n - Len(s))
<1>1. /\ s \o t \in Seq(S) /\ Len(s \o t) = Len(s) + Len(t)
      /\ \A i \in 1 .. Len(s) : (s \o t)[i] = s[i]
      /\ \A i \in 1 .. Len(t) : (s \o t)[Len(s) + i] = t[i]
  BY CatIs
<1>0. s \o t \in Seq(S) BY <1>1
<1>2. /\ After(s \o t, n) \in Seq(S) /\ Len(After(s \o t, n)) = Most(Len(s \o t) - n, 0)
      /\ \A i \in 1 .. Len(After(s \o t, n)) : After(s \o t, n)[i] = (s \o t)[n + i]
  BY <1>0, AfterIs
<1>3. CASE n <= Len(s)
  <2>1. /\ After(s, n) \in Seq(S) /\ Len(After(s, n)) = Len(s) - n
        /\ \A i \in 1 .. Len(s) - n : After(s, n)[i] = s[n + i]
    BY <1>3, AfterIs DEF Most
  <2> DEFINE k == Len(s) - n
             a == After(s, n)
  <2>0. k \in Nat /\ Len(s) = n + k /\ Len(a) = k BY <1>3, <2>1
  <2>9. a \in Seq(S) BY <2>1
  <2> HIDE DEF k, a
  <2>2. /\ a \o t \in Seq(S) /\ Len(a \o t) = Len(a) + Len(t)
        /\ \A i \in 1 .. Len(a) : (a \o t)[i] = a[i]
        /\ \A i \in 1 .. Len(t) : (a \o t)[Len(a) + i] = t[i]
    BY <2>9, CatIs
  <2>3. Len(After(s \o t, n)) = k + Len(t) BY <1>1, <1>2, <1>3, <2>0 DEF Most
  <2>4. ASSUME NEW i \in 1 .. k + Len(t) PROVE After(s \o t, n)[i] = (a \o t)[i]
    <3>1. After(s \o t, n)[i] = (s \o t)[n + i] BY <1>2, <2>3
    <3>2. CASE i <= k
      <4>1. i \in 1 .. k /\ n + i \in 1 .. Len(s) BY <2>0, <3>2
      <4>2. (s \o t)[n + i] = s[n + i] BY <1>1, <4>1
      <4>3. a[i] = s[n + i] BY <2>1, <4>1 DEF k, a
      <4>4. (a \o t)[i] = a[i] BY <2>0, <2>2, <4>1
      <4>5. QED BY <3>1, <4>2, <4>3, <4>4
    <3>3. CASE i > k
      <4>1. i - k \in 1 .. Len(t) BY <2>0, <3>3
      <4>2. (s \o t)[Len(s) + (i - k)] = t[i - k] BY <1>1, <4>1
      <4>3. (a \o t)[Len(a) + (i - k)] = t[i - k] BY <2>2, <4>1
      <4>4. Len(s) + (i - k) = n + i /\ Len(a) + (i - k) = i BY <2>0
      <4>5. QED BY <3>1, <4>2, <4>3, <4>4
    <3>4. QED BY <2>0, <3>2, <3>3
  <2>5. After(s \o t, n) = a \o t BY <1>2, <2>0, <2>2, <2>3, <2>4, SameSeq
  <2>6. QED BY <1>3, <2>5 DEF a
<1>4. CASE n > Len(s)
  <2>1. n - Len(s) \in Nat BY <1>4
  <2>2. /\ After(t, n - Len(s)) \in Seq(S)
        /\ Len(After(t, n - Len(s))) = Most(Len(t) - (n - Len(s)), 0)
        /\ \A i \in 1 .. Len(After(t, n - Len(s))) :
              After(t, n - Len(s))[i] = t[(n - Len(s)) + i]
    BY <2>1, AfterIs
  <2>3. Len(After(s \o t, n)) = Len(After(t, n - Len(s))) BY <1>1, <1>2, <1>4, <2>2 DEF Most
  <2>4. ASSUME NEW i \in 1 .. Len(After(s \o t, n))
        PROVE  After(s \o t, n)[i] = After(t, n - Len(s))[i]
    <3>1. (n - Len(s)) + i \in 1 .. Len(t) BY <1>4, <2>2, <2>3 DEF Most
    <3>2. (s \o t)[Len(s) + ((n - Len(s)) + i)] = t[(n - Len(s)) + i] BY <1>1, <3>1
    <3>3. Len(s) + ((n - Len(s)) + i) = n + i BY <2>1
    <3>4. QED BY <1>2, <2>2, <2>3, <3>2, <3>3
  <2>5. QED BY SMTT(40), <1>2, <1>4, <2>2, <2>3, <2>4, SameSeq
<1>5. QED BY <1>3, <1>4

LEMMA FirstCat ==
    ASSUME NEW S, NEW s \in Seq(S), NEW t \in Seq(S), NEW n \in Nat
    PROVE  First(s \o t, n) = IF n <= Len(s) THEN First(s, n) ELSE s \o First(t, n - Len(s))
<1>1. /\ s \o t \in Seq(S) /\ Len(s \o t) = Len(s) + Len(t)
      /\ \A i \in 1 .. Len(s) : (s \o t)[i] = s[i]
      /\ \A i \in 1 .. Len(t) : (s \o t)[Len(s) + i] = t[i]
  BY CatIs
<1>2. /\ First(s \o t, n) \in Seq(S) /\ Len(First(s \o t, n)) = Least(n, Len(s \o t))
      /\ \A i \in 1 .. Len(First(s \o t, n)) : First(s \o t, n)[i] = (s \o t)[i]
  BY <1>1, FirstIs
<1>3. CASE n <= Len(s)
  <2>1. /\ First(s, n) \in Seq(S) /\ Len(First(s, n)) = n
        /\ \A i \in 1 .. n : First(s, n)[i] = s[i]
    BY <1>3, FirstIs DEF Least
  <2>2. Len(First(s \o t, n)) = n BY <1>1, <1>2, <1>3 DEF Least
  <2>3. \A i \in 1 .. n : First(s \o t, n)[i] = First(s, n)[i] BY <1>1, <1>2, <1>3, <2>1, <2>2
  <2>4. QED BY <1>2, <1>3, <2>1, <2>2, <2>3, SameSeq
<1>4. CASE n > Len(s)
  <2>1. n - Len(s) \in Nat BY <1>4
  <2>2. /\ First(t, n - Len(s)) \in Seq(S)
        /\ Len(First(t, n - Len(s))) = Least(n - Len(s), Len(t))
        /\ \A i \in 1 .. Len(First(t, n - Len(s))) : First(t, n - Len(s))[i] = t[i]
    BY <2>1, FirstIs
  <2> DEFINE f == First(t, n - Len(s))
  <2>3. /\ s \o f \in Seq(S) /\ Len(s \o f) = Len(s) + Len(f)
        /\ \A i \in 1 .. Len(s) : (s \o f)[i] = s[i]
        /\ \A i \in 1 .. Len(f) : (s \o f)[Len(s) + i] = f[i]
    BY <2>2, CatIs
  <2>4. Len(First(s \o t, n)) = Len(s) + Len(f) /\ Len(f) <= Len(t)
    <3>1. n - Len(s) <= Len(t) <=> n <= Len(s \o t) BY <1>1
    <3>2. CASE n <= Len(s \o t)
      <4>0. n - Len(s) <= Len(t) /\ Len(t) \in Nat BY <3>1, <3>2
      <4>1. Len(f) = n - Len(s)
        <5>1. Least(n - Len(s), Len(t)) = n - Len(s) BY <2>1, <4>0 DEF Least
        <5>2. Len(f) = Least(n - Len(s), Len(t)) BY <2>2
        <5> HIDE DEF f
        <5>3. QED BY <5>1, <5>2
      <4>2. Len(First(s \o t, n)) = n
        <5>1. Len(s \o t) \in Nat BY <1>1
        <5>2. Least(n, Len(s \o t)) = n BY <3>2, <5>1 DEF Least
        <5>3. QED BY <1>2, <5>2
      <4>3. QED BY <3>1, <3>2, <4>1, <4>2
    <3>3. CASE n > Len(s \o t)
      <4>1. Len(f) = Len(t) BY <1>1, <2>2, <3>1, <3>3 DEF Least
      <4>2. Len(First(s \o t, n)) = Len(s \o t) BY <1>1, <1>2, <3>3 DEF Least
      <4>3. QED BY SMTT(40), <1>1, <4>1, <4>2
    <3>4. QED BY <1>1, <3>2, <3>3
  <2> HIDE DEF f
  <2>5. ASSUME NEW i \in 1 .. Len(s) + Len(f) PROVE First(s \o t, n)[i] = (s \o f)[i]
    <3>1. First(s \o t, n)[i] = (s \o t)[i] BY <1>2, <2>4
    <3>2. CASE i <= Len(s) BY <1>1, <2>3, <3>1, <3>2
    <3>3. CASE i > Len(s)
      <4>1. PICK k \in 1 .. Len(f) : i = Len(s) + k
        <5>1. i - Len(s) \in 1 .. Len(f) BY <3>3
        <5>2. QED BY SMTT(40), <5>1
      <4>2. k \in 1 .. Len(t) /\ f[k] = t[k] BY <2>2, <2>4, <4>1 DEF f
      <4>3. QED BY <1>1, <2>3, <3>1, <4>1, <4>2
    <3>4. QED BY <3>2, <3>3
  <2>6. First(s \o t, n) = s \o f BY <1>2, <2>3, <2>4, <2>5, SameSeq
  <2>7. QED BY <1>4, <2>6 DEF f
<1>5. QED BY <1>3, <1>4
LEMMA FirstOf ==
    ASSUME NEW S, NEW s \in Seq(S), NEW t \in Seq(S)
    PROVE  First(s \o t, Len(s)) = s /\ After(s \o t, Len(s)) = t
<1>1. Len(s) \in Nat /\ Len(s) >= Len(s) OBVIOUS
<1>2. First(s \o t, Len(s)) = First(s, Len(s)) BY <1>1, FirstCat
<1>3. After(s \o t, Len(s)) = After(s, Len(s)) \o t BY <1>1, AfterCat
<1>4. First(s, Len(s)) = s /\ After(s, Len(s)) = <<>> BY <1>1, NoBytes
<1>5. QED BY <1>2, <1>3, <1>4, NoBytes
-----------------------------------------------------------------------------
(* Bytes written over others. *)

\* o is f with the bytes of b from offset p on.
IsOver(o, f, p, b) ==
    /\ Len(o) = Most(Len(f), p + Len(b))
    /\ \A i \in 1 .. Most(Len(f), p + Len(b)) :
          /\ i > p /\ i <= p + Len(b) => o[i] = b[i - p]
          /\ i <= p /\ i > Len(f) => o[i] = Hole
          /\ i <= Len(f) /\ (i <= p \/ i > p + Len(b)) => o[i] = f[i]

LEMMA OverwriteIs ==
    ASSUME NEW S, Hole \in S, NEW f \in Seq(S), NEW p \in Nat, NEW b \in Seq(S), b # <<>>
    PROVE  Overwrite(f, p, b) \in Seq(S) /\ IsOver(Overwrite(f, p, b), f, p, b)
<1> DEFINE n == Most(Len(f), p + Len(b))
           Byte(i) == CASE i > p /\ i <= p + Len(b) -> b[i - p]
                        [] i <= p /\ i > Len(f) -> Hole
                        [] OTHER -> f[i]
<1>1. n \in Nat /\ n >= Len(f) /\ n >= p + Len(b) /\ (n = Len(f) \/ n = p + Len(b))
  BY DEF Most
<1> HIDE DEF n
<1>2. ASSUME NEW i \in 1 .. n
      PROVE  /\ i > p /\ i <= p + Len(b) => Byte(i) = b[i - p] /\ b[i - p] \in S
             /\ i <= p /\ i > Len(f) => Byte(i) = Hole
             /\ i <= Len(f) /\ (i <= p \/ i > p + Len(b)) => Byte(i) = f[i] /\ f[i] \in S
  <2>1. i > p /\ i <= p + Len(b) => Byte(i) = b[i - p] /\ b[i - p] \in S
    <3>1. SUFFICES ASSUME i > p, i <= p + Len(b) PROVE Byte(i) = b[i - p] /\ b[i - p] \in S
      OBVIOUS
    <3>2. i - p \in 1 .. Len(b) BY <3>1
    <3>3. b[i - p] \in S BY <3>2
    <3>4. ~(i <= p /\ i > Len(f)) BY <3>1
    <3>5. QED BY <3>1, <3>3, <3>4
  <2>2. i <= p /\ i > Len(f) => Byte(i) = Hole
    <3>1. SUFFICES ASSUME i <= p, i > Len(f) PROVE Byte(i) = Hole OBVIOUS
    <3>2. ~(i > p /\ i <= p + Len(b)) BY <3>1
    <3>3. QED BY <3>1, <3>2
  <2>3. i <= Len(f) /\ (i <= p \/ i > p + Len(b)) => Byte(i) = f[i] /\ f[i] \in S
    <3>1. SUFFICES ASSUME i <= Len(f), i <= p \/ i > p + Len(b)
                   PROVE  Byte(i) = f[i] /\ f[i] \in S
      OBVIOUS
    <3>2. ~(i > p /\ i <= p + Len(b)) /\ ~(i <= p /\ i > Len(f)) BY <3>1
    <3>3. i \in 1 .. Len(f) BY <3>1
    <3>4. f[i] \in S BY <3>3
    <3>5. QED BY <3>2, <3>4
  <2>4. QED BY <2>1, <2>2, <2>3
<1>3. \A i \in 1 .. n : Byte(i) \in S
  <2>1. TAKE i \in 1 .. n
  <2> HIDE DEF Byte
  <2>2. CASE i > p /\ i <= p + Len(b) BY <1>2, <2>2
  <2>3. CASE i <= p /\ i > Len(f) BY <1>2, <2>3
  <2>4. CASE i <= Len(f) /\ (i <= p \/ i > p + Len(b)) BY <1>2, <2>4
  <2>5. QED BY <1>1, <2>2, <2>3, <2>4
<1>4. Overwrite(f, p, b) = [i \in 1 .. n |-> Byte(i)] BY DEF Overwrite, n
<1> HIDE DEF Byte
<1>5. Overwrite(f, p, b) \in Seq(S) /\ Len(Overwrite(f, p, b)) = n BY <1>1, <1>3, <1>4
<1>6. \A i \in 1 .. n : Overwrite(f, p, b)[i] = Byte(i) BY <1>4
<1>7. QED BY <1>2, <1>5, <1>6 DEF n, IsOver

LEMMA OverwriteTyped ==
    ASSUME NEW S, Hole \in S, NEW f \in Seq(S), NEW p \in Nat, NEW b \in Seq(S)
    PROVE  /\ Overwrite(f, p, b) \in Seq(S) /\ Overwrite(f, p, <<>>) = f
           /\ b # <<>> => Len(Overwrite(f, p, b)) = Most(Len(f), p + Len(b))
<1>1. Overwrite(f, p, <<>>) = f BY DEF Overwrite
<1>2. b # <<>> => Overwrite(f, p, b) \in Seq(S) /\ IsOver(Overwrite(f, p, b), f, p, b)
  BY OverwriteIs
<1>3. QED BY <1>1, <1>2 DEF IsOver

\* Bytes written behind bytes written.
LEMMA OverwriteTwice ==
    ASSUME NEW S, Hole \in S, NEW f \in Seq(S), NEW p \in Nat,
           NEW a \in Seq(S), NEW b \in Seq(S)
    PROVE  Overwrite(Overwrite(f, p, a), p + Len(a), b) = Overwrite(f, p, a \o b)
<1>1. CASE a = <<>>
  <2>1. Overwrite(f, p, a) = f /\ p + Len(a) = p /\ a \o b = b
    BY <1>1, OverwriteTyped, NoBytes
  <2>2. QED BY <2>1
<1>2. CASE b = <<>>
  <2>1. a \o b = a BY <1>2, NoBytes
  <2>2. Overwrite(Overwrite(f, p, a), p + Len(a), b) = Overwrite(f, p, a)
    BY <1>2 DEF Overwrite
  <2>3. QED BY <2>1, <2>2
<1>3. CASE a # <<>> /\ b # <<>>
  <2> DEFINE g == Overwrite(f, p, a)
             q == p + Len(a)
             c == a \o b
             l == Overwrite(g, q, b)
             r == Overwrite(f, p, c)
  <2>1. /\ Len(a) \in Nat \ {0} /\ Len(b) \in Nat \ {0} /\ Len(f) \in Nat /\ q \in Nat
        /\ q = p + Len(a)
    BY <1>3, NoBytes
  <2>2. /\ c \in Seq(S) /\ Len(c) = Len(a) + Len(b)
        /\ \A i \in 1 .. Len(a) : c[i] = a[i]
        /\ \A i \in 1 .. Len(b) : c[Len(a) + i] = b[i]
    BY CatIs
  <2>3. c \in Seq(S) /\ c # <<>> BY <2>1, <2>2
  <2>4. g \in Seq(S) BY <1>3, OverwriteIs
  <2>5. IsOver(g, f, p, a) BY <1>3, OverwriteIs
  <2> HIDE DEF g, q, c
  <2>6. l \in Seq(S) /\ IsOver(l, g, q, b) BY <1>3, <2>1, <2>4, OverwriteIs
  <2>7. r \in Seq(S) /\ IsOver(r, f, p, c) BY <2>3, OverwriteIs
  <2> HIDE DEF l, r
  <2> DEFINE n == Most(Len(g), q + Len(b))
  <2>8. /\ n = Most(Len(f), p + Len(c)) /\ n \in Nat
        /\ Len(g) \in Nat /\ Len(g) >= q /\ Len(g) >= Len(f) /\ (Len(g) = Len(f) \/ Len(g) = q)
        /\ n >= Len(g) /\ n >= q + Len(b) /\ (n = Len(g) \/ n = q + Len(b))
    BY <2>1, <2>2, <2>5 DEF Most, IsOver
  <2> HIDE DEF n
  <2>9. ASSUME NEW i \in 1 .. n PROVE l[i] = r[i]
    <3>1. CASE i <= p /\ i > Len(f)
      <4>1. i \in 1 .. Len(g) /\ i <= q BY <2>1, <2>8, <3>1
      <4>2. l[i] = g[i] BY <2>6, <2>8, <4>1 DEF n, IsOver
      <4>3. g[i] = Hole BY <2>5, <3>1, <4>1 DEF IsOver
      <4>4. r[i] = Hole BY <2>7, <2>8, <3>1 DEF IsOver
      <4>5. QED BY <4>2, <4>3, <4>4
    <3>2. CASE i <= p /\ i <= Len(f)
      <4>1. i \in 1 .. Len(g) /\ i <= q BY <2>1, <2>8, <3>2
      <4>2. l[i] = g[i] BY <2>6, <2>8, <4>1 DEF n, IsOver
      <4>3. g[i] = f[i] BY <2>5, <3>2, <4>1 DEF IsOver
      <4>4. r[i] = f[i] BY <2>7, <2>8, <3>2 DEF IsOver
      <4>5. QED BY <4>2, <4>3, <4>4
    <3>3. CASE i > p /\ i <= q
      <4>1. i \in 1 .. Len(g) BY <2>1, <2>8, <3>3
      <4>2. l[i] = g[i] BY <2>6, <2>8, <3>3, <4>1 DEF n, IsOver
      <4>3. g[i] = a[i - p] BY <2>1, <2>5, <3>3, <4>1 DEF IsOver
      <4>4. i - p \in 1 .. Len(a) /\ i <= p + Len(c) BY <2>1, <2>2, <3>3
      <4>5. r[i] = c[i - p] BY <2>7, <2>8, <3>3, <4>4 DEF IsOver
      <4>6. c[i - p] = a[i - p] BY <2>2, <4>4
      <4>7. QED BY <4>2, <4>3, <4>5, <4>6
    <3>4. CASE i > q /\ i <= q + Len(b)
      <4>1. l[i] = b[i - q] BY <2>6, <2>8, <3>4 DEF n, IsOver
      <4>2. /\ i - q \in 1 .. Len(b) /\ i > p /\ i <= p + Len(c)
            /\ Len(a) + (i - q) = i - p
        BY <2>1, <2>2, <3>4
      <4>3. r[i] = c[i - p] BY <2>7, <2>8, <4>2 DEF IsOver
      <4>4. c[Len(a) + (i - q)] = b[i - q] BY <2>2, <4>2
      <4>5. QED BY <4>1, <4>2, <4>3, <4>4
    <3>5. CASE i > q + Len(b)
      <4>1. i <= Len(g) /\ i <= Len(f) /\ i > p /\ i > p + Len(c) BY <2>1, <2>2, <2>8, <3>5
      <4>2. i \in 1 .. Len(g) /\ i > q /\ i > p + Len(a) BY <2>1, <3>5, <4>1
      <4>3. l[i] = g[i] BY <2>6, <2>8, <3>5, <4>1 DEF n, IsOver
      <4>4. g[i] = f[i] BY <2>5, <4>1, <4>2 DEF IsOver
      <4>5. r[i] = f[i] BY <2>7, <2>8, <4>1 DEF IsOver
      <4>6. QED BY <4>3, <4>4, <4>5
    <3>6. QED BY <2>1, <3>1, <3>2, <3>3, <3>4, <3>5
  <2>10. Len(l) = n /\ Len(r) = n BY <2>6, <2>7, <2>8 DEF n, IsOver
  <2>11. l = r BY <2>6, <2>7, <2>9, <2>10, SameSeq
  <2>12. QED BY <2>11 DEF l, r, g, q, c
<1>4. QED BY <1>1, <1>2, <1>3
\* The same for the bytes of a file.
LEMMA OverBytes ==
    \A f, a \in Seq(Bytes), p \in Nat :
       /\ Overwrite(f, p, a) \in Seq(Bytes)
       /\ a = <<>> => Overwrite(f, p, a) = f
       /\ a # <<>> => Len(Overwrite(f, p, a)) = Most(Len(f), p + Len(a))
<1>1. TAKE f, a \in Seq(Bytes), p \in Nat
<1>2. Hole \in Bytes BY DEF Bytes
<1>3. a = <<>> => Overwrite(f, p, a) = f BY DEF Overwrite
<1>4. a # <<>> => Overwrite(f, p, a) \in Seq(Bytes) BY <1>2, OverwriteIs
<1>5. a # <<>> => Len(Overwrite(f, p, a)) = Most(Len(f), p + Len(a))
  BY <1>2, OverwriteIs DEF IsOver
<1>6. QED BY <1>3, <1>4, <1>5

LEMMA OverBytesTwice ==
    \A f, a, b \in Seq(Bytes), p \in Nat :
       Overwrite(Overwrite(f, p, a), p + Len(a), b) = Overwrite(f, p, a \o b)
<1>1. TAKE f, a, b \in Seq(Bytes), p \in Nat
<1>2. Hole \in Bytes BY DEF Bytes
<1>3. QED BY <1>2, OverwriteTwice
-----------------------------------------------------------------------------
(* A stream that is read. *)

LEMMA BytesHole == Hole \in Bytes /\ Chars \subseteq Bytes /\ NL \in Chars /\ EOF \notin Chars
                   /\ BUFSIZ \in Nat \ {0} /\ DISK \in Nat
BY StdioAssumption DEF Bytes, EOF

LEMMA StreamIs ==
    ASSUME NEW s \in Stream
    PROVE  /\ s.file \in Seq(Bytes) /\ s.buf \in Seq(Bytes)
           /\ s.pos \in Nat /\ s.ptr \in Nat /\ s.ptr <= End(s) /\ End(s) <= BUFSIZ
           /\ End(s) \in Nat /\ Unread(s) \in Nat /\ Unread(s) = End(s) - s.ptr
           /\ s.lost \in BOOLEAN /\ s.err \in BOOLEAN /\ s.there \in BOOLEAN
           /\ s.last \in {"closed", "read", "write"} /\ s.acc \in Access
           /\ s.can \in SUBSET {"read", "write"} /\ s.ch \in Chars \cup {EOF}
<1>1. s \in FileState /\ s.ptr <= End(s) /\ End(s) <= BUFSIZ BY DEF Stream
<1>2. s.file \in Seq(Bytes) /\ s.buf \in Seq(Bytes) /\ s.pos \in Nat /\ s.ptr \in Nat
  BY <1>1 DEF FileState
<1>3. /\ s.lost \in BOOLEAN /\ s.err \in BOOLEAN /\ s.there \in BOOLEAN
      /\ s.last \in {"closed", "read", "write"} /\ s.acc \in Access
      /\ s.can \in SUBSET {"read", "write"} /\ s.ch \in Chars \cup {EOF}
  BY <1>1 DEF FileState
<1>4. End(s) \in Nat BY <1>2 DEF End
<1>5. Unread(s) \in Nat /\ Unread(s) = End(s) - s.ptr BY <1>1, <1>2, <1>4 DEF Unread
<1>6. QED BY <1>1, <1>2, <1>3, <1>4, <1>5

LEMMA HeldIs ==
    ASSUME NEW s \in Stream
    PROVE  /\ Held(s) \in Seq(Bytes) /\ Len(Held(s)) = Unread(s)
           /\ Held(s) = <<>> <=> Empty(s)
           /\ Unread(s) = 0 <=> Empty(s)
           /\ \A i \in 1 .. Unread(s) : Held(s)[i] = s.buf[s.ptr + i]
           /\ Rest(s) \in Seq(Bytes)
<1>1. /\ s.file \in Seq(Bytes) /\ s.buf \in Seq(Bytes) /\ s.pos \in Nat /\ s.ptr \in Nat
      /\ s.ptr <= End(s) /\ End(s) \in Nat /\ Unread(s) = End(s) - s.ptr /\ Unread(s) \in Nat
  BY StreamIs
<1>2. /\ Held(s) \in Seq(Bytes) /\ Len(Held(s)) = Most(Len(s.buf) - s.ptr, 0)
      /\ \A i \in 1 .. Len(Held(s)) : Held(s)[i] = s.buf[s.ptr + i]
  BY <1>1, AfterIs DEF Held
<1>3. Len(Held(s)) = Unread(s) BY <1>1, <1>2 DEF Most, End
<1>4. Unread(s) = 0 <=> Empty(s) BY <1>1 DEF Empty
<1>5. Held(s) = <<>> <=> Len(Held(s)) = 0 BY <1>2, NoBytes
<1>6. After(s.file, s.pos) \in Seq(Bytes) BY <1>1, AfterIs
<1>7. Rest(s) \in Seq(Bytes) BY <1>2, <1>6, CatIs DEF Rest
<1>8. QED BY <1>2, <1>3, <1>4, <1>5, <1>7

\* What reading leaves alone.
SameFile(s, t) ==
    /\ t.file = s.file /\ t.there = s.there /\ t.lost = s.lost /\ t.can = s.can
    /\ t.last = s.last /\ t.acc = s.acc /\ t.ch = s.ch

\* A reader of s that takes the bytes of b has t.
Consumes(s, b, t) ==
    /\ t \in Stream /\ SameFile(s, t)
    /\ b \in Seq(Bytes) /\ Rest(t) \in Seq(Bytes)
    /\ Rest(s) = b \o Rest(t) /\ At(t) = At(s) + Len(b)
    /\ t.pos <= Most(s.pos, Len(s.file))

LEMMA ConsumesTwice ==
    ASSUME NEW s \in Stream, NEW t, NEW u, NEW b, NEW c,
           Consumes(s, b, t), Consumes(t, c, u)
    PROVE  Consumes(s, b \o c, u)
<1>1. /\ t \in Stream /\ u \in Stream /\ SameFile(s, u)
      /\ b \in Seq(Bytes) /\ c \in Seq(Bytes) /\ Rest(u) \in Seq(Bytes)
      /\ t.file = s.file
  BY DEF Consumes, SameFile
<1>2. b \o c \in Seq(Bytes) /\ Len(b \o c) = Len(b) + Len(c) BY <1>1, CatIs
<1>3. Rest(s) = (b \o c) \o Rest(u)
  <2>1. Rest(s) = b \o (c \o Rest(u)) BY DEF Consumes
  <2>2. QED BY <1>1, <2>1, CatBytes
<1>4. At(u) = At(s) + Len(b \o c)
  <2>1. At(t) = At(s) + Len(b) /\ At(u) = At(t) + Len(c) BY DEF Consumes
  <2>2. At(s) \in Int /\ Len(b) \in Nat /\ Len(c) \in Nat BY <1>1, StreamIs DEF At
  <2>3. QED BY <1>2, <2>1, <2>2
<1>5. u.pos <= Most(s.pos, Len(s.file))
  <2>1. u.pos <= Most(t.pos, Len(s.file)) /\ t.pos <= Most(s.pos, Len(s.file))
    BY <1>1 DEF Consumes
  <2>2. u.pos \in Nat /\ t.pos \in Nat /\ s.pos \in Nat /\ Len(s.file) \in Nat BY <1>1, StreamIs
  <2>3. QED BY <2>1, <2>2 DEF Most
<1>6. QED BY <1>1, <1>2, <1>3, <1>4, <1>5 DEF Consumes

LEMMA StillBehind ==
    ASSUME NEW s \in Stream, NEW t, NEW b, Consumes(s, b, t), Behind(s)
    PROVE  Behind(t) /\ Rest(s) = After(s.file, At(s)) /\ At(s) \in Nat
<1>1. /\ t \in Stream /\ b \in Seq(Bytes) /\ Rest(t) \in Seq(Bytes)
      /\ Rest(s) = b \o Rest(t) /\ At(t) = At(s) + Len(b) /\ t.file = s.file
  BY DEF Consumes, SameFile
<1>2. At(s) \in Nat /\ Rest(s) = After(s.file, At(s)) BY StreamIs DEF Behind, At
<1>3. Len(b) \in Nat /\ s.file \in Seq(Bytes) BY <1>1, StreamIs
<1>4. After(Rest(s), Len(b)) = Rest(t)
  <2>1. After(b \o Rest(t), Len(b)) = After(b, Len(b)) \o Rest(t) BY SMTT(40), <1>1, <1>3, AfterCat
  <2>2. After(b, Len(b)) = <<>> BY <1>1, <1>3, NoBytes
  <2>3. QED BY <1>1, <2>1, <2>2, NoBytes
<1>5. After(Rest(s), Len(b)) = After(s.file, At(s) + Len(b)) BY <1>2, <1>3, AfterAfter
<1>6. QED BY <1>1, <1>2, <1>3, <1>4, <1>5 DEF Behind

\* The next k bytes of the buffer.
LEMMA TakeHeld ==
    ASSUME NEW s \in Stream, NEW k \in Nat, k <= Unread(s)
    PROVE  Consumes(s, First(Held(s), k), [s EXCEPT !.ptr = @ + k])
<1> DEFINE t == [s EXCEPT !.ptr = @ + k]
           b == First(Held(s), k)
<1>0. s \in FileState BY DEF Stream
<1>1. /\ t.ptr = s.ptr + k /\ t.buf = s.buf /\ t.pos = s.pos /\ t.file = s.file
      /\ SameFile(s, t)
  BY <1>0 DEF FileState, SameFile
<1>2. /\ s.file \in Seq(Bytes) /\ s.buf \in Seq(Bytes) /\ s.pos \in Nat /\ s.ptr \in Nat
      /\ s.ptr <= End(s) /\ End(s) <= BUFSIZ /\ End(s) \in Nat
      /\ Unread(s) = End(s) - s.ptr /\ Unread(s) \in Nat
  BY StreamIs
<1>3. t \in FileState
  <2>1. s.ptr + k \in Nat BY <1>2
  <2>2. QED BY <1>0, <2>1 DEF FileState
<1> HIDE DEF t
<1>4. t \in Stream /\ End(t) = End(s)
  <2>1. End(t) = End(s) BY <1>1 DEF End
  <2>2. QED BY <1>1, <1>2, <1>3, <2>1 DEF Stream
<1>5. Held(t) = After(Held(s), k)
  <2>1. Held(t) = After(s.buf, s.ptr + k) BY <1>1 DEF Held
  <2>2. Held(s) = After(s.buf, s.ptr) BY DEF Held
  <2>3. s.buf \in Seq(Bytes) /\ s.ptr \in Nat BY <1>2
  <2>4. After(After(s.buf, s.ptr), k) = After(s.buf, s.ptr + k) BY <2>3, AfterAfter
  <2>5. QED BY <2>1, <2>2, <2>4
<1>6. Held(s) \in Seq(Bytes) /\ Len(Held(s)) = Unread(s) BY HeldIs
<1>7. b \in Seq(Bytes) /\ Len(b) = k
  <2>1. Held(s) \in Seq(Bytes) BY <1>6
  <2>2. b \in Seq(Bytes) /\ Len(b) = Least(k, Len(Held(s))) BY <2>1, FirstIs
  <2>3. k <= Len(Held(s)) /\ Len(Held(s)) \in Nat BY <1>2, <1>6
  <2>4. Least(k, Len(Held(s))) = k BY <2>3 DEF Least
  <2>5. QED BY <2>2, <2>4
<1>8. Held(s) = b \o Held(t) BY <1>5, <1>6, FirstThenAfter
<1>9. Held(t) \in Seq(Bytes) /\ Rest(t) \in Seq(Bytes) BY <1>4, HeldIs
<1>10. After(s.file, s.pos) \in Seq(Bytes) BY <1>2, AfterIs
<1>11. Rest(s) = b \o Rest(t)
  <2>1. Rest(s) = (b \o Held(t)) \o After(s.file, s.pos) BY <1>8 DEF Rest
  <2>2. Rest(t) = Held(t) \o After(s.file, s.pos) BY <1>1 DEF Rest
  <2>3. (b \o Held(t)) \o After(s.file, s.pos) = b \o (Held(t) \o After(s.file, s.pos))
    BY <1>7, <1>9, <1>10, CatBytes
  <2>4. QED BY <2>1, <2>2, <2>3
<1>12. At(t) = At(s) + Len(b)
  <2>1. Unread(t) = Unread(s) - k BY <1>1, <1>2, <1>4 DEF Unread
  <2>2. QED BY <1>1, <1>2, <1>7, <2>1 DEF At
<1>13. t.pos <= Most(s.pos, Len(s.file)) BY <1>1, <1>2 DEF Most
<1> HIDE DEF b
<1>14. Consumes(s, b, t) BY <1>1, <1>4, <1>7, <1>9, <1>11, <1>12, <1>13 DEF Consumes
<1>15. QED BY <1>14 DEF t, b

LEMMA DevReadIs ==
    ASSUME NEW s \in Stream, NEW n \in Nat
    PROVE  /\ After(s.file, s.pos) \in Seq(Bytes)
           /\ DevRead(s, n) \in Seq(Bytes)
           /\ DevRead(s, n) = First(After(s.file, s.pos), n)
           /\ Len(DevRead(s, n)) <= n
           /\ Len(DevRead(s, n)) < n =>
                 Len(DevRead(s, n)) = Len(After(s.file, s.pos))
           /\ s.pos + Len(DevRead(s, n)) \in Nat
           /\ s.pos + Len(DevRead(s, n)) <= Most(s.pos, Len(s.file))
           /\ After(s.file, s.pos) = DevRead(s, n) \o After(s.file, s.pos + Len(DevRead(s, n)))
<1> DEFINE a == After(s.file, s.pos)
           d == DevRead(s, n)
<1>1. s.file \in Seq(Bytes) /\ s.pos \in Nat /\ Len(s.file) \in Nat BY StreamIs
<1>2. a \in Seq(Bytes) /\ Len(a) = Most(Len(s.file) - s.pos, 0) BY <1>1, AfterIs
<1>3. d = First(a, n) BY DEF DevRead
<1>4. After(s.file, s.pos + Len(d)) = After(a, Len(d))
  <2>1. d \in Seq(Bytes) BY <1>2, <1>3, FirstIs
  <2>2. Len(d) \in Nat BY <2>1
  <2>3. QED BY <1>1, <2>2, AfterAfter
<1> HIDE DEF a, d
<1>5. d \in Seq(Bytes) /\ Len(d) = Least(n, Len(a)) BY <1>2, <1>3, FirstIs
<1>6. Len(d) \in Nat /\ Len(a) \in Nat BY <1>2, <1>5
<1>7. Len(d) <= n /\ (Len(d) < n => Len(d) = Len(a)) /\ Len(d) <= Len(a)
  BY <1>5, <1>6 DEF Least
<1>8. s.pos + Len(d) \in Nat /\ s.pos + Len(d) <= Most(s.pos, Len(s.file))
  <2>1. CASE s.pos <= Len(s.file)
    <3>1. Len(a) = Len(s.file) - s.pos BY <1>1, <1>2, <2>1 DEF Most
    <3>2. QED BY <1>1, <1>6, <1>7, <2>1, <3>1 DEF Most
  <2>2. CASE s.pos > Len(s.file)
    <3>1. Len(a) = 0 BY <1>1, <1>2, <2>2 DEF Most
    <3>2. QED BY <1>1, <1>6, <1>7, <2>2, <3>1 DEF Most
  <2>3. QED BY <1>1, <2>1, <2>2
<1>9. a = d \o After(a, Len(d))
  <2>1. First(a, n) \o After(a, n) = a /\ After(a, Len(First(a, n))) = After(a, n)
    BY <1>2, FirstThenAfter
  <2>2. QED BY <1>3, <2>1
<1>10. QED BY <1>2, <1>3, <1>4, <1>5, <1>7, <1>8, <1>9 DEF a, d

\* A _read() past an empty buffer.
LEMMA ReadPast ==
    ASSUME NEW s \in Stream, Empty(s), NEW n \in Nat
    PROVE  LET d == DevRead(s, n)
               t == [s EXCEPT !.pos = @ + Len(d)]
           IN  /\ Consumes(s, d, t) /\ Empty(t) /\ t.err = s.err
               /\ Len(d) < n => Rest(t) = <<>>
<1> DEFINE d == DevRead(s, n)
           t == [s EXCEPT !.pos = @ + Len(d)]
           a == After(s.file, s.pos)
<1>1. /\ a \in Seq(Bytes) /\ d \in Seq(Bytes) /\ Len(d) <= n
      /\ Len(d) < n => Len(d) = Len(a)
      /\ s.pos + Len(d) \in Nat /\ s.pos + Len(d) <= Most(s.pos, Len(s.file))
      /\ a = d \o After(s.file, s.pos + Len(d))
  BY DevReadIs
<1> HIDE DEF d, a
<1>2. s \in FileState BY DEF Stream
<1>3. /\ t.ptr = s.ptr /\ t.buf = s.buf /\ t.file = s.file /\ t.pos = s.pos + Len(d)
      /\ SameFile(s, t) /\ t.err = s.err
  BY <1>2 DEF FileState, SameFile
<1>4. t \in FileState
  <2>1. s.pos + Len(d) \in Nat BY <1>1
  <2>2. QED BY <1>2, <2>1 DEF FileState
<1> HIDE DEF t
<1>5. End(t) = End(s) BY <1>3 DEF End
<1>6. t \in Stream BY <1>3, <1>4, <1>5 DEF Stream
<1>7. Empty(t) BY <1>3, <1>5 DEF Empty
<1>8. Held(s) = <<>> /\ Held(t) = <<>> BY <1>6, <1>7, HeldIs
<1>9. Rest(s) = a BY <1>1, <1>8, NoBytes DEF Rest, a
<1>10. Rest(t) = After(s.file, s.pos + Len(d)) /\ Rest(t) \in Seq(Bytes)
  <2>1. t.file \in Seq(Bytes) /\ t.pos \in Nat BY <1>6, StreamIs
  <2>2. After(t.file, t.pos) \in Seq(Bytes) BY <2>1, AfterIs
  <2>3. QED BY <1>3, <1>8, <2>2, NoBytes DEF Rest
<1>11. Rest(s) = d \o Rest(t) BY <1>1, <1>9, <1>10
<1>12. At(t) = At(s) + Len(d)
  <2>1. Unread(s) = 0 /\ Unread(t) = 0 BY <1>6, <1>7, HeldIs
  <2>2. s.pos \in Nat /\ Len(d) \in Nat BY <1>1, StreamIs
  <2>3. QED BY <1>3, <2>1, <2>2 DEF At
<1>13. Consumes(s, d, t) BY <1>1, <1>3, <1>6, <1>10, <1>11, <1>12 DEF Consumes
<1>14. Len(d) < n => Rest(t) = <<>>
  <2>1. Len(d \o Rest(t)) = Len(d) + Len(Rest(t)) BY <1>1, <1>10, CatIs
  <2>2. Len(d) < n => Len(Rest(t)) = 0
    <3>1. Len(a) = Len(d) + Len(Rest(t)) /\ Len(d) \in Nat /\ Len(Rest(t)) \in Nat
      BY <1>1, <1>9, <1>10, <1>11, <2>1
    <3>2. QED BY <1>1, <3>1
  <2>3. QED BY <1>10, <2>2, NoBytes
<1>15. QED BY <1>3, <1>7, <1>13, <1>14 DEF t, d

\* _refill() takes nothing, and fails at the end of the file.
LEMMA RefillIs ==
    ASSUME NEW s \in Stream, ~s.err
    PROVE  /\ Consumes(s, <<>>, Refill(s))
           /\ Refill(s).err <=> Rest(s) = <<>>
           /\ Refill(s).err <=> Empty(Refill(s))
           /\ Empty(s) => Refill(s).ptr = 0
<1> DEFINE t == Refill(s)
<1>0. <<>> \in Seq(Bytes) OBVIOUS
<1>1. CASE ~Empty(s)
  <2>1. t = s BY <1>1 DEF Refill
  <2>2. Held(s) \in Seq(Bytes) /\ Held(s) # <<>> /\ Rest(s) \in Seq(Bytes) BY <1>1, HeldIs
  <2>3. Rest(s) # <<>>
    <3>1. After(s.file, s.pos) \in Seq(Bytes) BY StreamIs, AfterIs
    <3>2. Len(Rest(s)) = Len(Held(s)) + Len(After(s.file, s.pos)) BY <2>2, <3>1, CatIs DEF Rest
    <3>3. Len(Held(s)) \in Nat \ {0} BY <2>2, NoBytes
    <3>4. Len(Rest(s)) # 0 BY <3>1, <3>2, <3>3
    <3>5. QED BY <2>2, <3>4, NoBytes
  <2>4. Consumes(s, <<>>, s)
    <3>1. <<>> \o Rest(s) = Rest(s) BY <2>2, NoBytes
    <3>2. s.pos \in Nat /\ Len(s.file) \in Nat /\ Unread(s) \in Nat BY StreamIs
    <3>3. At(s) = At(s) + Len(<<>>) BY <3>2 DEF At
    <3>4. s.pos <= Most(s.pos, Len(s.file)) BY <3>2 DEF Most
    <3>5. SameFile(s, s) BY DEF SameFile
    <3>6. QED BY <1>0, <2>2, <3>1, <3>3, <3>4, <3>5 DEF Consumes
  <2>5. QED BY <1>1, <2>1, <2>3, <2>4
<1>2. CASE Empty(s)
  <2> DEFINE b == DevRead(s, BUFSIZ)
             r == [s EXCEPT !.ptr = 0, !.buf = b, !.pos = @ + Len(b), !.err = @ \/ b = <<>>]
  <2>1. t = r BY <1>2 DEF Refill
  <2>2. BUFSIZ \in Nat \ {0} BY BytesHole
  <2>3. /\ After(s.file, s.pos) \in Seq(Bytes) /\ b \in Seq(Bytes) /\ Len(b) <= BUFSIZ
        /\ Len(b) < BUFSIZ => Len(b) = Len(After(s.file, s.pos))
        /\ s.pos + Len(b) \in Nat /\ s.pos + Len(b) <= Most(s.pos, Len(s.file))
        /\ After(s.file, s.pos) = b \o After(s.file, s.pos + Len(b))
    BY <2>2, DevReadIs
  <2> HIDE DEF b
  <2>4. PICK e \in BOOLEAN : e = (s.err \/ b = <<>>) OBVIOUS
  <2>5. s \in FileState BY DEF Stream
  <2>6. r = [s EXCEPT !.ptr = 0, !.buf = b, !.pos = s.pos + Len(b), !.err = e] BY <2>4
  <2>7. /\ r.ptr = 0 /\ r.buf = b /\ r.file = s.file /\ r.pos = s.pos + Len(b)
        /\ SameFile(s, r) /\ r.err = e
    BY <2>5, <2>6 DEF FileState, SameFile
  <2>8. r \in FileState
    <3>1. s.pos + Len(b) \in Nat /\ b \in Seq(Bytes) BY <2>3
    <3>2. QED BY <2>5, <2>6, <3>1 DEF FileState
  <2> HIDE DEF r
  <2>9. End(r) = Len(b) /\ Len(b) \in Nat BY <2>3, <2>7 DEF End
  <2>10. r \in Stream BY <2>3, <2>7, <2>8, <2>9 DEF Stream
  <2>11. Held(r) = b BY <2>3, <2>7, NoBytes DEF Held
  <2>12. Held(s) = <<>> BY <1>2, HeldIs
  <2>13. Rest(s) = After(s.file, s.pos) BY <2>3, <2>12, NoBytes DEF Rest
  <2>14. Rest(r) = Rest(s) BY <2>3, <2>7, <2>11, <2>13 DEF Rest
  <2>15. Rest(s) \in Seq(Bytes) BY HeldIs
  <2>16. At(r) = At(s) + Len(<<>>)
    <3>1. Unread(s) = 0 BY <1>2, HeldIs
    <3>2. Unread(r) = Len(b) BY <2>7, <2>9 DEF Unread
    <3>3. s.pos \in Nat BY StreamIs
    <3>4. QED BY <2>7, <2>9, <3>1, <3>2, <3>3 DEF At
  <2>17. <<>> \o Rest(s) = Rest(s) BY <2>15, NoBytes
  <2>18. Consumes(s, <<>>, r)
    BY <1>0, <2>3, <2>7, <2>10, <2>14, <2>15, <2>16, <2>17 DEF Consumes
  <2>19. r.err <=> b = <<>> BY <2>4, <2>7
  <2>20. b = <<>> <=> Len(b) = 0 BY <2>3, NoBytes
  <2>21. Empty(r) <=> b = <<>> BY <2>7, <2>9, <2>20 DEF Empty
  <2>22. b = <<>> <=> Rest(s) = <<>>
    <3>1. Rest(s) = <<>> <=> Len(Rest(s)) = 0 BY <2>15, NoBytes
    <3>2. ASSUME b = <<>> PROVE Len(Rest(s)) = 0 BY <2>2, <2>3, <2>13, <2>20, <3>2
    <3>3. ASSUME Rest(s) = <<>> PROVE b = <<>>
      <4>1. s.file \in Seq(Bytes) /\ s.pos + Len(b) \in Nat BY <2>3, StreamIs
      <4>2. After(s.file, s.pos + Len(b)) \in Seq(Bytes) BY <4>1, AfterIs
      <4>3. Len(Rest(s)) = Len(b) + Len(After(s.file, s.pos + Len(b)))
        BY <2>3, <2>13, <4>2, CatIs
      <4>4. Len(Rest(s)) = 0 BY <3>1, <3>3
      <4>5. Len(After(s.file, s.pos + Len(b))) \in Nat BY <4>2
      <4>6. QED BY <2>9, <2>20, <4>3, <4>4, <4>5
    <3>4. QED BY <3>1, <3>2, <3>3
  <2>23. QED BY <2>1, <2>7, <2>18, <2>19, <2>21, <2>22
<1>3. QED BY <1>1, <1>2
-----------------------------------------------------------------------------
(* fread(). *)

\* Whole buffers, one byte less than n at most.
LEMMA WholeBuffers ==
    ASSUME NEW n \in Nat \ {0}
    PROVE  LET m == BUFSIZ * ((n - 1) \div BUFSIZ) IN
           m \in Nat /\ m < n /\ n - m <= BUFSIZ
<1> DEFINE q == (n - 1) \div BUFSIZ
<1>1. BUFSIZ \in Nat \ {0} /\ n - 1 \in Nat BY BytesHole
<1>2. q \in Nat /\ BUFSIZ * q <= n - 1 /\ n - 1 < BUFSIZ * (q + 1) BY <1>1
<1> HIDE DEF q
<1>3. BUFSIZ * q \in Nat /\ BUFSIZ * (q + 1) = BUFSIZ * q + BUFSIZ BY <1>1, <1>2
<1>4. QED BY <1>1, <1>2, <1>3 DEF q

\* What a call of fn returns when it has read b.
Gives(fn, n, b) == open /\ UNCHANGED open /\ ret' = [fn |-> fn, n |-> n, s |-> b]

\* Nothing is left where the error flag is set.
AtEnd(t) == Rest(t) = <<>> /\ Empty(t)

LEMMA StaysPut == ASSUME NEW s \in Stream PROVE Consumes(s, <<>>, s)
<1>1. <<>> \in Seq(Bytes) /\ Len(<<>>) = 0 OBVIOUS
<1>2. Rest(s) \in Seq(Bytes) /\ <<>> \o Rest(s) = Rest(s) BY HeldIs, NoBytes
<1>3. s.pos \in Nat /\ Len(s.file) \in Nat /\ Unread(s) \in Nat BY StreamIs
<1>4. At(s) = At(s) + 0 /\ s.pos <= Most(s.pos, Len(s.file)) BY <1>3 DEF At, Most
<1>5. SameFile(s, s) BY DEF SameFile
<1>6. QED BY <1>1, <1>2, <1>4, <1>5 DEF Consumes

LEMMA TakeTyped ==
    ASSUME NEW s \in Stream, NEW k \in Nat, k <= Unread(s)
    PROVE  LET t == [s EXCEPT !.ptr = @ + k] IN
           /\ Consumes(s, First(Held(s), k), t) /\ t \in Stream /\ t.err = s.err
           /\ First(Held(s), k) \in Seq(Bytes) /\ Len(First(Held(s), k)) = k
           /\ Empty(t) <=> k = Unread(s)
           /\ t.ptr = s.ptr + k
<1> DEFINE t == [s EXCEPT !.ptr = @ + k]
<1>1. s \in FileState BY DEF Stream
<1>2. t.ptr = s.ptr + k /\ t.buf = s.buf /\ t.err = s.err BY <1>1 DEF FileState
<1>3. Consumes(s, First(Held(s), k), t) BY TakeHeld
<1> HIDE DEF t
<1>4. t \in Stream BY <1>3 DEF Consumes
<1>5. /\ s.ptr \in Nat /\ End(s) \in Nat /\ s.ptr <= End(s) /\ Unread(s) = End(s) - s.ptr
      /\ Held(s) \in Seq(Bytes) /\ Len(Held(s)) = Unread(s)
  BY StreamIs, HeldIs
<1>6. Empty(t) <=> k = Unread(s) BY <1>2, <1>5 DEF Empty, End
<1>7. First(Held(s), k) \in Seq(Bytes) /\ Len(First(Held(s), k)) = k BY <1>5, FirstIs DEF Least
<1>8. QED BY <1>2, <1>3, <1>4, <1>6, <1>7 DEF t

LEMMA DirectReads ==
    ASSUME NEW s \in Stream, ~s.err, NEW b \in Seq(Bytes), NEW n \in Nat, n > 0 => Empty(s),
           FreadDirect(s, b, n)
    PROVE  \E c \in Seq(Bytes) :
              /\ Consumes(s, c, st') /\ Gives("fread", Len(b \o c), b \o c)
              /\ st'.err => AtEnd(st')
<1> DEFINE m == BUFSIZ * ((n - 1) \div BUFSIZ)
           d == DevRead(s, m)
           t == [s EXCEPT !.pos = @ + Len(d)]
           u == Refill(t)
           k == Least(Unread(u), n - m)
           f == First(u.buf, k)
<1>1. CASE n = 0
  <2>1. Call("fread", s, Len(b), b) BY <1>1 DEF FreadDirect
  <2>2. b \o <<>> = b /\ <<>> \in Seq(Bytes) BY NoBytes
  <2>3. Consumes(s, <<>>, s) BY StaysPut
  <2>4. st' = s /\ Gives("fread", Len(b), b) BY <2>1 DEF Call, Gives
  <2>5. QED BY <2>2, <2>3, <2>4
<1>2. CASE n > 0
  <2>1. m \in Nat /\ m < n BY <1>2, WholeBuffers
  <2>2. \/ Len(d) < m /\ Call("fread", [t EXCEPT !.err = TRUE], Len(b \o d), b \o d)
        \/ Len(d) = m /\ u.err /\ Call("fread", u, Len(b \o d), b \o d)
        \/ /\ ~(Len(d) < m) /\ ~(Len(d) = m /\ u.err)
           /\ Call("fread", [u EXCEPT !.ptr = k], Len(b) + m + k, b \o d \o f)
    <3> HIDE DEF d, t, u, k, f
    <3>1. n # 0 BY <1>2
    <3>2. FreadDirect(s, b, n) = 
             CASE n = 0 -> Call("fread", s, Len(b), b)
               [] n > 0 /\ Len(d) < m -> Call("fread", [t EXCEPT !.err = TRUE], Len(b \o d), b \o d)
               [] n > 0 /\ Len(d) = m /\ u.err -> Call("fread", u, Len(b \o d), b \o d)
               [] OTHER -> Call("fread", [u EXCEPT !.ptr = k], Len(b) + m + k, b \o d \o f)
      BY DEF FreadDirect, d, t, u, k, f
    <3>3. Len(d) < m => Len(d) # m
      <4>1. Len(d) \in Nat BY <2>1, DevReadIs DEF d
      <4>2. QED BY <2>1, <4>1
    <3>4. QED BY <1>2, <3>1, <3>2, <3>3
  <2>3. /\ d \in Seq(Bytes) /\ Len(d) <= m /\ Len(d) \in Nat BY <2>1, DevReadIs
  <2>4. /\ Consumes(s, d, t) /\ Empty(t) /\ t.err = s.err
        /\ Len(d) < m => Rest(t) = <<>>
    BY <1>2, <2>1, ReadPast
  <2>5. t \in Stream BY <2>4 DEF Consumes
  <2>6. b \o d \in Seq(Bytes) BY <2>3, CatIs
  <2> HIDE DEF m, d, t
  <2>7. CASE Len(d) < m /\ Call("fread", [t EXCEPT !.err = TRUE], Len(b \o d), b \o d)
    <3> DEFINE r == [t EXCEPT !.err = TRUE]
    <3>1. t \in FileState BY <2>5 DEF Stream
    <3>2. /\ r.file = t.file /\ r.pos = t.pos /\ r.ptr = t.ptr /\ r.buf = t.buf
          /\ SameFile(t, r) /\ r \in FileState
      BY <3>1 DEF FileState, SameFile
    <3> HIDE DEF r
    <3>3. End(r) = End(t) /\ Held(r) = Held(t) /\ Rest(r) = Rest(t) /\ At(r) = At(t)
      BY <3>2 DEF End, Held, Rest, At, Unread
    <3>4. r \in Stream /\ Empty(r) BY <2>4, <2>5, <3>2, <3>3 DEF Stream, Empty
    <3>5. Consumes(s, d, r) BY <2>4, <3>2, <3>3, <3>4 DEF Consumes, SameFile
    <3>6. AtEnd(r) BY <2>4, <2>7, <3>3, <3>4 DEF AtEnd
    <3>7. st' = r /\ Gives("fread", Len(b \o d), b \o d) BY <2>7 DEF Call, Gives, r
    <3>8. QED BY <2>3, <3>5, <3>6, <3>7
  <2>8. /\ Consumes(t, <<>>, u) /\ (u.err <=> Rest(t) = <<>>) /\ (u.err <=> Empty(u))
        /\ u.ptr = 0
    BY <2>4, <2>5, RefillIs
  <2>9. u \in Stream BY <2>8 DEF Consumes
  <2> HIDE DEF u
  <2>10. d \o <<>> = d BY <2>3, NoBytes
  <2>11. Consumes(s, d, u) BY <2>4, <2>8, <2>10, ConsumesTwice
  <2>12. CASE Len(d) = m /\ u.err /\ Call("fread", u, Len(b \o d), b \o d)
    <3>1. st' = u /\ Gives("fread", Len(b \o d), b \o d) BY <2>12 DEF Call, Gives
    <3>2. Rest(u) = <<>>
      <4>1. Rest(t) = <<>> \o Rest(u) /\ Rest(u) \in Seq(Bytes) BY <2>8 DEF Consumes
      <4>2. QED BY <2>8, <2>12, <4>1, NoBytes
    <3>3. AtEnd(u) BY <2>8, <2>12, <3>2 DEF AtEnd
    <3>4. QED BY <2>3, <2>11, <3>1, <3>3
  <2>13. CASE /\ ~(Len(d) < m) /\ ~(Len(d) = m /\ u.err)
              /\ Call("fread", [u EXCEPT !.ptr = k], Len(b) + m + k, b \o d \o f)
    <3>1. Len(d) = m /\ ~u.err BY <2>1, <2>3, <2>13 DEF m
    <3>2. Unread(u) \in Nat /\ n - m \in Nat BY <2>1, <2>9, StreamIs DEF m
    <3>3. k \in Nat /\ k <= Unread(u) BY <3>2 DEF Least
    <3> HIDE DEF k
    <3>4. Held(u) = u.buf
      <4>1. u.buf \in Seq(Bytes) BY <2>9, StreamIs
      <4>2. QED BY <2>8, <4>1, NoBytes DEF Held
    <3>5. [u EXCEPT !.ptr = k] = [u EXCEPT !.ptr = @ + k] BY <2>8, <3>3
    <3> DEFINE r == [u EXCEPT !.ptr = k]
    <3>6. /\ Consumes(u, f, r) /\ r.err = u.err /\ f \in Seq(Bytes) /\ Len(f) = k
      BY <2>9, <3>3, <3>4, <3>5, TakeTyped
    <3> HIDE DEF f, r
    <3>7. Consumes(s, d \o f, r) BY <2>11, <3>6, ConsumesTwice
    <3>8. /\ d \o f \in Seq(Bytes) /\ (b \o d) \o f = b \o (d \o f)
      <4>1. b \in Seq(Bytes) /\ d \in Seq(Bytes) /\ f \in Seq(Bytes) BY <2>3, <3>6
      <4>2. d \o f \in Seq(Bytes) BY <4>1, CatIs
      <4>3. (b \o d) \o f = b \o (d \o f) BY <4>1, CatBytes
      <4>4. QED BY <4>2, <4>3
    <3>9. Len((b \o d) \o f) = Len(b) + m + k
      <4>1. Len(b \o d) = Len(b) + Len(d) BY <2>3, CatIs
      <4>2. Len((b \o d) \o f) = Len(b \o d) + Len(f) BY <2>6, <3>6, CatIs
      <4>3. QED BY <3>1, <3>6, <4>1, <4>2
    <3>10. st' = r /\ Gives("fread", Len(b) + m + k, (b \o d) \o f)
      BY <2>13 DEF Call, Gives, r
    <3>11. QED BY <3>1, <3>6, <3>7, <3>8, <3>9, <3>10
  <2>14. QED BY <2>2, <2>7, <2>12, <2>13
<1>3. QED BY <1>1, <1>2

LEMMA BufferedReads ==
    ASSUME NEW s \in Stream, ~s.err, NEW b \in Seq(Bytes), NEW n \in Nat,
           FreadBuffered(s, b, n)
    PROVE  \/ /\ Consumes(s, <<>>, st') /\ Gives("fread", 0, <<>>)
              /\ st'.err /\ AtEnd(st')
           \/ \E c \in Seq(Bytes) :
                 /\ Consumes(s, c, st') /\ Gives("fread", Len(b \o c), b \o c)
                 /\ st'.err => AtEnd(st')
                 /\ n > 0 => c # <<>>
<1> DEFINE t == Refill(s)
           k == Least(Unread(t), n)
           f == First(Held(t), k)
           r == [t EXCEPT !.ptr = @ + k]
<1>1. Consumes(s, <<>>, t) /\ (t.err <=> Rest(s) = <<>>) /\ (t.err <=> Empty(t)) BY RefillIs
<1>2. t \in Stream BY <1>1 DEF Consumes
<1>3. \/ t.err /\ Call("fread", t, 0, <<>>)
      \/ ~t.err /\ FreadDirect(r, b \o f, n - k)
  BY DEF FreadBuffered
<1> HIDE DEF t
<1>4. CASE t.err /\ Call("fread", t, 0, <<>>)
  <2>1. st' = t /\ Gives("fread", 0, <<>>) BY <1>4 DEF Call, Gives
  <2>2. Rest(t) = <<>>
    <3>1. Rest(s) = <<>> \o Rest(t) /\ Rest(t) \in Seq(Bytes) BY <1>1 DEF Consumes
    <3>2. QED BY <1>1, <1>4, <3>1, NoBytes
  <2>3. AtEnd(t) BY <1>1, <1>4, <2>2 DEF AtEnd
  <2>4. QED BY <1>1, <1>4, <2>1, <2>3
<1>5. CASE ~t.err /\ FreadDirect(r, b \o f, n - k)
  <2>1. Unread(t) \in Nat /\ (Unread(t) = 0 <=> Empty(t)) BY <1>2, StreamIs, HeldIs
  <2>2. k \in Nat /\ k <= Unread(t) /\ n - k \in Nat /\ (n - k > 0 => k = Unread(t))
    BY <2>1 DEF Least
  <2>3. n > 0 => k > 0 BY <1>1, <1>5, <2>1 DEF Least
  <2> HIDE DEF k
  <2>4. /\ Consumes(t, f, r) /\ r \in Stream /\ r.err = t.err
        /\ f \in Seq(Bytes) /\ Len(f) = k /\ (Empty(r) <=> k = Unread(t))
    BY <1>2, <2>2, TakeTyped
  <2> HIDE DEF f, r
  <2>5. b \o f \in Seq(Bytes) BY <2>4, CatIs
  <2>6. PICK c \in Seq(Bytes) :
            /\ Consumes(r, c, st') /\ Gives("fread", Len((b \o f) \o c), (b \o f) \o c)
            /\ st'.err => AtEnd(st')
    <3>1. n - k \in Nat /\ (n - k > 0 => Empty(r)) /\ ~r.err BY <1>5, <2>2, <2>4
    <3>2. QED BY <1>5, <2>4, <2>5, <3>1, DirectReads
  <2>7. <<>> \o f = f BY <2>4, NoBytes
  <2>8. Consumes(s, f, r) BY <1>1, <1>2, <2>4, <2>7, ConsumesTwice
  <2>9. Consumes(s, f \o c, st') BY <2>4, <2>6, <2>8, ConsumesTwice
  <2>10. (b \o f) \o c = b \o (f \o c) BY <2>4, <2>6, CatBytes
  <2>11. f \o c \in Seq(Bytes) /\ Len(f \o c) = k + Len(c) BY <2>4, <2>6, CatIs
  <2>12. n > 0 => f \o c # <<>>
    <3>1. Len(c) \in Nat BY <2>6
    <3>2. n > 0 => Len(f \o c) # 0 BY <2>2, <2>3, <2>11, <3>1
    <3>3. QED BY <2>11, <3>2, NoBytes
  <2>13. QED BY <2>6, <2>9, <2>10, <2>11, <2>12
<1>6. QED BY <1>3, <1>4, <1>5
-----------------------------------------------------------------------------
(* fgets(). *)

\* g is what fgets() has after i bytes at most: no newline but the last byte
\* of g.b, and less than i bytes only if it has stopped.
Gets(s, g, i) ==
    /\ g.b \in Seq(Bytes) /\ Consumes(s, g.b, g.s)
    /\ g.s.err => AtEnd(g.s)
    /\ Len(g.b) <= i
    /\ \A j \in 1 .. Len(g.b) : j < Len(g.b) \/ g.s.err => g.b[j] # NL
    /\ Len(g.b) < i => g.s.err \/ (g.b # <<>> /\ Last(g.b) = NL)
    /\ Len(g.b) = i /\ i > 0 => ~g.s.err

LEMMA GetsOne ==
    ASSUME NEW s \in Stream, NEW g, NEW i \in Nat, Gets(s, g, i), i = 0 => ~g.s.err
    PROVE  Gets(s, GetsNext(g), i + 1)
<1> DEFINE stopped == g.s.err \/ (g.b # <<>> /\ Last(g.b) = NL)
<1>1. g.b \in Seq(Bytes) /\ Consumes(s, g.b, g.s) /\ g.s \in Stream /\ Len(g.b) \in Nat
  BY DEF Gets, Consumes
<1>2. CASE stopped
  <2>1. GetsNext(g) = g BY <1>2 DEF GetsNext
  <2>2. Len(g.b) = i + 1 => FALSE BY <1>1 DEF Gets
  <2>3. QED BY <1>1, <1>2, <2>1, <2>2 DEF Gets
<1>3. CASE ~stopped
  <2> DEFINE t == Refill(g.s)
             x == t.buf[t.ptr + 1]
             r == [t EXCEPT !.ptr = @ + 1]
  <2>1. GetsNext(g) = [s |-> IF t.err THEN t ELSE r, b |-> IF t.err THEN g.b ELSE Append(g.b, x)]
    BY <1>3 DEF GetsNext, GetsStep
  <2>2. Len(g.b) = i /\ ~g.s.err BY <1>1, <1>3 DEF Gets
  <2>3. /\ Consumes(g.s, <<>>, t) /\ (t.err <=> Rest(g.s) = <<>>) /\ (t.err <=> Empty(t))
    BY <1>1, <2>2, RefillIs
  <2>4. t \in Stream BY <2>3 DEF Consumes
  <2>5. t.err \in BOOLEAN BY <2>4, StreamIs
  <2>6. g.b \o <<>> = g.b BY <1>1, NoBytes
  <2> HIDE DEF t
  <2>7. Consumes(s, g.b, t)
    <3>1. Consumes(s, g.b \o <<>>, t) BY <1>1, <2>3, ConsumesTwice
    <3>2. QED BY <2>6, <3>1
  <2>8. \A j \in 1 .. Len(g.b) : g.b[j] # NL
    <3>1. TAKE j \in 1 .. Len(g.b)
    <3>2. CASE j < Len(g.b) BY <3>2 DEF Gets
    <3>3. CASE j = Len(g.b)
      <4>1. g.b # <<>> BY <1>1, <3>3, NoBytes
      <4>2. QED BY <1>3, <3>3, <4>1 DEF Last
    <3>4. QED BY <1>1, <3>2, <3>3
  <2>9. CASE t.err
    <3>1. GetsNext(g) = [s |-> t, b |-> g.b] BY <2>1, <2>9
    <3>2. AtEnd(t)
      <4>1. Rest(g.s) = <<>> \o Rest(t) /\ Rest(t) \in Seq(Bytes) BY <2>3 DEF Consumes
      <4>2. QED BY <2>3, <2>9, <4>1, NoBytes DEF AtEnd
    <3>3. GetsNext(g).s = t /\ GetsNext(g).b = g.b BY <3>1
    <3>4. Len(g.b) <= i + 1 /\ Len(g.b) # i + 1 BY <2>2
    <3>5. QED BY <1>1, <2>5, <2>7, <2>8, <2>9, <3>2, <3>3, <3>4 DEF Gets
  <2>10. CASE ~t.err
    <3>1. GetsNext(g) = [s |-> r, b |-> Append(g.b, x)] BY <2>1, <2>10
    <3>2. Unread(t) \in Nat /\ Unread(t) >= 1
      <4>1. Unread(t) \in Nat /\ (Unread(t) = 0 <=> Empty(t)) BY <2>4, StreamIs, HeldIs
      <4>2. QED BY <2>3, <2>10, <4>1
    <3>3. /\ Consumes(t, First(Held(t), 1), r) /\ r.err = t.err
          /\ First(Held(t), 1) \in Seq(Bytes) /\ Len(First(Held(t), 1)) = 1
      BY <2>4, <3>2, TakeTyped
    <3>4. First(Held(t), 1) = <<x>>
      <4>1. Held(t) \in Seq(Bytes) /\ Len(Held(t)) = Unread(t) /\ Held(t)[1] = t.buf[t.ptr + 1]
        BY <2>4, <3>2, HeldIs
      <4>2. First(Held(t), 1)[1] = Held(t)[1] BY <3>3, <4>1, FirstIs
      <4>3. QED BY <3>3, <4>1, <4>2
    <3>5. x \in Bytes /\ <<x>> \in Seq(Bytes) /\ g.b \o <<x>> = Append(g.b, x)
      <4>1. <<x>> \in Seq(Bytes) BY <3>3, <3>4
      <4>2. QED BY <1>1, <4>1
    <3> HIDE DEF x, r
    <3>6. Consumes(s, Append(g.b, x), r)
      <4>1. Consumes(t, <<x>>, r) BY <3>3, <3>4
      <4>2. Consumes(s, g.b \o <<x>>, r) BY <2>7, <4>1, ConsumesTwice
      <4>3. QED BY <3>5, <4>2
    <3> DEFINE c == Append(g.b, x)
    <3>7. /\ c \in Seq(Bytes) /\ Len(c) = i + 1 /\ c[i + 1] = x
          /\ \A j \in 1 .. i : c[j] = g.b[j]
      BY <1>1, <2>2, <3>5
    <3>8. \A j \in 1 .. Len(c) : j < Len(c) => c[j] # NL BY <2>2, <2>8, <3>7
    <3> HIDE DEF c
    <3> DEFINE h == GetsNext(g)
    <3>9. h.s = r /\ h.b = c BY <3>1 DEF c
    <3> HIDE DEF h
    <3>10. ~r.err BY <2>5, <2>10, <3>3
    <3>11. Consumes(s, c, r) BY <3>6 DEF c
    <3>12. /\ Len(h.b) = i + 1 /\ ~h.s.err /\ Consumes(s, h.b, h.s)
           /\ h.b \in Seq(Bytes)
           /\ \A j \in 1 .. Len(h.b) : j < Len(h.b) => h.b[j] # NL
      BY <3>7, <3>8, <3>9, <3>10, <3>11
    <3>13. Gets(s, h, i + 1)
      <4>1. Len(h.b) <= i + 1 /\ ~(Len(h.b) < i + 1) BY <3>12
      <4>2. QED BY <3>12, <4>1 DEF Gets
    <3>14. QED BY <3>13 DEF h
  <2>11. QED BY <2>9, <2>10
<1>4. QED BY <1>2, <1>3

LEMMA GetsAll ==
    ASSUME NEW s \in Stream, ~s.err, NEW max \in Nat
    PROVE  /\ Gets(s, GetsBuffered(s, max), max)
           /\ max = 0 => ~GetsBuffered(s, max).s.err
<1> DEFINE start == [s |-> s, b |-> <<>>]
           F(h) == [i \in 0 .. max |-> IF i = 0 THEN start ELSE GetsNext(h[i - 1])]
           Good == {n \in Nat : \E h : /\ DOMAIN h = 0 .. n /\ h[0] = start
                                       /\ \A i \in 1 .. n : h[i] = GetsNext(h[i - 1])}
<1> HIDE DEF start
<1>1. 0 \in Good
  <2> DEFINE h == [i \in 0 .. 0 |-> start]
  <2>1. DOMAIN h = 0 .. 0 /\ h[0] = start /\ \A i \in 1 .. 0 : h[i] = GetsNext(h[i - 1])
    OBVIOUS
  <2> HIDE DEF h
  <2>2. QED BY <2>1
<1>2. ASSUME NEW n \in Nat, n \in Good PROVE n + 1 \in Good
  <2>1. PICK h : /\ DOMAIN h = 0 .. n /\ h[0] = start
                 /\ \A i \in 1 .. n : h[i] = GetsNext(h[i - 1])
    BY <1>2
  <2> DEFINE e == [i \in 0 .. n + 1 |-> IF i = n + 1 THEN GetsNext(h[n]) ELSE h[i]]
  <2>2. DOMAIN e = 0 .. n + 1 /\ e[0] = start BY <2>1
  <2>3. \A i \in 0 .. n : e[i] = h[i] OBVIOUS
  <2>4. e[n + 1] = GetsNext(h[n]) OBVIOUS
  <2> HIDE DEF e
  <2>5. ASSUME NEW i \in 1 .. n + 1 PROVE e[i] = GetsNext(e[i - 1])
    <3>1. i - 1 \in 0 .. n /\ e[i - 1] = h[i - 1] BY <2>3
    <3>2. CASE i = n + 1 BY <2>4, <3>1, <3>2
    <3>3. CASE i # n + 1
      <4>1. i \in 1 .. n BY <3>3
      <4>2. e[i] = h[i] /\ h[i] = GetsNext(h[i - 1]) BY <2>1, <2>3, <4>1
      <4>3. QED BY <3>1, <4>2
    <3>4. QED BY <3>2, <3>3
  <2>6. QED BY <2>2, <2>5
<1>3. max \in Good
  <2> HIDE DEF Good
  <2>1. Nat \subseteq Good BY <1>1, <1>2, NatIndSet
  <2>2. QED BY <2>1
<1>4. PICK h : /\ DOMAIN h = 0 .. max /\ h[0] = start
               /\ \A i \in 1 .. max : h[i] = GetsNext(h[i - 1])
  BY <1>3
<1> DEFINE k == [i \in 0 .. max |-> h[i]]
<1>5. k = F(k)
  <2>1. \A i \in 0 .. max : h[i] = IF i = 0 THEN start ELSE GetsNext(k[i - 1])
    <3>1. TAKE i \in 0 .. max
    <3>2. CASE i = 0 BY <1>4, <3>2
    <3>3. CASE i # 0
      <4>1. i \in 1 .. max /\ i - 1 \in 0 .. max BY <3>3
      <4>2. k[i - 1] = h[i - 1] BY <4>1
      <4>3. QED BY <1>4, <3>3, <4>1, <4>2
    <3>4. QED BY <3>2, <3>3
  <2>2. QED BY <2>1
<1> HIDE DEF k
<1> DEFINE taken == CHOOSE f : f = F(f)
<1>6. taken = F(taken) BY <1>5
<1>7. GetsBuffered(s, max) = taken[max] BY DEF GetsBuffered, start
<1> HIDE DEF taken
<1> DEFINE Held2 == {i \in Nat : i <= max => Gets(s, taken[i], i) /\ (i = 0 => ~taken[i].s.err)}
<1>8. 0 \in Held2
  <2>1. taken[0] = start BY <1>6
  <2>2. start.s = s /\ start.b = <<>> BY DEF start
  <2>3. Consumes(s, <<>>, s) BY StaysPut
  <2>4. ~s.err OBVIOUS
  <2>5. <<>> \in Seq(Bytes) /\ Len(<<>>) = 0 OBVIOUS
  <2>6. Gets(s, start, 0)
    <3>1. /\ start.b \in Seq(Bytes) /\ Consumes(s, start.b, start.s)
          /\ ~start.s.err /\ Len(start.b) = 0
      BY <2>2, <2>3, <2>4, <2>5
    <3>2. Len(start.b) <= 0 /\ ~(Len(start.b) < 0) /\ 1 .. Len(start.b) = {} BY <3>1
    <3>3. QED BY <3>1, <3>2 DEF Gets
  <2>7. QED BY <2>1, <2>2, <2>4, <2>6
<1>9. ASSUME NEW i \in Nat, i \in Held2 PROVE i + 1 \in Held2
  <2>1. SUFFICES ASSUME i + 1 <= max PROVE Gets(s, taken[i + 1], i + 1) OBVIOUS
  <2>2. Gets(s, taken[i], i) /\ (i = 0 => ~taken[i].s.err) BY <1>9, <2>1
  <2>3. taken[i + 1] = GetsNext(taken[i])
    <3>1. i + 1 \in 0 .. max /\ i + 1 # 0 /\ (i + 1) - 1 = i BY <2>1
    <3>2. QED BY <1>6, <3>1
  <2>4. QED BY <2>2, <2>3, GetsOne
<1> HIDE DEF Held2
<1>10. Nat \subseteq Held2 BY <1>8, <1>9, NatIndSet
<1>11. max \in Held2 BY <1>10
<1>12. QED BY <1>7, <1>11 DEF Held2
-----------------------------------------------------------------------------
(* A call that reads. *)

LEMMA NoLine == ASSUME Pending = <<>> PROVE LinesAreOut
BY DEF LinesAreOut, Contains

LEMMA WithErr ==
    ASSUME NEW s \in Stream, NEW t, NEW b, Consumes(s, b, t), NEW e \in BOOLEAN
    PROVE  LET u == [t EXCEPT !.err = e] IN
           /\ Consumes(s, b, u) /\ u.err = e /\ u.buf = t.buf
           /\ Rest(u) = Rest(t) /\ (Empty(u) <=> Empty(t))
<1> DEFINE u == [t EXCEPT !.err = e]
<1>1. t \in Stream /\ t \in FileState BY DEF Consumes, Stream
<1>2. /\ u.file = t.file /\ u.pos = t.pos /\ u.ptr = t.ptr /\ u.buf = t.buf
      /\ SameFile(t, u) /\ u \in FileState /\ u.err = e
  BY <1>1 DEF FileState, SameFile
<1> HIDE DEF u
<1>3. End(u) = End(t) /\ Held(u) = Held(t) /\ Rest(u) = Rest(t) /\ At(u) = At(t)
  BY <1>2 DEF End, Held, Rest, At, Unread
<1>4. u \in Stream /\ (Empty(u) <=> Empty(t)) BY <1>1, <1>2, <1>3 DEF Stream, Empty
<1>5. Consumes(s, b, u) BY <1>2, <1>3, <1>4 DEF Consumes, SameFile
<1>6. QED BY <1>2, <1>3, <1>4, <1>5 DEF u

\* The stream as a call that reads takes it over.
Reader == [st EXCEPT !.last = "read", !.ch = EOF]

LEMMA Entering ==
    ASSUME IInv, dir # "write"
    PROVE  /\ Reader \in Stream /\ Reader.err = st.err /\ Reader.last = "read"
           /\ Reader.ch = EOF /\ Reader.acc = st.acc /\ Reader.lost = st.lost
           /\ Reader.file = st.file /\ Reader.pos = st.pos /\ Reader.buf = st.buf
           /\ Reader.can = st.can /\ Reader.ptr = st.ptr
           /\ Rest(Reader) = Rest(st) /\ At(Reader) = At(st)
           /\ Empty(Reader) <=> Empty(st)
           /\ ~st.lost => Behind(Reader)
<1> DEFINE r == Reader
<1>1. st \in Stream /\ st \in FileState BY DEF IInv, Stream
<1>2. EOF \in Chars \cup {EOF} OBVIOUS
<1>3. /\ r.err = st.err /\ r.last = "read" /\ r.ch = EOF /\ r.acc = st.acc
      /\ r.lost = st.lost /\ r.file = st.file /\ r.pos = st.pos /\ r.buf = st.buf
      /\ r.can = st.can /\ r.ptr = st.ptr /\ r \in FileState
  BY <1>1, <1>2 DEF FileState, Reader
<1> HIDE DEF r
<1>4. End(r) = End(st) /\ Held(r) = Held(st) /\ Rest(r) = Rest(st) /\ At(r) = At(st)
  BY <1>3 DEF End, Held, Rest, At, Unread
<1>5. r \in Stream /\ (Empty(r) <=> Empty(st)) BY <1>1, <1>3, <1>4 DEF Stream, Empty
<1>6. ASSUME ~st.lost PROVE Behind(r)
  <2>1. Sound(st, dir) /\ dir \in {"any", "read"} BY <1>6 DEF IInv
  <2>2. Behind(st)
    <3>1. CASE dir = "read" BY <2>1, <3>1 DEF Sound
    <3>2. CASE dir = "any"
      <4>1. Empty(st) BY <2>1, <3>2 DEF Sound
      <4>2. Held(st) = <<>> /\ Unread(st) = 0 BY <1>1, <4>1, HeldIs
      <4>3. /\ st.pos \in Nat /\ st.file \in Seq(Bytes) BY <1>1, StreamIs
      <4>4. After(st.file, st.pos) \in Seq(Bytes) BY <4>3, AfterIs
      <4>5. At(st) = st.pos BY <4>2, <4>3 DEF At
      <4>6. Rest(st) = After(st.file, st.pos) BY <4>2, <4>4, NoBytes DEF Rest
      <4>7. QED BY <4>3, <4>5, <4>6 DEF Behind
    <3>3. QED BY <2>1, <3>1, <3>2
  <2>3. QED BY <1>3, <1>4, <2>2 DEF Behind
<1>7. QED BY <1>3, <1>4, <1>5, <1>6 DEF r

\* What a program sees of a stream it reads: the file from At(st) on.
LEMMA ReadView ==
    ASSUME IInv, dir # "write", ~st.lost
    PROVE  /\ Pending = <<>> /\ ~Dirty /\ Kept
           /\ Data = st.file /\ Position = At(st) /\ Position \in Nat
           /\ Data \in Seq(Bytes) /\ Rest(st) = After(Data, Position)
<1>1. Sound(st, dir) /\ dir \in {"any", "read"} /\ st \in Stream BY DEF IInv
<1>2. Behind(Reader) /\ At(Reader) = At(st) /\ Rest(Reader) = Rest(st) /\ Reader.file = st.file
  BY Entering
<1>3. st.pos \in Nat /\ Unread(st) \in Nat /\ st.file \in Seq(Bytes) BY <1>1, StreamIs
<1>4. st.last = "write" => Held(st) = <<>>
  <2>1. st.last = "write" => dir = "any" BY <1>1 DEF Sound
  <2>2. dir = "any" => Empty(st) BY <1>1 DEF Sound
  <2>3. QED BY <1>1, <2>1, <2>2, HeldIs
<1>5. Pending = <<>> BY <1>4 DEF Pending
<1>6. Data = st.file BY <1>5 DEF Data, Overwrite
<1>7. Position = At(st)
  <2>1. CASE st.last = "read" BY <2>1 DEF Position, At
  <2>2. CASE st.last # "read"
    <3>1. dir = "any" BY <1>1, <2>2 DEF Sound
    <3>2. Empty(st) BY <1>1, <3>1 DEF Sound
    <3>3. Unread(st) = 0 BY <1>1, <3>2, HeldIs
    <3>4. QED BY <1>3, <1>5, <2>2, <3>3 DEF Position, At
  <2>3. QED BY <2>1, <2>2
<1>8. At(st) \in Nat BY <1>2, <1>3 DEF Behind, At
<1>9. QED BY <1>2, <1>3, <1>5, <1>6, <1>7, <1>8 DEF Behind, Dirty, Kept

\* A call that takes the bytes of b, and sets the error flag at the end only,
\* leaves the stream sound, and the program behind these bytes.
LEMMA ReadDone ==
    ASSUME IInv, open, dir # "write", NEW b, Consumes(Reader, b, st'),
           st'.err => Empty(st'), st'.acc = "none" => st'.buf = <<>>,
           UNCHANGED open, dir' = "read"
    PROVE  IInv'
<1>1. /\ Reader \in Stream /\ Reader.last = "read" /\ Reader.ch = EOF
      /\ Reader.lost = st.lost /\ Reader.file = st.file /\ Reader.pos = st.pos
      /\ ~st.lost => Behind(Reader)
  BY Entering
<1>2. /\ st' \in Stream /\ st'.last = "read" /\ st'.ch = EOF /\ st'.lost = st.lost
      /\ st'.file = st.file /\ st'.pos <= Most(st.pos, Len(st.file))
  BY <1>1 DEF Consumes, SameFile
<1>3. Pending' = <<>> BY <1>2 DEF Pending
<1>4. LinesAreOut' BY <1>3 DEF LinesAreOut, Contains
<1>5. ASSUME ~st'.lost PROVE Sound(st', dir')
  <2>1. ~st.lost BY <1>2, <1>5
  <2>2. Behind(st') BY <1>1, <2>1, StillBehind
  <2>3. QED BY <1>2, <2>2 DEF Sound
<1>6. open' \in BOOLEAN /\ dir' \in {"any", "read", "write"} /\ open' BY DEF IInv
<1>7. Fits(st')
  <2>1. Len(st.file) <= DISK /\ st.pos <= DISK + BUFSIZ BY DEF IInv, Fits
  <2>2. st.pos \in Nat /\ st'.pos \in Nat /\ Len(st.file) \in Nat
    BY <1>2, StreamIs DEF IInv
  <2>3. DISK \in Nat /\ BUFSIZ \in Nat BY BytesHole
  <2>4. st'.pos <= DISK + BUFSIZ BY <1>2, <2>1, <2>2, <2>3 DEF Most
  <2>5. QED BY <1>2, <2>1, <2>4 DEF Fits
<1>8. QED BY <1>2, <1>4, <1>5, <1>6, <1>7 DEF IInv

\* The same as the program sees it.
LEMMA ReadSeen ==
    ASSUME IInv, dir # "write", ~st.lost, NEW b, Consumes(Reader, b, st')
    PROVE  /\ Data' = Data /\ Position' = Position + Len(b)
           /\ Dirty' = Dirty /\ Kept' = Kept /\ Buffered' = Buffered
           /\ st'.can = st.can /\ st'.ch = EOF /\ st'.err \in BOOLEAN
           /\ b \in Seq(Bytes) /\ Rest(st') \in Seq(Bytes)
           /\ After(Data, Position) = b \o Rest(st')
<1>1. /\ Reader \in Stream /\ Reader.last = "read" /\ Reader.ch = EOF
      /\ Reader.lost = st.lost /\ Reader.file = st.file /\ Reader.acc = st.acc
      /\ Reader.can = st.can /\ Rest(Reader) = Rest(st) /\ At(Reader) = At(st)
  BY Entering
<1>2. /\ st' \in Stream /\ st'.last = "read" /\ st'.ch = EOF /\ st'.lost = st.lost
      /\ st'.file = st.file /\ st'.acc = st.acc /\ st'.can = st.can
      /\ b \in Seq(Bytes) /\ Rest(st') \in Seq(Bytes)
      /\ Rest(st) = b \o Rest(st') /\ At(st') = At(st) + Len(b)
  BY <1>1 DEF Consumes, SameFile
<1>3. /\ Pending = <<>> /\ ~Dirty /\ Data = st.file /\ Position = At(st)
      /\ Rest(st) = After(Data, Position)
  BY ReadView
<1>4. Pending' = <<>> BY <1>2 DEF Pending
<1>5. Data' = st.file BY <1>2, <1>4 DEF Data, Overwrite
<1>6. Position' = At(st') BY <1>2 DEF Position, At
<1>7. Dirty' = Dirty /\ Kept' = Kept /\ Buffered' = Buffered
  BY <1>2, <1>3, <1>4 DEF Dirty, Kept, Buffered
<1>8. st'.err \in BOOLEAN BY <1>2, StreamIs
<1>9. QED BY <1>2, <1>3, <1>5, <1>6, <1>7, <1>8

\* A call that leaves the stream alone.
LEMMA NothingDone ==
    ASSUME IInv, st' = st, UNCHANGED <<open, dir>>
    PROVE  IInv' /\ UNCHANGED Abs!stream
<1>1. LinesAreOut' <=> LinesAreOut BY DEF LinesAreOut, Pending
<1>2. IInv' BY <1>1 DEF IInv
<1>3. Data' = Data /\ Position' = Position /\ Buffered' = Buffered /\ Dirty' = Dirty /\ Kept' = Kept
  BY DEF Data, Position, Buffered, Dirty, Kept, Pending
<1>4. QED BY <1>2, <1>3 DEF Abs!stream

\* After a write that failed nothing is promised.
LEMMA Lost == ASSUME open, st.lost, st'.lost, UNCHANGED open PROVE Abs!Next
<1>1. Kept = ~st.lost /\ Kept' = ~st'.lost BY DEF Kept
<1>2. Abs!Unpromised BY <1>1 DEF Abs!Unpromised
<1>3. QED BY <1>2 DEF Abs!Next

LEMMA AbsIs ==
    /\ Abs!EOF = EOF /\ Abs!Hole = Hole
    /\ \A a, b : Abs!Least(a, b) = Least(a, b) /\ Abs!Most(a, b) = Most(a, b)
    /\ \A s, n : Abs!First(s, n) = First(s, n) /\ Abs!After(s, n) = After(s, n)
    /\ \A s, p, b : Abs!Overwrite(s, p, b) = Overwrite(s, p, b)
    /\ Abs!Ahead = After(Data, Position)
    /\ Abs!PutBack = IF st.ch = EOF THEN <<>> ELSE <<st.ch>>
    /\ Abs!Input = Abs!PutBack \o Abs!Ahead
<1>1. Abs!EOF = EOF /\ Abs!Hole = Hole BY DEF Abs!EOF, EOF, Abs!Hole, Hole
<1>2. \A a, b : Abs!Least(a, b) = Least(a, b) /\ Abs!Most(a, b) = Most(a, b)
  BY DEF Abs!Least, Least, Abs!Most, Most
<1>3. \A s, n : Abs!First(s, n) = First(s, n) /\ Abs!After(s, n) = After(s, n)
  BY <1>2 DEF Abs!First, First, Abs!After, After
<1>4. \A s, p, b : Abs!Overwrite(s, p, b) = Overwrite(s, p, b)
  BY DEF Abs!Overwrite, Overwrite, Abs!Most, Most, Abs!Hole, Hole
<1>5. Abs!Ahead = After(Data, Position) BY <1>3 DEF Abs!Ahead
<1>6. Abs!PutBack = IF st.ch = EOF THEN <<>> ELSE <<st.ch>> BY <1>1 DEF Abs!PutBack
<1>7. Abs!Input = Abs!PutBack \o Abs!Ahead BY DEF Abs!Input
<1>8. QED BY <1>1, <1>2, <1>3, <1>4, <1>5, <1>6, <1>7

\* A call of a stream that is not open for it, or at its end.
LEMMA Refused ==
    ASSUME IInv, NEW fn, NEW n, Refuse(fn, n), ~st.lost
    PROVE  IInv' /\ Abs!Refused(fn, n)
<1>1. open /\ st' = st /\ UNCHANGED <<open, dir>> /\ ret' = [fn |-> fn, n |-> n, s |-> <<>>]
  BY DEF Refuse, Call, Keep
<1>2. IInv' /\ UNCHANGED Abs!stream BY <1>1, NothingDone
<1>3. QED BY <1>1, <1>2 DEF Abs!Refused, Abs!Says, Kept

LEMMA RefusedRead ==
    ASSUME IInv, NEW fn, NEW n, Reads(fn, n), ~May(st, "read")
    PROVE  /\ IInv' /\ ~Abs!Readable
           /\ Abs!Next \/ Abs!Refused(fn, n)
<1>1. Refuse(fn, n) BY DEF Reads
<1>2. open /\ st' = st /\ UNCHANGED <<open, dir>> BY <1>1 DEF Refuse, Call, Keep
<1>3. IInv' BY <1>2, NothingDone
<1>4. ~Abs!Readable BY DEF May, Abs!Readable
<1>5. CASE st.lost BY <1>2, <1>3, <1>4, <1>5, Lost
<1>6. CASE ~st.lost BY <1>1, <1>3, <1>4, <1>6, Refused
<1>7. QED BY <1>5, <1>6

LEMMA ReadCall ==
    ASSUME IInv, open, dir # "write", NEW b, Consumes(Reader, b, st'),
           st'.err => Empty(st'), st'.acc = "none" => st'.buf = <<>>,
           UNCHANGED open, dir' = "read", ~st.lost => Abs!Next
    PROVE  IInv' /\ Abs!Next
<1>1. IInv' BY ReadDone
<1>2. st'.lost = st.lost BY Entering DEF Consumes, SameFile
<1>3. st.lost => Abs!Next BY <1>2, Lost
<1>4. QED BY <1>1, <1>3

LEMMA AsReader == ASSUME IInv, st.ch = EOF PROVE [st EXCEPT !.last = "read"] = Reader
<1>1. st \in FileState BY DEF IInv, Stream
<1>2. QED BY <1>1 DEF Reader, FileState

\* The abstract fgetc(), by what is before the program.
LEMMA GetcSeen ==
    ASSUME IInv, dir # "write", ~st.lost, May(st, "read"), open, UNCHANGED open,
           NEW b, Consumes(Reader, b, st'), NEW x, st'.err = FALSE,
           ret' = [fn |-> "fgetc", n |-> x, s |-> <<>>],
           \/ st.ch # EOF /\ b = <<>> /\ x = st.ch
           \/ st.ch = EOF /\ b = <<x>>
    PROVE  Abs!Getc
<1>1. /\ Data' = Data /\ Position' = Position + Len(b)
      /\ Dirty' = Dirty /\ Kept' = Kept /\ Buffered' = Buffered
      /\ st'.can = st.can /\ st'.ch = EOF
      /\ b \in Seq(Bytes) /\ Rest(st') \in Seq(Bytes)
      /\ After(Data, Position) = b \o Rest(st')
  BY ReadSeen
<1>2. Abs!Readable /\ st.err = FALSE
  <2>1. st.err \in BOOLEAN BY StreamIs DEF IInv
  <2>2. QED BY <2>1 DEF Abs!Readable, May, Kept
<1>3. Abs!Input # <<>> /\ Head(Abs!Input) = x /\ Position' = Position + 1 - Len(Abs!PutBack)
  <2>1. Position \in Nat BY ReadView
  <2>2. CASE st.ch # EOF /\ b = <<>> /\ x = st.ch
    <3>1. Abs!PutBack = <<x>> BY <2>2, AbsIs
    <3>2. x \in Bytes BY <2>2, StreamIs, BytesHole DEF IInv
    <3>3. Abs!Input = <<x>> \o Rest(st')
      BY <1>1, <2>2, <3>1, AbsIs, NoBytes
    <3>4. Abs!Input # <<>> /\ Head(Abs!Input) = x BY <1>1, <3>2, <3>3
    <3>5. Len(b) = 0 /\ Len(Abs!PutBack) = 1 BY <2>2, <3>1
    <3>6. QED BY <1>1, <2>1, <3>4, <3>5
  <2>3. CASE st.ch = EOF /\ b = <<x>>
    <3>1. Abs!PutBack = <<>> BY <2>3, AbsIs
    <3>2. Abs!Input = <<x>> \o Rest(st')
      <4>1. After(Data, Position) \in Seq(Bytes) BY <1>1, CatIs
      <4>2. Abs!Input = After(Data, Position) BY <3>1, <4>1, AbsIs, NoBytes
      <4>3. QED BY <1>1, <2>3, <4>2
    <3>3. <<x>> \in Seq(Bytes) /\ x \in Bytes
      <4>1. <<x>> \in Seq(Bytes) /\ Len(<<x>>) = 1 /\ <<x>>[1] = x BY <1>1, <2>3
      <4>2. QED BY <4>1
    <3>4. Abs!Input # <<>> /\ Head(Abs!Input) = x BY <1>1, <3>2, <3>3
    <3>5. Len(b) = 1 /\ Len(Abs!PutBack) = 0 BY <2>3, <3>1
    <3>6. QED BY <1>1, <2>1, <3>4, <3>5
  <2>4. QED BY <2>2, <2>3
<1>4. Abs!Says("fgetc", Head(Abs!Input), <<>>) BY <1>3 DEF Abs!Says
<1>5. Abs!Take(1) BY <1>1, <1>3, AbsIs DEF Abs!Take
<1>6. Abs!Keeps BY <1>1 DEF Abs!Keeps
<1>7. QED BY <1>1, <1>2, <1>3, <1>4, <1>5, <1>6 DEF Abs!Getc

\* At the end of the file.
LEMMA GetcEnds ==
    ASSUME IInv, dir # "write", ~st.lost, May(st, "read"), open, UNCHANGED open,
           Consumes(Reader, <<>>, st'), Rest(st') = <<>>, st.ch = EOF, st'.err = Buffered,
           ret' = [fn |-> "fgetc", n |-> EOF, s |-> <<>>]
    PROVE  Abs!Getc
<1>1. /\ Data' = Data /\ Position' = Position + Len(<<>>)
      /\ Dirty' = Dirty /\ Kept' = Kept /\ Buffered' = Buffered
      /\ st'.can = st.can /\ st'.ch = EOF
      /\ After(Data, Position) = <<>> \o Rest(st')
  BY ReadSeen
<1>2. Abs!Readable BY DEF Abs!Readable, May, Kept
<1>3. Position \in Nat /\ Position' = Position
  <2>1. Position \in Nat BY ReadView
  <2>2. QED BY <1>1, <2>1
<1>4. Abs!Input = <<>>
  <2>1. After(Data, Position) = <<>> BY <1>1
  <2>2. QED BY <2>1, AbsIs
<1>5. Abs!Says("fgetc", EOF, <<>>) BY DEF Abs!Says
<1>6. Abs!Keeps BY <1>1 DEF Abs!Keeps
<1>7. QED BY <1>1, <1>2, <1>3, <1>4, <1>5, <1>6, AbsIs DEF Abs!Getc

LEMMA FgetcKeeps == IInv /\ Fgetc => IInv' /\ Abs!Next
<1>1. SUFFICES ASSUME IInv, Fgetc PROVE IInv' /\ Abs!Next OBVIOUS
<1>2. dir # "write" BY <1>1 DEF Fgetc, Reads
<1>3. CASE ~May(st, "read")
  <2>1. Reads("fgetc", EOF) BY <1>1 DEF Fgetc
  <2>2. IInv' /\ ~Abs!Readable /\ (Abs!Next \/ Abs!Refused("fgetc", EOF))
    BY <1>1, <1>3, <2>1, RefusedRead
  <2>3. Abs!Refused("fgetc", EOF) => Abs!Getc BY <2>2, AbsIs DEF Abs!Getc
  <2>4. QED BY <2>2, <2>3 DEF Abs!Next
<1>4. CASE May(st, "read")
  <2>1. dir' = "read" BY <1>1, <1>4 DEF Fgetc, Reads, Keep
  <2>2. /\ Reader \in Stream /\ Reader.err = st.err /\ Reader.last = "read"
        /\ Reader.ch = EOF /\ Reader.acc = st.acc /\ Reader.lost = st.lost
        /\ Reader.file = st.file /\ Reader.pos = st.pos /\ Reader.buf = st.buf
        /\ Empty(Reader) <=> Empty(st)
    BY <1>1, <1>2, Entering
  <2>3. ~Reader.err /\ ~st.err BY <1>4, <2>2 DEF May
  <2>4. st.acc = "none" => st.buf = <<>> BY <1>1 DEF IInv
  <2>5. ASSUME open, UNCHANGED open, NEW b, Consumes(Reader, b, st'),
               st'.err => Empty(st'), st'.acc = "none" => st'.buf = <<>>,
               ~st.lost => Abs!Getc
        PROVE  IInv' /\ Abs!Next
    <3>1. ~st.lost => Abs!Next BY <2>5 DEF Abs!Next
    <3>2. QED BY <1>1, <1>2, <2>1, <2>5, <3>1, ReadCall
  <2>6. CASE st.ch # EOF /\ Call("fgetc", [st EXCEPT !.last = "read", !.ch = EOF], st.ch, <<>>)
    <3>1. /\ open /\ st' = Reader /\ UNCHANGED open
          /\ ret' = [fn |-> "fgetc", n |-> st.ch, s |-> <<>>]
      BY <2>6 DEF Call, Reader
    <3>2. Consumes(Reader, <<>>, st') BY <2>2, <3>1, StaysPut
    <3>3. st'.err = FALSE BY <2>2, <2>3, <3>1, StreamIs
    <3>4. ~st.lost => Abs!Getc BY <1>1, <1>2, <1>4, <2>6, <3>1, <3>2, <3>3, GetcSeen
    <3>5. st'.acc = "none" => st'.buf = <<>> BY <2>2, <2>4, <3>1
    <3>6. QED BY <2>5, <3>1, <3>2, <3>3, <3>4, <3>5
  <2>7. CASE st.ch = EOF /\ st.acc = "none" /\ Fgetc
    <3> DEFINE c == DevRead(Reader, 1)
               t == [Reader EXCEPT !.pos = @ + Len(c)]
    <3>1. [st EXCEPT !.last = "read"] = Reader BY <1>1, <2>7, AsReader
    <3>2. /\ open /\ st' = t /\ UNCHANGED open
          /\ ret' = [fn |-> "fgetc", n |-> IF c = <<>> THEN EOF ELSE c[1], s |-> <<>>]
      BY <1>4, <2>7, <3>1 DEF Fgetc, Call
    <3>3. Empty(Reader) /\ st.buf = <<>>
      <4>1. st.buf = <<>> BY <2>4, <2>7
      <4>2. End(st) = 0 /\ st.ptr \in Nat BY <1>1, <4>1, StreamIs DEF End, IInv
      <4>3. Empty(st) BY <4>2 DEF Empty
      <4>4. QED BY <2>2, <4>1, <4>3
    <3>4. /\ Consumes(Reader, c, t) /\ Empty(t) /\ t.err = Reader.err
          /\ Len(c) < 1 => Rest(t) = <<>>
      BY <2>2, <3>3, ReadPast
    <3>5. c \in Seq(Bytes) /\ Len(c) <= 1 BY <2>2, DevReadIs
    <3>6. t.buf = <<>>
      <4>1. Reader \in FileState BY <2>2 DEF Stream
      <4>2. t.buf = Reader.buf BY <4>1 DEF FileState
      <4>3. QED BY <2>2, <3>3, <4>2
    <3> HIDE DEF c, t
    <3>7. st'.err = FALSE BY <2>2, <2>3, <3>2, <3>4, StreamIs
    <3>8. ASSUME ~st.lost PROVE Abs!Getc
      <4>1. CASE c = <<>>
        <5>1. Len(c) = 0 BY <4>1
        <5>2. Rest(st') = <<>> BY <3>2, <3>4, <5>1
        <5>3. ret' = [fn |-> "fgetc", n |-> EOF, s |-> <<>>] BY <3>2, <4>1
        <5>4. Buffered = FALSE BY <2>7 DEF Buffered
        <5>5. Consumes(Reader, <<>>, st') BY <3>2, <3>4, <4>1
        <5>6. QED BY <1>1, <1>2, <1>4, <2>7, <3>2, <3>7, <3>8, <5>2, <5>3, <5>4, <5>5, GetcEnds
      <4>2. CASE c # <<>>
        <5>1. Len(c) = 1
          <6>1. Len(c) # 0 /\ Len(c) \in Nat BY <3>5, <4>2, NoBytes
          <6>2. QED BY <3>5, <6>1
        <5>2. c = <<c[1]>> BY <3>5, <5>1
        <5>3. ret' = [fn |-> "fgetc", n |-> c[1], s |-> <<>>] BY <3>2, <4>2
        <5>4. Consumes(Reader, c, st') BY <3>2, <3>4
        <5>5. QED BY <1>1, <1>2, <1>4, <2>7, <3>2, <3>7, <3>8, <5>2, <5>3, <5>4, GetcSeen
      <4>3. QED BY <4>1, <4>2
    <3>9. QED BY <2>5, <3>2, <3>4, <3>6, <3>7, <3>8
  <2>8. CASE st.ch = EOF /\ st.acc # "none" /\ Fgetc
    <3> DEFINE t == Refill(Reader)
               x == t.buf[t.ptr + 1]
               r == [t EXCEPT !.ptr = @ + 1]
    <3>1. [st EXCEPT !.last = "read"] = Reader BY <1>1, <2>8, AsReader
    <3>2. \/ t.err /\ Call("fgetc", t, EOF, <<>>)
          \/ ~t.err /\ Call("fgetc", r, x, <<>>)
      BY <1>4, <2>8, <3>1 DEF Fgetc
    <3>3. /\ Consumes(Reader, <<>>, t) /\ (t.err <=> Rest(Reader) = <<>>) /\ (t.err <=> Empty(t))
      BY <2>2, <2>3, RefillIs
    <3>4. t \in Stream /\ t.acc = st.acc /\ Rest(t) \in Seq(Bytes) /\ Rest(Reader) = <<>> \o Rest(t)
      BY <2>2, <3>3 DEF Consumes, SameFile
    <3>5. Rest(t) = Rest(Reader) BY <3>4, NoBytes
    <3>6. t.err \in BOOLEAN BY <3>4, StreamIs
    <3> HIDE DEF t
    <3>7. CASE t.err /\ Call("fgetc", t, EOF, <<>>)
      <4>1. /\ open /\ st' = t /\ UNCHANGED open
            /\ ret' = [fn |-> "fgetc", n |-> EOF, s |-> <<>>]
        BY <3>7 DEF Call
      <4>2. st'.err = Buffered
        <5>1. Buffered = TRUE BY <2>8 DEF Buffered
        <5>2. st'.err = TRUE BY <3>6, <3>7, <4>1
        <5>3. QED BY <5>1, <5>2
      <4>3. Rest(st') = <<>> BY <3>3, <3>5, <3>7, <4>1
      <4>4. Consumes(Reader, <<>>, st') BY <3>3, <4>1
      <4>5. ~st.lost => Abs!Getc
        BY <1>1, <1>2, <1>4, <2>8, <4>1, <4>2, <4>3, <4>4, GetcEnds
      <4>6. st'.acc # "none" /\ Empty(st') BY <2>8, <3>3, <3>4, <3>7, <4>1
      <4>7. QED BY <2>5, <4>1, <4>4, <4>5, <4>6
    <3>8. CASE ~t.err /\ Call("fgetc", r, x, <<>>)
      <4>1. /\ open /\ st' = r /\ UNCHANGED open
            /\ ret' = [fn |-> "fgetc", n |-> x, s |-> <<>>]
        BY <3>8 DEF Call
      <4>2. Unread(t) \in Nat /\ Unread(t) >= 1
        <5>1. Unread(t) \in Nat /\ (Unread(t) = 0 <=> Empty(t)) BY <3>4, StreamIs, HeldIs
        <5>2. QED BY <3>3, <3>8, <5>1
      <4>3. /\ Consumes(t, First(Held(t), 1), r) /\ r.err = t.err
            /\ First(Held(t), 1) \in Seq(Bytes) /\ Len(First(Held(t), 1)) = 1
        BY <3>4, <4>2, TakeTyped
      <4>4. First(Held(t), 1) = <<x>>
        <5>1. Held(t) \in Seq(Bytes) /\ Len(Held(t)) = Unread(t) /\ Held(t)[1] = t.buf[t.ptr + 1]
          BY <3>4, <4>2, HeldIs
        <5>2. First(Held(t), 1)[1] = Held(t)[1] BY <4>3, <5>1, FirstIs
        <5>3. QED BY <4>3, <5>1, <5>2
      <4> HIDE DEF x, r
      <4>5. <<>> \o <<x>> = <<x>> OBVIOUS
      <4>6. Consumes(Reader, <<x>>, st')
        <5>1. Consumes(t, <<x>>, r) BY <4>3, <4>4
        <5>2. Consumes(Reader, <<>> \o <<x>>, r) BY <2>2, <3>3, <5>1, ConsumesTwice
        <5>3. QED BY <4>1, <4>5, <5>2
      <4>7. st'.err = FALSE BY <3>6, <3>8, <4>1, <4>3
      <4>8. st'.acc # "none"
        <5>1. st'.acc = Reader.acc BY <4>6 DEF Consumes, SameFile
        <5>2. QED BY <2>2, <2>8, <5>1
      <4>9. ~st.lost => Abs!Getc
        BY <1>1, <1>2, <1>4, <2>8, <4>1, <4>6, <4>7, GetcSeen
      <4>10. QED BY <2>5, <4>1, <4>6, <4>7, <4>8, <4>9
    <3>9. QED BY <3>2, <3>7, <3>8
  <2>9. QED BY <1>1, <1>4, <2>6, <2>7, <2>8 DEF Fgetc
<1>5. QED BY <1>3, <1>4

\* The abstract fread().
LEMMA ReadGives ==
    ASSUME IInv, dir # "write", ~st.lost, May(st, "read"), open, UNCHANGED open,
           NEW c, Consumes(Reader, c, st'), st'.err => Rest(st') = <<>>,
           NEW b, b = Abs!PutBack, b \o c # <<>>,
           NEW k, k = Len(b \o c) \/ (~Buffered /\ k = Len(c)),
           ret' = [fn |-> "fread", n |-> k, s |-> b \o c]
    PROVE  Abs!Read
<1> DEFINE n == Len(b \o c)
<1>1. /\ Data' = Data /\ Position' = Position + Len(c)
      /\ Dirty' = Dirty /\ Kept' = Kept /\ Buffered' = Buffered
      /\ st'.can = st.can /\ st'.ch = EOF
      /\ c \in Seq(Bytes) /\ Rest(st') \in Seq(Bytes)
      /\ After(Data, Position) = c \o Rest(st')
  BY ReadSeen
<1>2. Abs!Readable BY DEF Abs!Readable, May, Kept
<1>3. Position \in Nat BY ReadView
<1>4. b \in Seq(Bytes)
  <2>1. st.ch \in Bytes \cup {EOF} BY StreamIs, BytesHole DEF IInv
  <2>2. b = IF st.ch = EOF THEN <<>> ELSE <<st.ch>> BY AbsIs
  <2>3. QED BY <2>1, <2>2
<1>5. b \o c \in Seq(Bytes) /\ n = Len(b) + Len(c) /\ n \in Nat BY <1>1, <1>4, CatIs
<1>6. n # 0 BY <1>5, NoBytes
<1>7. Abs!Input = (b \o c) \o Rest(st')
  <2>1. Abs!Input = b \o (c \o Rest(st')) BY <1>1, AbsIs
  <2>2. b \in Seq(Bytes) /\ c \in Seq(Bytes) /\ Rest(st') \in Seq(Bytes) BY <1>1, <1>4
  <2>3. (b \o c) \o Rest(st') = b \o (c \o Rest(st')) BY ZenonT(40), <2>2, CatBytes
  <2>4. QED BY <2>1, <2>3
<1>8. Len(Abs!Input) = n + Len(Rest(st')) BY <1>1, <1>5, <1>7, CatIs
<1>9. Abs!First(Abs!Input, n) = b \o c
  <2>1. First((b \o c) \o Rest(st'), n) = b \o c BY <1>1, <1>5, FirstOf
  <2>2. QED BY <1>7, <2>1, AbsIs
<1> HIDE DEF n
<1>10. n \in 1 .. Len(Abs!Input)
  <2>1. Len(Rest(st')) \in Nat BY <1>1
  <2>2. QED BY <1>5, <1>6, <1>8, <2>1
<1>11. k \in {n, n - Len(Abs!PutBack)} /\ (k = n \/ ~Buffered)
  <2>1. Len(b) \in Nat /\ Len(c) \in Nat BY <1>1, <1>4
  <2>2. Len(c) = n - Len(b) BY <1>5, <2>1
  <2>3. k = n \/ (~Buffered /\ k = n - Len(b)) BY <2>2 DEF n
  <2>4. QED BY <2>3
<1>12. Abs!Says("fread", k, Abs!First(Abs!Input, n)) BY <1>9 DEF Abs!Says
<1>13. Abs!Take(n)
  <2>1. Len(b) \in Nat /\ Len(c) \in Nat BY <1>1, <1>4
  <2>2. Position' = Position + n - Len(b) BY <1>1, <1>3, <1>5, <2>1
  <2>3. QED BY <1>1, <2>2, AbsIs DEF Abs!Take
<1>14. st'.err => n = Len(Abs!Input)
  <2>1. st'.err => Len(Rest(st')) = 0 BY <1>1, NoBytes
  <2>2. QED BY <1>5, <1>8, <2>1
<1>15. Abs!Keeps BY <1>1 DEF Abs!Keeps
<1>16. QED BY <1>1, <1>2, <1>10, <1>11, <1>12, <1>13, <1>14, <1>15 DEF Abs!Read

LEMMA ReadEnds ==
    ASSUME IInv, dir # "write", ~st.lost, May(st, "read"), open, UNCHANGED open,
           Consumes(Reader, <<>>, st'), Rest(st') = <<>>, st'.err,
           ret' = [fn |-> "fread", n |-> 0, s |-> <<>>]
    PROVE  Abs!Read
<1>1. /\ Data' = Data /\ Position' = Position + Len(<<>>)
      /\ Dirty' = Dirty /\ Kept' = Kept /\ Buffered' = Buffered
      /\ st'.can = st.can /\ st'.ch = EOF
      /\ After(Data, Position) = <<>> \o Rest(st')
  BY ReadSeen
<1>2. Abs!Readable BY DEF Abs!Readable, May, Kept
<1>3. Position' = Position
  <2>1. Position \in Nat BY ReadView
  <2>2. QED BY <1>1, <2>1
<1>4. Abs!Ahead = <<>>
  <2>1. After(Data, Position) = <<>> BY <1>1
  <2>2. QED BY <2>1, AbsIs
<1>5. Abs!Says("fread", 0, <<>>) BY DEF Abs!Says
<1>6. Abs!Keeps BY <1>1 DEF Abs!Keeps
<1>7. QED BY <1>1, <1>2, <1>3, <1>4, <1>5, <1>6, AbsIs DEF Abs!Read

LEMMA FreadKeeps == ASSUME NEW count \in Counts PROVE IInv /\ Fread(count) => IInv' /\ Abs!Next
<1>1. SUFFICES ASSUME IInv, Fread(count) PROVE IInv' /\ Abs!Next OBVIOUS
<1>2. dir # "write" BY <1>1 DEF Fread, Reads
<1>3. CASE ~May(st, "read")
  <2>1. Reads("fread", 0) BY <1>1 DEF Fread
  <2>2. IInv' /\ ~Abs!Readable /\ (Abs!Next \/ Abs!Refused("fread", 0))
    BY <1>1, <1>3, <2>1, RefusedRead
  <2>3. Abs!Refused("fread", 0) => Abs!Read BY <2>2 DEF Abs!Read
  <2>4. QED BY <2>2, <2>3 DEF Abs!Next
<1>4. CASE May(st, "read")
  <2> DEFINE b == IF st.ch = EOF THEN <<>> ELSE <<st.ch>>
             n == count - Len(b)
             d == DevRead(Reader, n)
  <2>1. dir' = "read" BY <1>1, <1>4 DEF Fread, Reads, Keep
  <2>2. /\ Reader \in Stream /\ Reader.err = st.err /\ Reader.last = "read"
        /\ Reader.ch = EOF /\ Reader.acc = st.acc /\ Reader.lost = st.lost
        /\ Reader.file = st.file /\ Reader.pos = st.pos /\ Reader.buf = st.buf
        /\ Empty(Reader) <=> Empty(st)
    BY <1>1, <1>2, Entering
  <2>3. ~Reader.err BY <1>4, <2>2 DEF May
  <2>4. st.acc = "none" => st.buf = <<>> BY <1>1 DEF IInv
  <2>5. b = Abs!PutBack BY AbsIs
  <2>6. b \in Seq(Bytes) /\ Len(b) \in {0, 1} /\ (b = <<>> <=> Len(b) = 0)
    <3>1. st.ch \in Bytes \cup {EOF} BY <1>1, StreamIs, BytesHole DEF IInv
    <3>2. QED BY <3>1
  <2>7. count \in Nat \ {0} BY StdioAssumption
  <2>8. n \in Nat /\ (b = <<>> => n > 0)
    <3> HIDE DEF b
    <3>1. QED BY <2>6, <2>7
  <2>9. \/ /\ st.acc = "none"
           /\ Call("fread", [Reader EXCEPT !.pos = @ + Len(d), !.err = Len(d) # n],
                   Len(d), b \o d)
        \/ st.acc # "none" /\ FreadBuffered(Reader, b, n)
    BY <1>1, <1>4 DEF Fread, Reader
  <2> HIDE DEF b, n
  <2>10. CASE /\ st.acc = "none"
              /\ Call("fread", [Reader EXCEPT !.pos = @ + Len(d), !.err = Len(d) # n],
                      Len(d), b \o d)
    <3> DEFINE t == [Reader EXCEPT !.pos = @ + Len(d)]
    <3>1. PICK e \in BOOLEAN : e = (Len(d) # n) OBVIOUS
    <3>20. e <=> Len(d) # n BY <3>1, Zenon
    <3> DEFINE u == [t EXCEPT !.err = e]
    <3>2. Reader \in FileState BY <2>2 DEF Stream
    <3>3. [Reader EXCEPT !.pos = @ + Len(d), !.err = Len(d) # n] = u BY <3>1, <3>2 DEF FileState
    <3>4. /\ open /\ st' = u /\ UNCHANGED open
          /\ ret' = [fn |-> "fread", n |-> Len(d), s |-> b \o d]
      BY <2>10, <3>3 DEF Call
    <3>5. Empty(Reader) /\ st.buf = <<>>
      <4>1. st.buf = <<>> BY <2>4, <2>10
      <4>2. End(st) = 0 /\ st.ptr \in Nat BY <1>1, <4>1, StreamIs DEF End, IInv
      <4>3. Empty(st) BY <4>2 DEF Empty
      <4>4. QED BY <2>2, <4>1, <4>3
    <3>6. /\ Consumes(Reader, d, t) /\ Empty(t) /\ t.err = Reader.err
          /\ Len(d) < n => Rest(t) = <<>>
      BY <2>2, <2>8, <3>5, ReadPast
    <3>7. d \in Seq(Bytes) /\ Len(d) <= n BY <2>2, <2>8, DevReadIs
    <3>8. t.buf = <<>>
      <4>1. t.buf = Reader.buf BY <3>2 DEF FileState
      <4>2. QED BY <2>2, <3>5, <4>1
    <3> HIDE DEF t, d
    <3>9. /\ Consumes(Reader, d, u) /\ u.err = e /\ u.buf = t.buf
          /\ Rest(u) = Rest(t) /\ (Empty(u) <=> Empty(t))
      BY <2>2, <3>6, WithErr
    <3> HIDE DEF u
    <3>10. st'.err => Rest(st') = <<>>
      <4>1. Len(d) \in Nat BY <3>7
      <4>2. e => Len(d) < n BY <2>8, <3>20, <3>7, <4>1
      <4>3. QED BY <3>4, <3>6, <3>9, <4>2
    <3>11. ASSUME ~st.lost PROVE Abs!Read
      <4>1. CASE b \o d # <<>>
        <5>1. Buffered = FALSE BY <2>10 DEF Buffered
        <5>2. Consumes(Reader, d, st') BY <3>4, <3>9
        <5>3. QED BY <1>1, <1>2, <1>4, <2>5, <3>4, <3>10, <3>11, <4>1, <5>1, <5>2, ReadGives
      <4>2. CASE b \o d = <<>>
        <5>1. Len(b \o d) = Len(b) + Len(d) /\ Len(b \o d) = 0 BY <2>6, <3>7, <4>2, CatIs
        <5>2. Len(b) = 0 /\ Len(d) = 0
          <6>1. Len(b) \in Nat /\ Len(d) \in Nat BY <2>6, <3>7
          <6>2. QED BY <5>1, <6>1
        <5>3. d = <<>> /\ b = <<>> BY <2>6, <3>7, <5>2, NoBytes
        <5>4. e BY <2>8, <3>20, <5>2, <5>3
        <5>5. st'.err /\ Rest(st') = <<>> BY <3>4, <3>9, <3>10, <5>4
        <5>6. ret' = [fn |-> "fread", n |-> 0, s |-> <<>>] BY <3>4, <4>2, <5>2
        <5>7. Consumes(Reader, <<>>, st') BY <3>4, <3>9, <5>3
        <5>8. QED BY <1>1, <1>2, <1>4, <3>4, <3>11, <5>5, <5>6, <5>7, ReadEnds
      <4>3. QED BY <4>1, <4>2
    <3>12. ~st.lost => Abs!Next BY <3>11 DEF Abs!Next
    <3>13. st'.err => Empty(st') BY <3>4, <3>6, <3>9
    <3>14. st'.buf = <<>> /\ Consumes(Reader, d, st') BY <3>4, <3>8, <3>9
    <3>15. QED BY <1>1, <1>2, <2>1, <3>4, <3>12, <3>13, <3>14, ReadCall
  <2>11. CASE st.acc # "none" /\ FreadBuffered(Reader, b, n)
    <3>1. \/ /\ Consumes(Reader, <<>>, st') /\ Gives("fread", 0, <<>>)
             /\ st'.err /\ AtEnd(st')
          \/ \E c \in Seq(Bytes) :
                /\ Consumes(Reader, c, st') /\ Gives("fread", Len(b \o c), b \o c)
                /\ st'.err => AtEnd(st')
                /\ n > 0 => c # <<>>
      BY <2>2, <2>3, <2>6, <2>8, <2>11, BufferedReads
    <3>2. ASSUME NEW c, Consumes(Reader, c, st') PROVE st'.acc # "none"
      BY <2>2, <2>11, <3>2 DEF Consumes, SameFile
    <3>3. CASE /\ Consumes(Reader, <<>>, st') /\ Gives("fread", 0, <<>>)
               /\ st'.err /\ AtEnd(st')
      <4>1. open /\ UNCHANGED open /\ ret' = [fn |-> "fread", n |-> 0, s |-> <<>>]
        BY <3>3 DEF Gives
      <4>2. Rest(st') = <<>> /\ Empty(st') BY <3>3 DEF AtEnd
      <4>3. ~st.lost => Abs!Read BY <1>1, <1>2, <1>4, <3>3, <4>1, <4>2, ReadEnds
      <4>4. ~st.lost => Abs!Next BY <4>3 DEF Abs!Next
      <4>5. st'.acc # "none" BY <3>2, <3>3
      <4>6. QED BY <1>1, <1>2, <2>1, <3>3, <4>1, <4>2, <4>4, <4>5, ReadCall
    <3>4. CASE \E c \in Seq(Bytes) :
                  /\ Consumes(Reader, c, st') /\ Gives("fread", Len(b \o c), b \o c)
                  /\ st'.err => AtEnd(st')
                  /\ n > 0 => c # <<>>
      <4>1. PICK c \in Seq(Bytes) :
                  /\ Consumes(Reader, c, st') /\ Gives("fread", Len(b \o c), b \o c)
                  /\ st'.err => AtEnd(st')
                  /\ n > 0 => c # <<>>
        BY <3>4
      <4>2. open /\ UNCHANGED open /\ ret' = [fn |-> "fread", n |-> Len(b \o c), s |-> b \o c]
        BY <4>1 DEF Gives
      <4>3. st'.err => Rest(st') = <<>> /\ Empty(st') BY <4>1 DEF AtEnd
      <4>4. b \o c # <<>>
        <5>1. Len(b \o c) = Len(b) + Len(c) BY <2>6, CatIs
        <5>2. Len(b) \in Nat /\ Len(c) \in Nat BY <2>6
        <5>3. Len(b) # 0 \/ Len(c) # 0 BY <2>6, <2>8, <4>1, NoBytes
        <5>4. Len(b \o c) # 0 BY <5>1, <5>2, <5>3
        <5>5. QED BY <5>4
      <4>5. ~st.lost => Abs!Read
        BY <1>1, <1>2, <1>4, <2>5, <4>1, <4>2, <4>3, <4>4, ReadGives
      <4>6. ~st.lost => Abs!Next BY <4>5 DEF Abs!Next
      <4>7. st'.acc # "none" BY <3>2, <4>1
      <4>8. QED BY <1>1, <1>2, <2>1, <4>1, <4>2, <4>3, <4>6, <4>7, ReadCall
    <3>5. QED BY <3>1, <3>3, <3>4
  <2>12. QED BY <2>9, <2>10, <2>11
<1>5. QED BY <1>3, <1>4
-----------------------------------------------------------------------------
(* fgets(), and the calls that neither read nor write. *)

LEMMA MinIs ==
    ASSUME NEW M \in SUBSET Int, NEW m \in M, \A x \in M : m <= x
    PROVE  Min(M) = m
<1>1. \E y \in M : \A x \in M : y <= x OBVIOUS
<1>2. Min(M) \in M /\ \A x \in M : Min(M) <= x BY <1>1, Zenon DEF Min
<1>3. Min(M) <= m /\ m <= Min(M) /\ Min(M) \in Int BY <1>2
<1>4. QED BY <1>3

\* A line ends behind its newline, where there is no more, or where there is no
\* room for more.
LEMMA LineIs ==
    ASSUME NEW a \in Seq(Bytes), NEW max \in Nat, NEW n \in Nat, n <= max, n <= Len(a),
           \A i \in 1 .. Len(a) : i < n => a[i] # NL,
           n = max \/ n = Len(a) \/ (n > 0 /\ a[n] = NL)
    PROVE  Abs!LineLen(a, max) = n
<1> DEFINE M == {i \in 1 .. Len(a) : a[i] = NL} \cup {Len(a), max}
<1>1. M \in SUBSET Int /\ n \in M
  <2>1. Len(a) \in Nat OBVIOUS
  <2>2. M \in SUBSET Int BY <2>1
  <2>3. n > 0 => n \in 1 .. Len(a) BY <2>1
  <2>4. n \in M BY <2>3
  <2>5. QED BY <2>2, <2>4
<1>2. \A x \in M : n <= x
  <2>1. TAKE x \in M
  <2>2. CASE x \in 1 .. Len(a) /\ a[x] = NL
    <3>1. ~(x < n) /\ x \in Int BY <2>2
    <3>2. QED BY <3>1
  <2>3. CASE x = Len(a) BY <2>3
  <2>4. CASE x = max BY <2>4
  <2>5. QED BY <2>2, <2>3, <2>4
<1> HIDE DEF M
<1>3. Min(M) = n BY <1>1, <1>2, MinIs
<1>4. Abs!LineLen(a, max) = Min(M) BY DEF Abs!LineLen, M, Abs!Min, Min
<1>5. QED BY <1>3, <1>4

\* The abstract fgets().
LEMMA GetsGives ==
    ASSUME IInv, dir # "write", ~st.lost, May(st, "read"), open, UNCHANGED open,
           NEW c, Consumes(Reader, c, st'), NEW len \in Nat, NEW b, b = Abs!PutBack,
           len - 1 - Len(b) \in Nat,
           Abs!LineLen(After(Data, Position), len - 1 - Len(b)) = Len(c),
           \/ /\ Len(c) = len - 1 - Len(b) \/ (c # <<>> /\ Last(c) = NL)
              /\ st'.err = FALSE
              /\ ret' = [fn |-> "fgets", n |-> 1, s |-> IF Buffered THEN b \o c ELSE c]
           \/ /\ ~(Len(c) = len - 1 - Len(b) \/ (c # <<>> /\ Last(c) = NL))
              /\ st'.err = Buffered
              /\ ret' = [fn |-> "fgets", n |-> 0, s |-> <<>>]
    PROVE  Abs!Gets(len)
<1> DEFINE k == Len(Abs!PutBack)
           n == k + Abs!LineLen(Abs!Ahead, len - 1 - k)
           line == Abs!First(Abs!Input, n)
           whole == n = len - 1 \/ (n > k /\ line[n] = NL)
           whole0 == Len(c) = len - 1 - Len(b) \/ (c # <<>> /\ Last(c) = NL)
<1>1. /\ Data' = Data /\ Position' = Position + Len(c)
      /\ Dirty' = Dirty /\ Kept' = Kept /\ Buffered' = Buffered
      /\ st'.can = st.can /\ st'.ch = EOF
      /\ c \in Seq(Bytes) /\ Rest(st') \in Seq(Bytes)
      /\ After(Data, Position) = c \o Rest(st')
  BY ReadSeen
<1>2. Abs!Readable /\ st.err = FALSE
  <2>1. st.err \in BOOLEAN BY StreamIs DEF IInv
  <2>2. QED BY <2>1 DEF Abs!Readable, May, Kept
<1>3. Position \in Nat BY ReadView
<1>4. b \in Seq(Bytes) /\ Len(b) \in Nat /\ Len(c) \in Nat
  <2>1. st.ch \in Bytes \cup {EOF} BY StreamIs, BytesHole DEF IInv
  <2>2. b = IF st.ch = EOF THEN <<>> ELSE <<st.ch>> BY AbsIs
  <2>3. QED BY <1>1, <2>1, <2>2
<1>5. k = Len(b) /\ n = Len(b) + Len(c) BY AbsIs
<1>6. line = b \o c
  <2>1. b \o c \in Seq(Bytes) /\ Len(b \o c) = n BY <1>1, <1>4, <1>5, CatIs
  <2>2. Abs!Input = b \o (c \o Rest(st')) BY <1>1, AbsIs
  <2>3. Abs!Input = (b \o c) \o Rest(st')
    <3>1. b \in Seq(Bytes) /\ c \in Seq(Bytes) /\ Rest(st') \in Seq(Bytes) BY <1>1, <1>4
    <3>2. (b \o c) \o Rest(st') = b \o (c \o Rest(st')) BY <3>1, CatBytes
    <3>3. QED BY <2>2, <3>2
  <2>4. First((b \o c) \o Rest(st'), Len(b \o c)) = b \o c BY <1>1, <2>1, FirstOf
  <2>5. QED BY <2>1, <2>3, <2>4, AbsIs
<1>7. whole <=> whole0
  <2>1. n = len - 1 <=> Len(c) = len - 1 - Len(b) BY <1>4, <1>5
  <2>2. n > k <=> c # <<>>
    <3>1. c # <<>> <=> Len(c) # 0 BY <1>1, NoBytes
    <3>2. QED BY <1>4, <1>5, <3>1
  <2>3. c # <<>> => line[n] = Last(c)
    <3>1. HAVE c # <<>>
    <3>2. Len(c) \in 1 .. Len(c) BY <1>1, <1>4, <3>1, NoBytes
    <3>3. (b \o c)[Len(b) + Len(c)] = c[Len(c)] BY <1>1, <1>4, <3>2, CatIs
    <3>4. QED BY <1>5, <1>6, <3>3 DEF Last
  <2>4. QED BY <2>1, <2>2, <2>3
<1>8. Abs!After(line, k) = c
  <2>1. After(b \o c, Len(b)) = c BY <1>1, <1>4, FirstOf
  <2>2. QED BY <1>5, <1>6, <2>1, AbsIs
<1>9. st'.ch = Abs!EOF /\ Position' = Position + n - k
  <2>1. Position' = Position + n - k BY <1>1, <1>3, <1>4, <1>5
  <2>2. QED BY <1>1, <2>1, AbsIs
<1>10. Abs!Keeps BY <1>1 DEF Abs!Keeps
<1> HIDE DEF k, n, line, whole, whole0
<1>11. CASE whole0
  <2>1. st'.err = FALSE /\ ret' = [fn |-> "fgets", n |-> 1, s |-> IF Buffered THEN b \o c ELSE c]
    BY <1>11 DEF whole0
  <2>2. Abs!Says("fgets", 1, IF Buffered THEN line ELSE Abs!After(line, k))
    BY <1>6, <1>8, <2>1 DEF Abs!Says
  <2>3. UNCHANGED <<Data, st.err, Dirty>> BY <1>1, <1>2, <2>1
  <2>4. QED BY <1>2, <1>7, <1>9, <1>10, <1>11, <2>2, <2>3 DEF Abs!Gets, whole, line, n, k
<1>12. CASE ~whole0
  <2>1. st'.err = Buffered /\ ret' = [fn |-> "fgets", n |-> 0, s |-> <<>>]
    BY <1>12 DEF whole0
  <2>2. Abs!Says("fgets", 0, <<>>) BY <2>1 DEF Abs!Says
  <2>3. UNCHANGED <<Data, Dirty>> BY <1>1
  <2>4. QED BY <1>2, <1>7, <1>9, <1>10, <1>12, <2>1, <2>2, <2>3 DEF Abs!Gets, whole, line, n, k
<1>13. QED BY <1>11, <1>12

\* What fgets_raw() reads, and where that leaves the stream.
LEMMA RawLineIs ==
    ASSUME NEW s \in Stream, NEW max \in Nat
    PROVE  \E n \in Nat :
              /\ RawLine(s, max) = DevRead(s, n) /\ n <= max
              /\ Len(RawLine(s, max)) <= max
              /\ Abs!LineLen(After(s.file, s.pos), max) = Len(RawLine(s, max))
<1> DEFINE a == After(s.file, s.pos)
           d == DevRead(s, max)
           M == {i \in 1 .. Len(d) : d[i] = NL} \cup {max}
           r == RawLine(s, max)
<1>1. /\ a \in Seq(Bytes) /\ d \in Seq(Bytes) /\ d = First(a, max) /\ Len(d) <= max
      /\ Len(d) < max => Len(d) = Len(a)
  BY DevReadIs
<1>2. Len(d) = Least(max, Len(a)) /\ \A i \in 1 .. Len(d) : d[i] = a[i] BY <1>1, FirstIs
<1>3. Len(a) \in Nat /\ Len(d) \in Nat /\ Len(d) <= Len(a) BY <1>1, <1>2 DEF Least
<1>4. r = First(d, Min(M)) BY DEF RawLine
<1> HIDE DEF a, d
<1>5. PICK n \in M : \A x \in M : n <= x
  <2>1. M \in SUBSET Nat /\ M # {} BY <1>3
  <2> HIDE DEF M
  <2>2. QED BY <2>1, LeastNat
<1>6. n \in Nat /\ n <= max /\ M \in SUBSET Int BY <1>3, <1>5
<1>7. Min(M) = n
  <2> HIDE DEF M
  <2>1. QED BY <1>5, <1>6, MinIs
<1>8. n < max => n \in 1 .. Len(d) /\ d[n] = NL BY <1>5, <1>6
<1>9. \A i \in 1 .. Len(d) : i < n => d[i] # NL
  <2>1. TAKE i \in 1 .. Len(d)
  <2>2. SUFFICES ASSUME d[i] = NL PROVE ~(i < n) OBVIOUS
  <2>3. i \in M BY <2>2
  <2>4. n <= i BY <1>5, <2>3
  <2>5. QED BY <1>3, <1>6, <2>4
<1> HIDE DEF M
<1>10. r = First(d, n) BY <1>4, <1>7
<1>11. r = First(a, n)
  <2>1. First(d, n) \in Seq(Bytes) /\ Len(First(d, n)) = Least(n, Len(d))
        /\ \A i \in 1 .. Len(First(d, n)) : First(d, n)[i] = d[i]
    BY <1>1, <1>6, FirstIs
  <2>2. First(a, n) \in Seq(Bytes) /\ Len(First(a, n)) = Least(n, Len(a))
        /\ \A i \in 1 .. Len(First(a, n)) : First(a, n)[i] = a[i]
    BY <1>1, <1>6, FirstIs
  <2>3. Least(n, Len(d)) = Least(n, Len(a)) /\ Least(n, Len(d)) <= Len(d)
    BY <1>2, <1>3, <1>6 DEF Least
  <2>4. \A i \in 1 .. Len(First(d, n)) : First(d, n)[i] = First(a, n)[i]
    BY <1>2, <1>3, <2>1, <2>2, <2>3
  <2>5. First(d, n) = First(a, n) BY <2>1, <2>2, <2>3, <2>4, SameSeq
  <2>6. QED BY <1>10, <2>5
<1>12. r = DevRead(s, n) BY <1>11 DEF DevRead, a
<1>13. Len(r) = Least(n, Len(a)) /\ Len(r) \in Nat BY <1>1, <1>6, <1>11, FirstIs
<1>14. Len(r) <= max /\ Len(r) <= Len(a) BY <1>3, <1>6, <1>13 DEF Least
<1>15. Abs!LineLen(a, max) = Len(r)
  <2>1. \A i \in 1 .. Len(a) : i < Len(r) => a[i] # NL
    <3>1. TAKE i \in 1 .. Len(a)
    <3>2. HAVE i < Len(r)
    <3>3. Len(r) <= n /\ Len(r) <= Len(d) BY <1>2, <1>3, <1>6, <1>13 DEF Least
    <3>4. i \in 1 .. Len(d) /\ i < n BY <1>3, <1>6, <1>13, <3>2, <3>3
    <3>5. QED BY <1>2, <1>9, <3>4
  <2>2. Len(r) = max \/ Len(r) = Len(a) \/ (Len(r) > 0 /\ a[Len(r)] = NL)
    <3>1. CASE n = max BY <1>3, <1>13, <3>1 DEF Least
    <3>2. CASE n < max
      <4>1. n \in 1 .. Len(d) /\ d[n] = NL BY <1>8, <3>2
      <4>2. Len(r) = n BY <1>3, <1>13, <4>1 DEF Least
      <4>3. QED BY <1>2, <4>1, <4>2
    <3>3. QED BY <1>6, <3>1, <3>2
  <2> HIDE DEF r
  <2>3. QED BY <1>1, <1>13, <1>14, <2>1, <2>2, LineIs
<1>16. QED BY <1>6, <1>12, <1>14, <1>15 DEF a

LEMMA FgetsKeeps == ASSUME NEW len \in Lens PROVE IInv /\ Fgets(len) => IInv' /\ Abs!Next
<1>1. SUFFICES ASSUME IInv, Fgets(len) PROVE IInv' /\ Abs!Next OBVIOUS
<1>2. dir # "write" BY <1>1 DEF Fgets, Reads
<1>0. Abs!Gets(len) => Abs!Next BY DEF Abs!Next
<1>3. CASE ~May(st, "read")
  <2>1. Reads("fgets", 0) BY <1>1 DEF Fgets
  <2>2. IInv' /\ ~Abs!Readable /\ (Abs!Next \/ Abs!Refused("fgets", 0))
    BY <1>1, <1>3, <2>1, RefusedRead
  <2>3. Abs!Refused("fgets", 0) => Abs!Gets(len) BY <2>2 DEF Abs!Gets
  <2>4. QED BY <1>0, <2>2, <2>3
<1>4. CASE May(st, "read")
  <2> DEFINE b == IF st.ch = EOF THEN <<>> ELSE <<st.ch>>
             max == len - 1 - Len(b)
             g == GetsBuffered(Reader, max)
             r == RawLine(Reader, max)
             whole == Len(r) = max \/ (r # <<>> /\ Last(r) = NL)
             t == [Reader EXCEPT !.pos = @ + Len(r)]
  <2>1. dir' = "read" BY <1>1, <1>4 DEF Fgets, Reads, Keep
  <2>2. /\ Reader \in Stream /\ Reader.err = st.err /\ Reader.last = "read"
        /\ Reader.ch = EOF /\ Reader.acc = st.acc /\ Reader.lost = st.lost
        /\ Reader.file = st.file /\ Reader.pos = st.pos /\ Reader.buf = st.buf
        /\ Empty(Reader) <=> Empty(st)
        /\ Rest(Reader) = Rest(st)
    BY <1>1, <1>2, Entering
  <2>3. ~Reader.err BY <1>4, <2>2 DEF May
  <2>4. st.acc = "none" => st.buf = <<>> BY <1>1 DEF IInv
  <2>5. b = Abs!PutBack BY AbsIs
  <2>6. Len(b) \in {0, 1}
    <3>1. Len(<<>>) = 0 /\ Len(<<st.ch>>) = 1 OBVIOUS
    <3>2. QED BY <3>1
  <2>7. len \in Nat \ {0, 1} BY StdioAssumption
  <2>8. max \in Nat
    <3> HIDE DEF b
    <3>1. len \in Nat /\ len >= 2 BY <2>7
    <3>2. Len(b) = 0 \/ Len(b) = 1 BY <2>6
    <3>3. len - 1 - 0 \in Nat /\ len - 1 - 1 \in Nat BY <3>1
    <3>4. CASE Len(b) = 0 BY <3>3, <3>4
    <3>5. CASE Len(b) = 1 BY <3>3, <3>5
    <3>6. QED BY <3>2, <3>4, <3>5
  <2>9. \/ /\ st.acc = "none"
           /\ Call("fgets", t, IF whole THEN 1 ELSE 0, IF whole THEN r ELSE <<>>)
        \/ /\ st.acc # "none"
           /\ IF g.s.err THEN Call("fgets", g.s, 0, <<>>) ELSE Call("fgets", g.s, 1, b \o g.b)
    BY <1>1, <1>4 DEF Fgets, Reader
  <2>10. ~st.lost => Rest(Reader) = After(Data, Position) BY <1>1, <1>2, <2>2, ReadView
  <2> HIDE DEF b, max, g, r, whole, t
  <2>11. CASE /\ st.acc = "none"
              /\ Call("fgets", t, IF whole THEN 1 ELSE 0, IF whole THEN r ELSE <<>>)
    <3>1. /\ open /\ st' = t /\ UNCHANGED open
          /\ ret' = [fn |-> "fgets", n |-> IF whole THEN 1 ELSE 0, s |-> IF whole THEN r ELSE <<>>]
      BY <2>11 DEF Call
    <3>2. Empty(Reader) /\ st.buf = <<>>
      <4>1. st.buf = <<>> BY <2>4, <2>11
      <4>2. End(st) = 0 /\ st.ptr \in Nat BY <1>1, <4>1, StreamIs DEF End, IInv
      <4>3. Empty(st) BY <4>2 DEF Empty
      <4>4. QED BY <2>2, <4>1, <4>3
    <3>3. PICK n \in Nat :
              /\ RawLine(Reader, max) = DevRead(Reader, n) /\ n <= max
              /\ Len(RawLine(Reader, max)) <= max
              /\ Abs!LineLen(After(Reader.file, Reader.pos), max) = Len(RawLine(Reader, max))
      BY <2>2, <2>8, RawLineIs
    <3>4. /\ Consumes(Reader, r, t) /\ Empty(t) /\ t.err = Reader.err
      BY <2>2, <3>2, <3>3, ReadPast DEF r, t
    <3>5. t.buf = <<>>
      <4>1. Reader \in FileState BY <2>2 DEF Stream
      <4>2. t.buf = Reader.buf BY <4>1 DEF FileState, t
      <4>3. QED BY <2>2, <3>2, <4>2
    <3>6. st'.err = FALSE BY <2>2, <2>3, <3>1, <3>4, StreamIs
    <3>7. ASSUME ~st.lost PROVE Abs!Gets(len)
      <4>1. Held(Reader) = <<>> BY <2>2, <3>2, HeldIs
      <4>2. After(Reader.file, Reader.pos) \in Seq(Bytes) BY <2>2, StreamIs, AfterIs
      <4>3. Rest(Reader) = After(Reader.file, Reader.pos) BY <4>1, <4>2, NoBytes DEF Rest
      <4>4. Abs!LineLen(After(Data, Position), len - 1 - Len(b)) = Len(r)
        BY <2>10, <3>3, <3>7, <4>3 DEF max, r
      <4>5. Buffered = FALSE BY <2>11 DEF Buffered
      <4>6. Consumes(Reader, r, st') BY <3>1, <3>4
      <4>7. len - 1 - Len(b) \in Nat /\ len \in Nat BY <2>7, <2>8 DEF max
      <4>8. \/ /\ Len(r) = len - 1 - Len(b) \/ (r # <<>> /\ Last(r) = NL)
               /\ st'.err = FALSE
               /\ ret' = [fn |-> "fgets", n |-> 1, s |-> IF Buffered THEN b \o r ELSE r]
            \/ /\ ~(Len(r) = len - 1 - Len(b) \/ (r # <<>> /\ Last(r) = NL))
               /\ st'.err = Buffered
               /\ ret' = [fn |-> "fgets", n |-> 0, s |-> <<>>]
        <5>1. CASE whole BY <3>1, <3>6, <4>5, <5>1 DEF whole, max
        <5>2. CASE ~whole BY <3>1, <3>6, <4>5, <5>2 DEF whole, max
        <5>3. QED BY <5>1, <5>2
      <4>9. QED BY <1>1, <1>2, <1>4, <2>5, <3>1, <3>7, <4>4, <4>6, <4>7, <4>8, GetsGives
    <3>8. Consumes(Reader, r, st') /\ st'.buf = <<>> /\ (st'.err => Empty(st'))
      BY <3>1, <3>4, <3>5
    <3>9. QED BY <1>0, <1>1, <1>2, <2>1, <3>1, <3>7, <3>8, ReadCall
  <2>12. CASE /\ st.acc # "none"
              /\ IF g.s.err THEN Call("fgets", g.s, 0, <<>>) ELSE Call("fgets", g.s, 1, b \o g.b)
    <3>1. /\ open /\ st' = g.s /\ UNCHANGED open
          /\ ret' = IF g.s.err THEN [fn |-> "fgets", n |-> 0, s |-> <<>>]
                    ELSE [fn |-> "fgets", n |-> 1, s |-> b \o g.b]
      BY <2>12 DEF Call
    <3>2. Gets(Reader, g, max) /\ (max = 0 => ~g.s.err) BY <2>2, <2>3, <2>8, GetsAll DEF g
    <3> DEFINE c == g.b
    <3>3. /\ c \in Seq(Bytes) /\ Consumes(Reader, c, g.s)
          /\ g.s.err => AtEnd(g.s)
          /\ Len(c) <= max
          /\ \A j \in 1 .. Len(c) : j < Len(c) \/ g.s.err => c[j] # NL
          /\ Len(c) < max => g.s.err \/ (c # <<>> /\ Last(c) = NL)
          /\ Len(c) = max /\ max > 0 => ~g.s.err
      BY <3>2 DEF Gets
    <3>4. /\ g.s \in Stream /\ Rest(g.s) \in Seq(Bytes) /\ Rest(Reader) = c \o Rest(g.s)
          /\ g.s.acc = st.acc
      BY <2>2, <3>3 DEF Consumes, SameFile
    <3>5. Len(c) \in Nat /\ g.s.err \in BOOLEAN BY <3>3, <3>4, StreamIs
    <3>6. (g.s.err /\ ~(Len(c) = max \/ (c # <<>> /\ Last(c) = NL)))
          \/ (~g.s.err /\ (Len(c) = max \/ (c # <<>> /\ Last(c) = NL)))
      <4>1. CASE g.s.err
        <5>1. Len(c) # max BY <2>8, <3>2, <3>3, <4>1
        <5>2. c # <<>> => Last(c) # NL
          <6>1. c # <<>> => Len(c) \in 1 .. Len(c) BY <3>3, <3>5, NoBytes
          <6>2. QED BY <3>3, <4>1, <6>1 DEF Last
        <5>3. QED BY <4>1, <5>1, <5>2
      <4>2. CASE ~g.s.err
        <5>1. Len(c) = max \/ Len(c) < max BY <2>8, <3>3, <3>5
        <5>2. QED BY <3>3, <4>2, <5>1
      <4>3. QED BY <4>1, <4>2
    <3> HIDE DEF c
    <3>7. ASSUME ~st.lost PROVE Abs!Gets(len)
      <4> DEFINE a == c \o Rest(g.s)
      <4>1. /\ a \in Seq(Bytes) /\ Len(a) = Len(c) + Len(Rest(g.s))
            /\ \A i \in 1 .. Len(c) : a[i] = c[i]
        BY ZenonT(60), <3>3, <3>4, CatIs DEF c
      <4>2. Len(Rest(g.s)) \in Nat BY <3>4
      <4>3. a = After(Data, Position) BY <2>10, <3>4, <3>7 DEF c
      <4> HIDE DEF a
      <4>4. \A i \in 1 .. Len(a) : i < Len(c) => a[i] # NL
        <5>1. TAKE i \in 1 .. Len(a)
        <5>2. HAVE i < Len(c)
        <5>3. i \in 1 .. Len(c) BY <3>5, <5>2
        <5>4. QED BY <3>3, <4>1, <5>2, <5>3 DEF c
      <4>5. Len(c) = max \/ Len(c) = Len(a) \/ (Len(c) > 0 /\ a[Len(c)] = NL)
        <5>1. CASE g.s.err
          <6>1. Len(Rest(g.s)) = 0 BY <3>3, <5>1 DEF AtEnd
          <6>2. QED BY <3>5, <4>1, <6>1
        <5>2. CASE c # <<>> /\ Last(c) = NL
          <6>1. Len(c) \in 1 .. Len(c)
            <7>1. c \in Seq(Bytes) BY <3>3 DEF c
            <7>2. Len(c) # 0 BY <5>2, <7>1, NoBytes
            <7>3. QED BY <3>5, <7>2
          <6>2. a[Len(c)] = NL BY <4>1, <5>2, <6>1 DEF Last
          <6>3. QED BY <3>5, <6>1, <6>2
        <5>3. QED BY <3>6, <5>1, <5>2
      <4>6. Len(c) <= Len(a) /\ Len(c) <= max
        <5>1. Len(c) <= max BY <3>3 DEF c
        <5>2. QED BY <3>5, <4>1, <4>2, <5>1
      <4>7. Abs!LineLen(a, max) = Len(c) BY <2>8, <3>5, <4>1, <4>4, <4>5, <4>6, LineIs
      <4>8. Abs!LineLen(After(Data, Position), len - 1 - Len(b)) = Len(c)
        BY <4>3, <4>7 DEF max
      <4>9. Buffered = TRUE BY <2>12 DEF Buffered
      <4>10. Consumes(Reader, c, st') BY <3>1, <3>3 DEF c
      <4>11. len - 1 - Len(b) \in Nat /\ len \in Nat BY <2>7, <2>8 DEF max
      <4>12. \/ /\ Len(c) = len - 1 - Len(b) \/ (c # <<>> /\ Last(c) = NL)
                /\ st'.err = FALSE
                /\ ret' = [fn |-> "fgets", n |-> 1, s |-> IF Buffered THEN b \o c ELSE c]
             \/ /\ ~(Len(c) = len - 1 - Len(b) \/ (c # <<>> /\ Last(c) = NL))
                /\ st'.err = Buffered
                /\ ret' = [fn |-> "fgets", n |-> 0, s |-> <<>>]
        <5>1. CASE g.s.err
          <6>1. ~(Len(c) = len - 1 - Len(b) \/ (c # <<>> /\ Last(c) = NL))
            BY <3>6, <5>1 DEF max
          <6>2. st'.err = Buffered BY <3>1, <3>5, <4>9, <5>1
          <6>3. QED BY <3>1, <5>1, <6>1, <6>2
        <5>2. CASE ~g.s.err
          <6>1. Len(c) = len - 1 - Len(b) \/ (c # <<>> /\ Last(c) = NL)
            BY <3>6, <5>2 DEF max
          <6>2. st'.err = FALSE BY <3>1, <3>5, <5>2
          <6>3. ret' = [fn |-> "fgets", n |-> 1, s |-> IF Buffered THEN b \o c ELSE c]
            BY <3>1, <4>9, <5>2 DEF c
          <6>4. QED BY <6>1, <6>2, <6>3
        <5>3. QED BY <5>1, <5>2
      <4>13. QED
        BY <1>1, <1>2, <1>4, <2>5, <3>1, <3>7, <4>8, <4>10, <4>11, <4>12, GetsGives
    <3>8. /\ Consumes(Reader, c, st') /\ st'.acc # "none" /\ (st'.err => Empty(st'))
      BY <2>12, <3>1, <3>3, <3>4 DEF AtEnd, c
    <3>9. QED BY <1>0, <1>1, <1>2, <2>1, <3>1, <3>7, <3>8, ReadCall
  <2>13. QED BY <2>9, <2>11, <2>12
<1>5. QED BY <1>3, <1>4
-----------------------------------------------------------------------------
(* Calls that move no byte. *)

\* The stream but for the error flag and the character put back.
LEMMA SameView ==
    ASSUME IInv, NEW c \in Chars \cup {EOF}, NEW e \in BOOLEAN,
           st' = [st EXCEPT !.ch = c, !.err = e]
    PROVE  /\ st' \in Stream /\ st'.ch = c /\ st'.err = e /\ st'.last = st.last
           /\ st'.lost = st.lost /\ st'.can = st.can /\ st'.acc = st.acc /\ st'.buf = st.buf
           /\ Fits(st') /\ (Empty(st') <=> Empty(st)) /\ (Behind(st') <=> Behind(st))
           /\ LinesAreOut'
           /\ Data' = Data /\ Position' = Position /\ Dirty' = Dirty /\ Kept' = Kept
           /\ Buffered' = Buffered
<1>1. st \in Stream /\ st \in FileState BY DEF IInv, Stream
<1>2. /\ st'.ch = c /\ st'.err = e /\ st'.last = st.last /\ st'.lost = st.lost
      /\ st'.can = st.can /\ st'.acc = st.acc /\ st'.buf = st.buf /\ st'.ptr = st.ptr
      /\ st'.file = st.file /\ st'.pos = st.pos
  BY <1>1 DEF FileState
<1>3. st' \in FileState BY <1>1 DEF FileState
<1>4. /\ End(st') = End(st) /\ Held(st') = Held(st) /\ Unread(st') = Unread(st)
      /\ Rest(st') = Rest(st) /\ At(st') = At(st)
  BY <1>2 DEF End, Held, Unread, Rest, At
<1>5. st' \in Stream BY <1>1, <1>2, <1>3, <1>4 DEF Stream
<1>6. Empty(st') <=> Empty(st) BY <1>2, <1>4 DEF Empty
<1>7. Behind(st') <=> Behind(st) BY <1>2, <1>4 DEF Behind
<1>8. Fits(st') BY <1>2 DEF IInv, Fits
<1>9. Pending' = Pending BY <1>2, <1>4 DEF Pending
<1>10. LinesAreOut' BY <1>2, <1>9 DEF IInv, LinesAreOut
<1>11. Data' = Data /\ Position' = Position BY <1>2, <1>4, <1>9 DEF Data, Position
<1>12. Dirty' = Dirty /\ Kept' = Kept /\ Buffered' = Buffered
  BY <1>2, <1>9 DEF Dirty, Kept, Buffered
<1>13. QED BY <1>2, <1>5, <1>6, <1>7, <1>8, <1>10, <1>11, <1>12

LEMMA UngetcKeeps == ASSUME NEW c \in Typed PROVE IInv /\ Ungetc(c) => IInv' /\ Abs!Next
<1>1. SUFFICES ASSUME IInv, Ungetc(c) PROVE IInv' /\ Abs!Next OBVIOUS
<1>2. c \in Chars /\ st \in Stream /\ dir = "read" BY <1>1, StdioAssumption DEF Ungetc, IInv
<1>3. open /\ UNCHANGED <<open, dir>> BY <1>1 DEF Ungetc, Refuse, Call, Keep
<1>4. Abs!PutCharBack(c) => Abs!Next BY <1>2 DEF Abs!Next
<1>5. CASE st.ch # EOF /\ Refuse("ungetc", EOF)
  <2>1. CASE st.lost
    <3>1. st' = st BY <1>5 DEF Refuse, Call
    <3>2. QED BY <1>1, <1>3, <2>1, <3>1, NothingDone, Lost
  <2>2. CASE ~st.lost
    <3>1. IInv' /\ Abs!Refused("ungetc", EOF) BY <1>1, <1>5, <2>2, Refused
    <3>2. Abs!PutCharBack(c) BY <1>3, <1>5, <2>2, <3>1, AbsIs DEF Abs!PutCharBack, Kept
    <3>3. QED BY <1>4, <3>1, <3>2
  <2>3. QED BY <2>1, <2>2
<1>6. CASE st.ch = EOF /\ Call("ungetc", [st EXCEPT !.ch = c, !.err = FALSE], c, <<>>)
  <2>1. /\ st' = [st EXCEPT !.ch = c, !.err = FALSE]
        /\ ret' = [fn |-> "ungetc", n |-> c, s |-> <<>>]
    BY <1>6 DEF Call
  <2>2. c \in Chars \cup {EOF} /\ FALSE \in BOOLEAN BY <1>2
  <2>3. /\ st' \in Stream /\ st'.ch = c /\ st'.err = FALSE /\ st'.last = st.last
        /\ st'.lost = st.lost /\ st'.can = st.can /\ st'.acc = st.acc /\ st'.buf = st.buf
        /\ Fits(st') /\ (Empty(st') <=> Empty(st)) /\ (Behind(st') <=> Behind(st))
        /\ LinesAreOut'
        /\ Data' = Data /\ Position' = Position /\ Dirty' = Dirty /\ Kept' = Kept
        /\ Buffered' = Buffered
    BY <1>1, <2>1, <2>2, SameView
  <2>4. ~st'.lost => Sound(st', dir') BY <1>1, <1>2, <1>3, <2>3 DEF IInv, Sound
  <2>5. IInv' BY <1>1, <1>2, <1>3, <2>3, <2>4 DEF IInv
  <2>6. ~st.lost => Abs!PutCharBack(c)
    BY <1>3, <1>6, <2>1, <2>3, AbsIs DEF Abs!PutCharBack, Abs!Says, Abs!Keeps, Kept
  <2>7. st.lost => Abs!Next BY <1>3, <2>3, Lost
  <2>8. QED BY <1>4, <2>5, <2>6, <2>7
<1>7. QED BY <1>1, <1>5, <1>6 DEF Ungetc

LEMMA ClearerrKeeps == IInv /\ Clearerr => IInv' /\ Abs!Next
<1>1. SUFFICES ASSUME IInv, Clearerr PROVE IInv' /\ Abs!Next OBVIOUS
<1>2. /\ open /\ UNCHANGED <<open, dir>> /\ st' = [st EXCEPT !.err = FALSE]
      /\ ret' = [fn |-> "clearerr", n |-> 0, s |-> <<>>]
  BY <1>1 DEF Clearerr, Call, Keep
<1>3. st \in Stream /\ st \in FileState /\ st.ch \in Chars \cup {EOF} BY <1>1, StreamIs DEF IInv, Stream
<1>4. st' = [st EXCEPT !.ch = st.ch, !.err = FALSE] BY <1>2, <1>3 DEF FileState
<1>5. FALSE \in BOOLEAN OBVIOUS
<1>6. /\ st' \in Stream /\ st'.ch = st.ch /\ st'.err = FALSE /\ st'.last = st.last
      /\ st'.lost = st.lost /\ st'.can = st.can /\ st'.acc = st.acc /\ st'.buf = st.buf
      /\ Fits(st') /\ (Empty(st') <=> Empty(st)) /\ (Behind(st') <=> Behind(st))
      /\ LinesAreOut'
      /\ Data' = Data /\ Position' = Position /\ Dirty' = Dirty /\ Kept' = Kept
      /\ Buffered' = Buffered
  BY <1>1, <1>3, <1>4, <1>5, SameView
<1>7. ~st'.lost => Sound(st', dir') BY <1>1, <1>2, <1>6 DEF IInv, Sound
<1>8. IInv' BY <1>1, <1>2, <1>6, <1>7 DEF IInv
<1>9. ~st.lost => Abs!Clearerr
  BY <1>2, <1>6 DEF Abs!Clearerr, Abs!Says, Abs!Keeps, Kept
<1>10. st.lost => Abs!Next BY <1>2, <1>6, Lost
<1>11. QED BY <1>8, <1>9, <1>10 DEF Abs!Next

\* What ftell() returns is where the program is, but for what was put back.
LEMMA TellIs ==
    ASSUME IInv, ~st.lost
    PROVE  /\ Tell(st) = Position - (IF Buffered THEN Len(Abs!PutBack) ELSE 0)
           /\ Len(Abs!PutBack) \in {0, 1} /\ (st.last # "read" => Abs!PutBack = <<>>)
           /\ Position \in Nat /\ Position <= st.pos + Len(Pending)
           /\ Pending \in Seq(Bytes) /\ Len(Pending) \in Nat
<1>1. st \in Stream /\ Sound(st, dir) /\ dir \in {"any", "read", "write"} BY DEF IInv
<1>2. /\ st.pos \in Nat /\ Unread(st) \in Nat /\ Held(st) \in Seq(Bytes)
      /\ Len(Held(st)) = Unread(st) /\ (Unread(st) = 0 <=> Empty(st))
      /\ st.last \in {"closed", "read", "write"}
  BY <1>1, StreamIs, HeldIs
<1>3. Abs!PutBack = IF st.ch = EOF THEN <<>> ELSE <<st.ch>> BY AbsIs
<1>4. Len(<<>>) = 0 /\ Len(<<st.ch>>) = 1 /\ <<>> \in Seq(Bytes) OBVIOUS
<1>5. Len(Abs!PutBack) = IF st.ch = EOF THEN 0 ELSE 1 BY <1>3, <1>4
<1>6. Pending \in Seq(Bytes) /\ Len(Pending) = IF st.last = "write" THEN Unread(st) ELSE 0
  BY <1>2, <1>4 DEF Pending
<1>7. st.acc = "none" => Unread(st) = 0
  <2>1. HAVE st.acc = "none"
  <2>2. End(st) = 0 BY <2>1 DEF IInv, End
  <2>3. Unread(st) <= End(st) BY <1>1, <2>2, StreamIs
  <2>4. QED BY <1>2, <2>2, <2>3
<1>8. st.last # "read" => st.ch = EOF BY <1>1 DEF Sound
<1>9. CASE st.last = "read"
  <2>1. At(st) >= 0 /\ At(st) = st.pos - Unread(st) BY <1>1, <1>9 DEF Sound, Behind, At
  <2>2. Position = st.pos - Unread(st) BY <1>9 DEF Position
  <2>3. CASE st.acc = "none"
    <3>1. Tell(st) = st.pos /\ ~Buffered BY <2>3 DEF Tell, Buffered
    <3>2. QED BY <1>2, <1>5, <1>6, <1>7, <1>9, <2>1, <2>2, <2>3, <3>1
  <2>4. CASE st.acc # "none"
    <3>1. Buffered /\ Tell(st) = st.pos + (-Unread(st) - (IF st.ch = EOF THEN 0 ELSE 1))
      BY <1>9, <2>4 DEF Tell, Buffered
    <3>2. QED BY <1>2, <1>5, <1>6, <1>9, <2>1, <2>2, <3>1
  <2>5. QED BY <2>3, <2>4
<1>10. CASE st.last # "read"
  <2>1. Len(Abs!PutBack) = 0 /\ Abs!PutBack = <<>> BY <1>3, <1>5, <1>8, <1>10
  <2>2. Position = st.pos + Len(Pending) BY <1>10 DEF Position
  <2>3. Len(Pending) = Unread(st)
    <3>1. CASE st.last = "write" BY <1>6, <3>1
    <3>2. CASE st.last = "closed"
      <4>1. dir = "any" BY <1>1, <3>2 DEF Sound
      <4>2. Empty(st) BY <1>1, <4>1 DEF Sound
      <4>3. QED BY <1>2, <1>6, <3>2, <4>2
    <3>3. QED BY <1>2, <1>10, <3>1, <3>2
  <2>4. Tell(st) = st.pos + Unread(st)
    <3>1. st.acc = "none" => Tell(st) = st.pos BY DEF Tell
    <3>2. st.acc # "none" => Tell(st) = st.pos + Unread(st) BY <1>10 DEF Tell
    <3>3. QED BY <1>2, <1>7, <3>1, <3>2
  <2>5. QED BY <1>2, <1>6, <2>1, <2>2, <2>3, <2>4
<1>11. QED BY <1>9, <1>10

LEMMA FtellKeeps == IInv /\ Ftell => IInv' /\ Abs!Next
<1>1. SUFFICES ASSUME IInv, Ftell PROVE IInv' /\ Abs!Next OBVIOUS
<1>2. /\ open /\ UNCHANGED <<open, dir>> /\ st' = st
      /\ ret' = [fn |-> "ftell", n |-> Tell(st), s |-> <<>>]
  BY <1>1 DEF Ftell, Call, Keep
<1>3. IInv' /\ UNCHANGED Abs!stream BY <1>1, <1>2, NothingDone
<1>4. ~st.lost => Abs!Tell BY <1>1, <1>2, <1>3, TellIs DEF Abs!Tell, Abs!Says, Kept
<1>5. st.lost => Abs!Next BY <1>2, Lost
<1>6. QED BY <1>3, <1>4, <1>5 DEF Abs!Next
-----------------------------------------------------------------------------
(* A stream that is written: the file with what the buffer holds laid over it. *)

Laid(s) == Overwrite(s.file, s.pos, Held(s))
Reach(s) == s.pos + Unread(s)

\* What writing leaves alone.
SameWay(s, t) ==
    /\ t.there = s.there /\ t.can = s.can /\ t.last = s.last /\ t.acc = s.acc /\ t.ch = s.ch

\* A writer of s that puts the bytes of b has t, or a byte was lost.
Puts(s, b, t) ==
    /\ t \in Stream /\ SameWay(s, t) /\ b \in Seq(Bytes)
    /\ Fits(s) => Fits(t)
    /\ s.lost => t.lost
    /\ ~t.lost => Laid(t) = Overwrite(Laid(s), Reach(s), b) /\ Reach(t) = Reach(s) + Len(b)

LEMMA LaidIs ==
    ASSUME NEW s \in Stream
    PROVE  /\ Laid(s) \in Seq(Bytes) /\ Reach(s) \in Nat
           /\ Len(Laid(s)) = IF Empty(s) THEN Len(s.file) ELSE Most(Len(s.file), Reach(s))
           /\ Empty(s) => Laid(s) = s.file /\ Reach(s) = s.pos
<1>1. /\ s.file \in Seq(Bytes) /\ s.pos \in Nat /\ Unread(s) \in Nat /\ Held(s) \in Seq(Bytes)
      /\ Len(Held(s)) = Unread(s) /\ (Held(s) = <<>> <=> Empty(s)) /\ (Unread(s) = 0 <=> Empty(s))
  BY StreamIs, HeldIs
<1>2. /\ Laid(s) \in Seq(Bytes) /\ (Held(s) = <<>> => Laid(s) = s.file)
      /\ Held(s) # <<>> => Len(Laid(s)) = Most(Len(s.file), s.pos + Len(Held(s)))
  BY <1>1, OverBytes DEF Laid
<1>3. Reach(s) \in Nat /\ (Empty(s) => Reach(s) = s.pos) BY <1>1 DEF Reach
<1>4. QED BY <1>1, <1>2, <1>3 DEF Reach

LEMMA PutsTwice ==
    ASSUME NEW s \in Stream, NEW t, NEW u, NEW b, NEW c, Puts(s, b, t), Puts(t, c, u)
    PROVE  Puts(s, b \o c, u)
<1>1. /\ t \in Stream /\ u \in Stream /\ SameWay(s, u)
      /\ b \in Seq(Bytes) /\ c \in Seq(Bytes) /\ (Fits(s) => Fits(u)) /\ (s.lost => u.lost)
  BY DEF Puts, SameWay
<1>2. b \o c \in Seq(Bytes) /\ Len(b \o c) = Len(b) + Len(c) BY <1>1, CatIs
<1>3. ASSUME ~u.lost
      PROVE  Laid(u) = Overwrite(Laid(s), Reach(s), b \o c) /\ Reach(u) = Reach(s) + Len(b \o c)
  <2>1. t.lost \in BOOLEAN /\ u.lost \in BOOLEAN BY <1>1, StreamIs
  <2>2. ~t.lost BY <1>3 DEF Puts
  <2>3. Laid(t) = Overwrite(Laid(s), Reach(s), b) /\ Reach(t) = Reach(s) + Len(b)
    BY <2>2 DEF Puts
  <2>4. Laid(u) = Overwrite(Laid(t), Reach(t), c) /\ Reach(u) = Reach(t) + Len(c)
    BY <1>3 DEF Puts
  <2>5. Laid(s) \in Seq(Bytes) /\ Reach(s) \in Nat BY LaidIs
  <2>6. Overwrite(Overwrite(Laid(s), Reach(s), b), Reach(s) + Len(b), c)
           = Overwrite(Laid(s), Reach(s), b \o c)
    BY <1>1, <2>5, OverBytesTwice
  <2>7. Len(b) \in Nat /\ Len(c) \in Nat BY <1>1
  <2>8. QED BY <1>2, <2>3, <2>4, <2>5, <2>6, <2>7
<1>4. QED BY <1>1, <1>2, <1>3 DEF Puts

LEMMA RoomIs ==
    ASSUME NEW s \in Stream, NEW b \in Seq(Bytes)
    PROVE  /\ DevRoom(s) \in Nat /\ First(b, DevRoom(s)) \in Seq(Bytes)
           /\ Short(s, b) \in BOOLEAN
           /\ Short(s, b) => First(b, DevRoom(s)) # b
           /\ ~Short(s, b) => First(b, DevRoom(s)) = b
           /\ Len(First(b, DevRoom(s))) <= DevRoom(s)
           /\ Len(First(b, DevRoom(s))) <= Len(b)
           /\ s.pos + DevRoom(s) = Most(s.pos, DISK)
<1>1. s.pos \in Nat /\ DISK \in Nat BY StreamIs, BytesHole
<1>2. DevRoom(s) \in Nat /\ s.pos + DevRoom(s) = Most(s.pos, DISK) BY <1>1 DEF DevRoom, Most
<1>3. First(b, DevRoom(s)) \in Seq(Bytes) /\ Len(First(b, DevRoom(s))) = Least(DevRoom(s), Len(b))
  BY <1>2, FirstIs
<1>4. Len(b) \in Nat OBVIOUS
<1>5. /\ Len(First(b, DevRoom(s))) <= DevRoom(s) /\ Len(First(b, DevRoom(s))) <= Len(b)
      /\ Len(b) > DevRoom(s) => Len(First(b, DevRoom(s))) # Len(b)
  BY <1>2, <1>3, <1>4 DEF Least
<1>6. Short(s, b) => First(b, DevRoom(s)) # b BY <1>5 DEF Short
<1>7. ~Short(s, b) => First(b, DevRoom(s)) = b
  <2>1. HAVE ~Short(s, b)
  <2>2. DevRoom(s) >= Len(b) BY <1>2, <1>4, <2>1 DEF Short
  <2>3. QED BY <1>2, <2>2, NoBytes
<1>8. Short(s, b) \in BOOLEAN BY DEF Short
<1>9. QED BY <1>2, <1>3, <1>5, <1>6, <1>7, <1>8

\* _write(), whatever is in the buffer.
LEMMA DevWriteIs ==
    ASSUME NEW s \in Stream, NEW b \in Seq(Bytes)
    PROVE  LET t == DevWrite(s, b) IN
           /\ t \in Stream /\ SameWay(s, t) /\ (Fits(s) => Fits(t))
           /\ t.err = s.err /\ t.buf = s.buf /\ t.ptr = s.ptr
           /\ t.lost <=> s.lost \/ Short(s, b)
           /\ ~t.lost => t.file = Overwrite(s.file, s.pos, b) /\ t.pos = s.pos + Len(b)
<1> DEFINE w == First(b, DevRoom(s))
           f == Overwrite(s.file, s.pos, w)
           t == DevWrite(s, b)
<1>1. s \in FileState /\ s.ptr <= End(s) /\ End(s) <= BUFSIZ BY DEF Stream
<1>2. /\ s.file \in Seq(Bytes) /\ s.pos \in Nat /\ s.lost \in BOOLEAN /\ Len(s.file) \in Nat
      /\ BUFSIZ \in Nat /\ DISK \in Nat
  BY StreamIs, BytesHole
<1>3. /\ DevRoom(s) \in Nat /\ w \in Seq(Bytes) /\ (Short(s, b) => w # b)
      /\ (~Short(s, b) => w = b) /\ Len(w) <= DevRoom(s)
      /\ s.pos + DevRoom(s) = Most(s.pos, DISK)
  BY RoomIs
<1>4. Len(w) \in Nat /\ (w = <<>> <=> Len(w) = 0) BY <1>3, NoBytes
<1>5. PICK l \in BOOLEAN : l = (s.lost \/ w # b) OBVIOUS
<1>6. l <=> s.lost \/ Short(s, b) BY <1>3, <1>5, Zenon
<1> HIDE DEF w
<1>7. f \in Seq(Bytes) /\ (w # <<>> => Len(f) = Most(Len(s.file), s.pos + Len(w)))
      /\ (w = <<>> => f = s.file)
  BY <1>2, <1>3, OverBytes
<1>8. t = [s EXCEPT !.file = f, !.pos = s.pos + Len(w), !.lost = l]
  BY <1>1, <1>5 DEF DevWrite, w, FileState
<1> HIDE DEF f
<1>9. t \in FileState
  <2>1. s.pos + Len(w) \in Nat /\ f \in Seq(Bytes) /\ l \in BOOLEAN BY <1>2, <1>4, <1>7
  <2> HIDE DEF t
  <2>2. QED BY <1>1, <1>8, <2>1 DEF FileState
<1>10. /\ t.file = f /\ t.pos = s.pos + Len(w) /\ t.lost = l /\ t.err = s.err
       /\ t.buf = s.buf /\ t.ptr = s.ptr /\ SameWay(s, t)
  <2> HIDE DEF t
  <2>1. QED BY <1>1, <1>8 DEF FileState, SameWay
<1> HIDE DEF t
<1>11. End(t) = End(s) BY <1>10 DEF End
<1>12. t \in Stream BY <1>1, <1>9, <1>10, <1>11 DEF Stream
<1>13. Fits(s) => Fits(t)
  <2>1. SUFFICES ASSUME Len(s.file) <= DISK, s.pos <= DISK + BUFSIZ
                 PROVE  Len(f) <= DISK /\ s.pos + Len(w) <= DISK + BUFSIZ
    BY <1>10 DEF Fits
  <2>2. s.pos + Len(w) <= Most(s.pos, DISK) BY <1>2, <1>3, <1>4
  <2>3. s.pos + Len(w) <= DISK + BUFSIZ BY <1>2, <1>4, <2>1, <2>2 DEF Most
  <2>4. CASE w = <<>> BY <1>7, <2>1, <2>3, <2>4
  <2>5. CASE w # <<>>
    <3>1. Len(w) > 0 BY <1>4, <2>5
    <3>2. s.pos + Len(w) <= DISK BY <1>2, <1>4, <2>2, <3>1 DEF Most
    <3>3. QED BY <1>2, <1>4, <1>7, <2>1, <2>3, <2>5, <3>2 DEF Most
  <2>6. QED BY <2>4, <2>5
<1>14. ~t.lost => t.file = Overwrite(s.file, s.pos, b) /\ t.pos = s.pos + Len(b)
  <2>1. HAVE ~t.lost
  <2>2. w = b BY <1>3, <1>6, <1>10, <2>1
  <2>3. QED BY <1>10, <2>2 DEF f
<1>15. QED BY <1>6, <1>10, <1>12, <1>13, <1>14 DEF t

\* _write() past an empty buffer.
LEMMA WritePast ==
    ASSUME NEW s \in Stream, Empty(s), NEW b \in Seq(Bytes)
    PROVE  LET t == DevWrite(s, b) IN
           /\ Puts(s, b, t) /\ t.err = s.err /\ t.buf = s.buf /\ t.ptr = s.ptr
           /\ t.lost <=> s.lost \/ Short(s, b)
<1> DEFINE t == DevWrite(s, b)
<1>1. /\ t \in Stream /\ SameWay(s, t) /\ (Fits(s) => Fits(t))
      /\ t.err = s.err /\ t.buf = s.buf /\ t.ptr = s.ptr
      /\ t.lost <=> s.lost \/ Short(s, b)
      /\ ~t.lost => t.file = Overwrite(s.file, s.pos, b) /\ t.pos = s.pos + Len(b)
  BY DevWriteIs
<1> HIDE DEF t
<1>2. Empty(t) BY <1>1 DEF Empty, End
<1>3. Laid(s) = s.file /\ Reach(s) = s.pos BY LaidIs
<1>4. Laid(t) = t.file /\ Reach(t) = t.pos BY <1>1, <1>2, LaidIs
<1>5. Puts(s, b, t) BY <1>1, <1>3, <1>4 DEF Puts
<1>6. QED BY <1>1, <1>5 DEF t

\* Bytes that go into the buffer.
LEMMA BufferIs ==
    ASSUME NEW s \in Stream, NEW b \in Seq(Bytes), End(s) + Len(b) <= BUFSIZ
    PROVE  LET t == [s EXCEPT !.buf = @ \o b] IN
           /\ Puts(s, b, t) /\ t.err = s.err /\ t.lost = s.lost /\ Held(t) = Held(s) \o b
           /\ End(t) = End(s) + Len(b) /\ t.pos = s.pos /\ t.ptr = s.ptr
<1> DEFINE t == [s EXCEPT !.buf = @ \o b]
<1>1. s \in FileState /\ s.ptr <= End(s) /\ End(s) <= BUFSIZ BY DEF Stream
<1>2. /\ s.file \in Seq(Bytes) /\ s.buf \in Seq(Bytes) /\ s.pos \in Nat /\ s.ptr \in Nat
      /\ End(s) \in Nat /\ Unread(s) = End(s) - s.ptr /\ Held(s) \in Seq(Bytes)
      /\ Len(Held(s)) = Unread(s) /\ Unread(s) \in Nat /\ Len(b) \in Nat
  BY StreamIs, HeldIs
<1>3. s.buf \o b \in Seq(Bytes) /\ Len(s.buf \o b) = Len(s.buf) + Len(b) BY <1>2, CatIs
<1>4. t \in FileState BY <1>1, <1>3 DEF FileState
<1>5. /\ t.buf = s.buf \o b /\ t.file = s.file /\ t.pos = s.pos /\ t.ptr = s.ptr
      /\ t.err = s.err /\ t.lost = s.lost /\ SameWay(s, t)
  BY <1>1 DEF FileState, SameWay
<1> HIDE DEF t
<1>6. End(t) = End(s) + Len(b) BY <1>3, <1>5 DEF End
<1>7. t \in Stream
  <2>1. t.ptr <= End(t) BY <1>1, <1>2, <1>5, <1>6
  <2>2. QED BY <1>4, <1>6, <2>1 DEF Stream
<1>8. Held(t) = Held(s) \o b
  <2>1. After(s.buf \o b, s.ptr) = After(s.buf, s.ptr) \o b BY <1>1, <1>2, AfterCat DEF End
  <2>2. QED BY <1>5, <2>1 DEF Held
<1>9. Unread(t) = Unread(s) + Len(b) BY <1>2, <1>5, <1>6 DEF Unread
<1>10. Reach(t) = Reach(s) + Len(b) BY <1>2, <1>5, <1>9 DEF Reach
<1>11. Laid(t) = Overwrite(Laid(s), Reach(s), b)
  <2>1. Overwrite(Overwrite(s.file, s.pos, Held(s)), s.pos + Len(Held(s)), b)
           = Overwrite(s.file, s.pos, Held(s) \o b)
    <3>1. s.file \in Seq(Bytes) /\ Held(s) \in Seq(Bytes) /\ b \in Seq(Bytes) BY <1>2
    <3>2. s.pos \in Nat BY <1>2
    <3>3. QED BY ZenonT(60), <3>1, <3>2, OverBytesTwice
  <2>2. QED BY <1>2, <1>5, <1>8, <2>1 DEF Laid, Reach
<1>12. Fits(s) => Fits(t) BY <1>5 DEF Fits
<1>13. Puts(s, b, t) BY <1>5, <1>7, <1>10, <1>11, <1>12 DEF Puts
<1>14. QED BY <1>5, <1>6, <1>8, <1>13 DEF t

\* _fsync().
LEMMA MaxIs ==
    ASSUME NEW a \in Nat, NEW b \in Nat, NEW M \in SUBSET (a .. b), M # {}
    PROVE  Max(M) \in M /\ \A x \in M : x <= Max(M)
<1> DEFINE D == {b - x : x \in M}
<1>1. D \in SUBSET Nat /\ D # {}
  <2>1. \A x \in M : b - x \in Nat OBVIOUS
  <2>2. QED BY <2>1
<1>2. PICK d \in D : \A e \in D : d <= e
  <2> HIDE DEF D
  <2>1. QED BY <1>1, LeastNat
<1>3. PICK m \in M : d = b - m BY <1>2
<1>4. \A x \in M : m >= x
  <2>1. TAKE x \in M
  <2>2. d <= b - x BY <1>2
  <2>3. QED BY <1>3, <2>2
<1>5. Max(M) \in M /\ \A x \in M : Max(M) >= x BY <1>3, <1>4, Zenon DEF Max
<1>6. QED BY <1>5

LEMMA LinesEndIs ==
    ASSUME NEW s \in Stream
    PROVE  /\ LinesEnd(s) \in Nat /\ s.ptr <= LinesEnd(s) /\ LinesEnd(s) <= End(s)
           /\ \A i \in LinesEnd(s) + 1 .. End(s) : s.buf[i] # NL
           /\ (\A i \in s.ptr + 1 .. End(s) : s.buf[i] # NL) => LinesEnd(s) = s.ptr
<1> DEFINE M == {i \in s.ptr + 1 .. End(s) : s.buf[i] = NL} \cup {s.ptr}
<1>1. s.ptr \in Nat /\ End(s) \in Nat /\ s.ptr <= End(s) BY StreamIs
<1>2. M \in SUBSET (s.ptr .. End(s)) /\ M # {} BY <1>1
<1>3. Max(M) \in M /\ \A x \in M : x <= Max(M)
  <2> HIDE DEF M
  <2>1. QED BY <1>1, <1>2, MaxIs
<1>4. LinesEnd(s) = Max(M) BY DEF LinesEnd
<1>5. LinesEnd(s) \in Nat /\ s.ptr <= LinesEnd(s) /\ LinesEnd(s) <= End(s) BY <1>1, <1>3, <1>4
<1>6. ASSUME NEW i \in LinesEnd(s) + 1 .. End(s), s.buf[i] = NL PROVE FALSE
  <2>1. i \in s.ptr + 1 .. End(s) BY <1>1, <1>5
  <2>2. i \in M BY <1>6, <2>1
  <2>3. i <= LinesEnd(s) BY <1>3, <1>4, <2>2
  <2>4. QED BY <1>5, <2>3
<1>7. (\A i \in s.ptr + 1 .. End(s) : s.buf[i] # NL) => LinesEnd(s) = s.ptr
  BY <1>3, <1>4
<1>8. QED BY <1>5, <1>6, <1>7

LEMMA DiscardIs ==
    ASSUME NEW s \in Stream
    PROVE  LET t == Discard(s) IN
           /\ t \in Stream /\ SameWay(s, t) /\ t.file = s.file /\ t.pos = s.pos
           /\ t.err = s.err /\ t.lost = s.lost /\ t.buf = <<>> /\ t.ptr = 0 /\ Empty(t)
           /\ Laid(t) = s.file /\ Reach(t) = s.pos
<1> DEFINE t == Discard(s)
<1>1. s \in FileState BY DEF Stream
<1>2. BUFSIZ \in Nat /\ <<>> \in Seq(Bytes) /\ Len(<<>>) = 0 BY BytesHole
<1>3. /\ t.file = s.file /\ t.pos = s.pos /\ t.err = s.err /\ t.lost = s.lost
      /\ t.buf = <<>> /\ t.ptr = 0 /\ SameWay(s, t)
  BY <1>1 DEF Discard, FileState, SameWay
<1>4. t \in FileState BY <1>1, <1>2 DEF Discard, FileState
<1> HIDE DEF t
<1>5. End(t) = 0 BY <1>2, <1>3 DEF End
<1>6. t \in Stream BY <1>2, <1>3, <1>4, <1>5 DEF Stream
<1>7. Empty(t) BY <1>3, <1>5 DEF Empty
<1>8. Laid(t) = s.file /\ Reach(t) = s.pos BY <1>3, <1>6, <1>7, LaidIs
<1>9. QED BY <1>3, <1>6, <1>7, <1>8 DEF t

\* The file as a writer leaves it does not depend on what has gone out already.
NoNL(s) == \A i \in s.ptr + 1 .. End(s) : s.buf[i] # NL

LEMMA PutsNothing ==
    ASSUME NEW s \in Stream
    PROVE  /\ Overwrite(Laid(s), Reach(s), <<>>) = Laid(s) /\ Reach(s) + Len(<<>>) = Reach(s)
           /\ Puts(s, <<>>, s)
<1>1. Laid(s) \in Seq(Bytes) /\ Reach(s) \in Nat BY LaidIs
<1>2. Overwrite(Laid(s), Reach(s), <<>>) = Laid(s) BY DEF Overwrite
<1>3. Reach(s) + Len(<<>>) = Reach(s) /\ <<>> \in Seq(Bytes) BY <1>1
<1>4. SameWay(s, s) BY DEF SameWay
<1>5. QED BY <1>2, <1>3, <1>4 DEF Puts

LEMMA SetErr ==
    ASSUME NEW s \in Stream, NEW b, NEW t, Puts(s, b, t), NEW e \in BOOLEAN
    PROVE  LET u == [t EXCEPT !.err = e] IN
           /\ Puts(s, b, u) /\ u.err = e /\ u.lost = t.lost /\ u.buf = t.buf /\ u.ptr = t.ptr
           /\ End(u) = End(t)
<1> DEFINE u == [t EXCEPT !.err = e]
<1>1. t \in Stream /\ t \in FileState BY DEF Puts, Stream
<1>2. /\ u.file = t.file /\ u.pos = t.pos /\ u.ptr = t.ptr /\ u.buf = t.buf
      /\ u.lost = t.lost /\ SameWay(t, u) /\ u \in FileState /\ u.err = e
  BY <1>1 DEF FileState, SameWay
<1> HIDE DEF u
<1>3. End(u) = End(t) /\ Held(u) = Held(t) BY <1>2 DEF End, Held
<1>4. Laid(u) = Laid(t) /\ Reach(u) = Reach(t) BY <1>2, <1>3 DEF Laid, Reach, Unread
<1>5. u \in Stream BY <1>1, <1>2, <1>3 DEF Stream
<1>6. Fits(t) => Fits(u) BY <1>2 DEF Fits
<1>7. Puts(s, b, u) BY <1>2, <1>4, <1>5, <1>6 DEF Puts, SameWay
<1>8. QED BY <1>2, <1>3, <1>7 DEF u

\* A writer's bytes go on counting whether they are in the buffer or have left it.
LEMMA FsyncIs ==
    ASSUME NEW s \in Stream
    PROVE  LET t == Fsync(s) IN
           /\ Puts(s, <<>>, t) /\ End(t) <= End(s) /\ (Full(s) => t.buf = <<>>)
           /\ \E e \in BOOLEAN : (t.err <=> s.err \/ e) /\ (t.lost <=> s.lost \/ e)
                                 /\ (NoNL(s) /\ ~Full(s) => ~e)
           /\ s.acc = "line" => NoNL(t)
<1> DEFINE t == Fsync(s)
           out == IF Full(s) THEN Held(s) ELSE SubSeq(s.buf, s.ptr + 1, LinesEnd(s))
           d == IF Full(s) THEN Discard(s) ELSE [s EXCEPT !.ptr = LinesEnd(s)]
           w == DevWrite(d, out)
<1>1. /\ s.file \in Seq(Bytes) /\ s.buf \in Seq(Bytes) /\ s.pos \in Nat /\ s.ptr \in Nat
      /\ s.ptr <= End(s) /\ End(s) <= BUFSIZ /\ End(s) \in Nat /\ s.err \in BOOLEAN
      /\ s.lost \in BOOLEAN
  BY StreamIs
<1>2. /\ LinesEnd(s) \in Nat /\ s.ptr <= LinesEnd(s) /\ LinesEnd(s) <= End(s)
      /\ \A i \in LinesEnd(s) + 1 .. End(s) : s.buf[i] # NL
      /\ NoNL(s) => LinesEnd(s) = s.ptr
  BY LinesEndIs DEF NoNL
<1>3. t = IF Full(s) \/ s.acc = "line" THEN [w EXCEPT !.err = @ \/ Short(s, out)] ELSE s
  BY DEF Fsync
<1>4. CASE ~(Full(s) \/ s.acc = "line")
  <2>1. t = s BY <1>3, <1>4
  <2>2. /\ Puts(s, <<>>, s) BY PutsNothing
  <2>3. \E e \in BOOLEAN : (s.err <=> s.err \/ e) /\ (s.lost <=> s.lost \/ e)
                           /\ (NoNL(s) /\ ~Full(s) => ~e)
    <3>1. FALSE \in BOOLEAN OBVIOUS
    <3>2. QED BY <3>1
  <2>4. QED BY <1>1, <1>4, <2>1, <2>2, <2>3
<1>5. CASE Full(s) \/ s.acc = "line"
  <2> DEFINE l == LinesEnd(s) - s.ptr
  <2>1. /\ d \in Stream /\ SameWay(s, d) /\ d.file = s.file /\ d.pos = s.pos
        /\ d.err = s.err /\ d.lost = s.lost /\ End(d) <= End(s)
        /\ out \in Seq(Bytes) /\ Held(d) \in Seq(Bytes) /\ Held(s) = out \o Held(d)
        /\ Full(s) => d.buf = <<>>
        /\ NoNL(d)
        /\ NoNL(s) /\ ~Full(s) => out = <<>>
    <3>1. CASE Full(s)
      <4>1. d = Discard(s) /\ out = Held(s) BY <3>1
      <4>2. /\ d \in Stream /\ SameWay(s, d) /\ d.file = s.file /\ d.pos = s.pos
            /\ d.err = s.err /\ d.lost = s.lost /\ d.buf = <<>> /\ d.ptr = 0 /\ Empty(d)
        BY <4>1, DiscardIs
      <4>3. Held(s) \in Seq(Bytes) /\ Held(d) = <<>> /\ Held(d) \in Seq(Bytes) BY <4>2, HeldIs
      <4>4. Held(s) = Held(s) \o <<>> BY <4>3, NoBytes
      <4>5. End(d) = 0 /\ NoNL(d) BY <4>2 DEF End, NoNL
      <4> HIDE DEF d, out
      <4>6. QED BY <1>1, <3>1, <4>1, <4>2, <4>3, <4>4, <4>5
    <3>2. CASE ~Full(s)
      <4>1. d = [s EXCEPT !.ptr = @ + l] BY <1>1, <1>2, <3>2
      <4>2. l \in Nat /\ l <= Unread(s) /\ s.ptr + l = LinesEnd(s) BY <1>1, <1>2 DEF Unread
      <4>3. out = SubSeq(s.buf, s.ptr + 1, LinesEnd(s)) BY <3>2
      <4> DEFINE f == First(Held(s), l)
      <4>9. /\ Held(s) \in Seq(Bytes) /\ Len(Held(s)) = Unread(s)
            /\ \A i \in 1 .. Unread(s) : Held(s)[i] = s.buf[s.ptr + i]
        BY HeldIs
      <4>10. Unread(s) \in Nat BY StreamIs
      <4>11. f \in Seq(Bytes) /\ Len(f) = l /\ \A i \in 1 .. l : f[i] = Held(s)[i]
        <5>1. /\ f \in Seq(Bytes) /\ Len(f) = Least(l, Len(Held(s)))
              /\ \A i \in 1 .. Len(f) : f[i] = Held(s)[i]
          BY <4>2, <4>9, FirstIs
        <5>2. Len(f) = l BY <4>2, <4>9, <4>10, <5>1 DEF Least
        <5>3. QED BY <5>1, <5>2
      <4>12. out = f
        <5> DEFINE x == LinesEnd(s)
        <5>0. s.ptr \in Nat /\ x \in Nat /\ l \in Nat /\ x = s.ptr + l /\ x <= Len(s.buf)
          BY <1>1, <1>2, <4>2 DEF End
        <5>9. s.buf \in Seq(Bytes) /\ out = SubSeq(s.buf, s.ptr + 1, x) BY <1>1, <4>3
        <5> HIDE DEF out, f, l, x
        <5>1. /\ out \in Seq(Bytes) /\ Len(out) = l
              /\ \A i \in 1 .. l : out[i] = s.buf[s.ptr + i]
          <6>1. /\ SubSeq(s.buf, s.ptr + 1, x) \in Seq(Bytes)
                /\ Len(SubSeq(s.buf, s.ptr + 1, x)) = x - s.ptr
                /\ \A i \in 1 .. x - s.ptr : SubSeq(s.buf, s.ptr + 1, x)[i] = s.buf[s.ptr + i]
            <7>1. s.buf \in Seq(Bytes) BY <5>9
            <7>2. s.ptr \in Nat BY <5>0
            <7>3. x \in Nat /\ s.ptr <= x /\ x <= Len(s.buf) BY <5>0
            <7>4. QED BY <7>1, <7>2, <7>3, BetweenBytes
          <6>2. x - s.ptr = l BY <5>0
          <6>3. QED BY <5>9, <6>1, <6>2
        <5>2. \A i \in 1 .. l : out[i] = f[i]
          <6>1. TAKE i \in 1 .. l
          <6>2. i \in 1 .. Unread(s) BY <4>2, <4>10
          <6>3. QED BY <4>9, <4>11, <5>1, <6>2
        <5>3. QED BY <4>11, <5>1, <5>2, SameSeq
      <4> HIDE DEF out, f, l
      <4>13. Held(s) = f \o After(Held(s), l) BY <4>2, <4>9, FirstThenAfter DEF f
      <4>14. s \in FileState BY DEF Stream
      <4>15. /\ d.ptr = s.ptr + l /\ d.buf = s.buf /\ d.file = s.file /\ d.pos = s.pos
             /\ d.err = s.err /\ d.lost = s.lost /\ SameWay(s, d)
        <5> HIDE DEF d
        <5>1. QED BY <4>1, <4>14 DEF FileState, SameWay
      <4>16. d \in FileState
        <5>1. s.ptr + l \in Nat BY <1>1, <4>2
        <5> HIDE DEF d
        <5>2. QED BY <4>1, <4>14, <5>1 DEF FileState
      <4> HIDE DEF d
      <4>17. End(d) = End(s) BY <4>15 DEF End
      <4>18. d \in Stream BY <1>1, <1>2, <4>2, <4>15, <4>16, <4>17 DEF Stream
      <4>19. Held(d) = After(Held(s), l) /\ Held(d) \in Seq(Bytes)
        <5>1. After(After(s.buf, s.ptr), l) = After(s.buf, s.ptr + l) BY <1>1, <4>2, AfterAfter
        <5>2. QED BY <4>15, <4>18, <5>1, HeldIs DEF Held
      <4>20. NoNL(d) BY <1>2, <4>2, <4>15, <4>17 DEF NoNL
      <4>21. NoNL(s) => out = <<>>
        <5>1. NoNL(s) => l = 0 BY <1>1, <1>2 DEF l
        <5>2. QED BY <4>11, <4>12, <5>1, NoBytes
      <4>22. QED
        BY <1>1, <3>2, <4>11, <4>12, <4>13, <4>15, <4>17, <4>18, <4>19, <4>20, <4>21
    <3>3. QED BY <3>1, <3>2
  <2> HIDE DEF d, out, l
  <2>2. /\ w \in Stream /\ SameWay(d, w) /\ (Fits(d) => Fits(w))
        /\ w.err = d.err /\ w.buf = d.buf /\ w.ptr = d.ptr
        /\ w.lost <=> d.lost \/ Short(d, out)
        /\ ~w.lost => w.file = Overwrite(d.file, d.pos, out) /\ w.pos = d.pos + Len(out)
    BY <2>1, DevWriteIs
  <2>3. Short(d, out) = Short(s, out) /\ Short(s, out) \in BOOLEAN
    <3>1. DevRoom(d) = DevRoom(s) BY <2>1 DEF DevRoom
    <3>2. Short(s, out) \in BOOLEAN BY DEF Short
    <3>3. QED BY <3>1, <3>2 DEF Short
  <2> HIDE DEF w
  <2>4. End(w) = End(d) /\ Held(w) = Held(d) /\ NoNL(w) /\ Unread(w) = Unread(d)
    BY <2>1, <2>2 DEF End, Held, NoNL, Unread
  <2>5. ASSUME ~w.lost
        PROVE  /\ Laid(w) = Overwrite(Laid(s), Reach(s), <<>>)
               /\ Reach(w) = Reach(s) + Len(<<>>)
    <3>1. w.file = Overwrite(s.file, s.pos, out) /\ w.pos = s.pos + Len(out)
      BY <2>1, <2>2, <2>5
    <3>2. Overwrite(Overwrite(s.file, s.pos, out), s.pos + Len(out), Held(d))
             = Overwrite(s.file, s.pos, out \o Held(d))
      <4>1. s.file \in Seq(Bytes) /\ out \in Seq(Bytes) /\ Held(d) \in Seq(Bytes) BY <1>1, <2>1
      <4>2. s.pos \in Nat BY <1>1
      <4>3. QED BY ZenonT(60), <4>1, <4>2, OverBytesTwice
    <3>3. Laid(w) = Laid(s) BY <2>1, <2>4, <3>1, <3>2 DEF Laid
    <3>4. Len(out) + Unread(d) = Unread(s)
      <4>1. Len(Held(s)) = Len(out) + Len(Held(d)) BY <2>1, CatIs
      <4>2. QED BY <2>1, <4>1, HeldIs
    <3>5. Reach(w) = Reach(s)
      <4>1. Unread(d) \in Nat /\ Len(out) \in Nat BY <2>1, StreamIs
      <4>2. QED BY <1>1, <2>4, <3>1, <3>4, <4>1 DEF Reach
    <3>6. QED BY <3>3, <3>5, PutsNothing
  <2>6. Puts(s, <<>>, w)
    <3>1. <<>> \in Seq(Bytes) /\ (Fits(s) <=> Fits(d)) BY <2>1 DEF Fits
    <3>2. QED BY <2>1, <2>2, <2>5, <3>1 DEF Puts, SameWay
  <2>7. PICK e \in BOOLEAN : e = (w.err \/ Short(s, out)) OBVIOUS
  <2>8. e <=> s.err \/ Short(s, out) BY <2>1, <2>2, <2>7, Zenon
  <2>9. t = [w EXCEPT !.err = e]
    <3>1. w \in FileState BY <2>2 DEF Stream
    <3>2. QED BY <1>3, <1>5, <2>7, <3>1 DEF FileState, d, out, w
  <2>10. /\ Puts(s, <<>>, t) /\ t.err = e /\ t.lost = w.lost /\ t.buf = w.buf /\ t.ptr = w.ptr
         /\ End(t) = End(w)
    <3> HIDE DEF t
    <3>1. QED BY <2>6, <2>9, SetErr
  <2> HIDE DEF t
  <2>11. NoNL(t) BY <2>4, <2>10 DEF NoNL
  <2>12. PICK h \in BOOLEAN : h <=> Short(s, out) BY <2>3
  <2>13. (t.err <=> s.err \/ h) /\ (t.lost <=> s.lost \/ h)
    <3>1. t.lost <=> s.lost \/ Short(s, out) BY <2>1, <2>2, <2>3, <2>10
    <3>2. QED BY <2>8, <2>10, <2>12, <3>1
  <2>14. NoNL(s) /\ ~Full(s) => ~h
    <3>1. HAVE NoNL(s) /\ ~Full(s)
    <3>2. Len(out) = 0 BY <2>1, <3>1
    <3>3. DevRoom(s) >= 0 BY <1>1, BytesHole DEF DevRoom, Most
    <3>4. ~Short(s, out) BY <1>1, <3>2, <3>3, BytesHole DEF Short, DevRoom, Most
    <3>5. QED BY <2>12, <3>4
  <2>15. End(t) <= End(s) /\ (Full(s) => t.buf = <<>>) BY <2>1, <2>2, <2>4, <2>10
  <2>16. QED BY <2>10, <2>11, <2>13, <2>14, <2>15 DEF t
<1>6. QED BY <1>4, <1>5
-----------------------------------------------------------------------------
(* A call that writes. *)

\* The stream as a call that writes takes it over.
Writer == [st EXCEPT !.last = "write"]

LEMMA WriterIs ==
    ASSUME IInv, dir # "read"
    PROVE  /\ Writer \in Stream /\ Writer.last = "write" /\ Writer.err = st.err
           /\ Writer.lost = st.lost /\ Writer.acc = st.acc /\ Writer.can = st.can
           /\ Writer.ch = st.ch /\ Writer.buf = st.buf /\ Writer.pos = st.pos
           /\ Fits(Writer)
           /\ ~st.lost => Data = Laid(Writer) /\ Position = Reach(Writer) /\ st.ch = EOF
<1> DEFINE w == Writer
<1>1. st \in Stream /\ st \in FileState /\ Fits(st) /\ dir \in {"any", "write"} BY DEF IInv, Stream
<1>2. /\ w.last = "write" /\ w.err = st.err /\ w.lost = st.lost /\ w.acc = st.acc
      /\ w.can = st.can /\ w.ch = st.ch /\ w.buf = st.buf /\ w.pos = st.pos
      /\ w.file = st.file /\ w.ptr = st.ptr /\ w \in FileState
  BY <1>1 DEF Writer, FileState
<1> HIDE DEF w
<1>3. /\ End(w) = End(st) /\ Held(w) = Held(st) /\ Unread(w) = Unread(st)
      /\ Laid(w) = Laid(st) /\ Reach(w) = Reach(st)
  BY <1>2 DEF End, Held, Unread, Laid, Reach
<1>4. w \in Stream /\ Fits(w) BY <1>1, <1>2, <1>3 DEF Stream, Fits
<1>5. /\ Held(st) \in Seq(Bytes) /\ Len(Held(st)) = Unread(st) /\ (Held(st) = <<>> <=> Empty(st))
      /\ Unread(st) = 0 <=> Empty(st)
      /\ st.pos \in Nat
  BY <1>1, HeldIs, StreamIs
<1>6. ASSUME ~st.lost PROVE Data = Laid(st) /\ Position = Reach(st) /\ st.ch = EOF
  <2>1. Sound(st, dir) BY <1>6 DEF IInv
  <2>2. st.ch = EOF BY <1>1, <2>1 DEF Sound
  <2>3. CASE st.last = "write"
    <3>1. Pending = Held(st) BY <2>3 DEF Pending
    <3>2. Data = Laid(st) BY <3>1 DEF Data, Laid
    <3>3. Position = Reach(st) BY <1>5, <2>3, <3>1 DEF Position, Reach
    <3>4. QED BY <2>2, <3>2, <3>3
  <2>4. CASE st.last # "write"
    <3>1. Empty(st) BY <1>1, <2>1, <2>4 DEF Sound
    <3>2. Held(st) = <<>> /\ Unread(st) = 0 /\ Pending = <<>> BY <1>5, <2>4, <3>1 DEF Pending
    <3>3. Data = Laid(st) BY <3>2 DEF Data, Laid
    <3>4. Position = st.pos /\ Reach(st) = st.pos
      <4>1. Len(<<>>) = 0 OBVIOUS
      <4>2. QED BY <1>5, <3>2, <4>1 DEF Position, Reach
    <3>5. QED BY <2>2, <3>3, <3>4
  <2>5. QED BY <2>3, <2>4
<1>7. QED BY <1>2, <1>3, <1>4, <1>6 DEF w

\* What a call that writes has to show.
LEMMA WriteCall ==
    ASSUME IInv, open, dir # "read", May(st, "write"), UNCHANGED open, dir' = "write",
           NEW b, Puts(Writer, b, st'),
           st'.err => st'.lost, st'.acc = "none" => st'.buf = <<>>,
           st'.acc = "line" /\ ~st'.lost => NoNL(st'),
           NEW fn, (fn = "fputc" /\ \E c \in Chars : b = <<c>>) \/ (fn = "fwrite" /\ b \in Strings),
           ~st'.lost => ret' = [fn |-> fn, n |-> Len(b), s |-> <<>>],
           ~st.lost /\ st'.lost =>
               ret'.fn = fn /\ (fn = "fputc" => ret'.n = EOF) /\ (fn = "fwrite" => ret'.n < Len(b))
    PROVE  IInv' /\ Abs!Next
<1>1. /\ Writer \in Stream /\ Writer.last = "write" /\ Writer.lost = st.lost
      /\ Writer.acc = st.acc /\ Writer.can = st.can /\ Writer.ch = st.ch /\ Fits(Writer)
      /\ Writer.err = st.err
      /\ ~st.lost => Data = Laid(Writer) /\ Position = Reach(Writer) /\ st.ch = EOF
  BY WriterIs
<1>2. /\ st' \in Stream /\ st'.last = "write" /\ st'.acc = st.acc /\ st'.can = st.can
      /\ st'.ch = st.ch /\ Fits(st') /\ (st.lost => st'.lost) /\ b \in Seq(Bytes)
  BY <1>1 DEF Puts, SameWay
<1>3. /\ st'.lost \in BOOLEAN /\ st'.err \in BOOLEAN /\ Held(st') \in Seq(Bytes)
      /\ Len(Held(st')) = Unread(st') /\ Unread(st') = End(st') - st'.ptr
      /\ \A i \in 1 .. Unread(st') : Held(st')[i] = st'.buf[st'.ptr + i]
      /\ st'.ptr \in Nat /\ End(st') \in Nat
  BY <1>2, StreamIs, HeldIs
<1>4. Pending' = Held(st') BY <1>2 DEF Pending
<1>5. LinesAreOut'
  <2>1. SUFFICES ASSUME st'.acc = "line", ~st'.lost PROVE ~Contains(Held(st'), NL)
    BY <1>4 DEF LinesAreOut
  <2>2. NoNL(st') BY <2>1
  <2>3. ASSUME NEW i \in 1 .. Unread(st') PROVE Held(st')[i] # NL
    <3>1. st'.ptr + i \in st'.ptr + 1 .. End(st') BY <1>3
    <3>2. QED BY <1>3, <2>2, <3>1 DEF NoNL
  <2>4. QED BY <1>3, <2>3 DEF Contains
<1>6. ~st'.lost => Sound(st', dir')
  <2>1. HAVE ~st'.lost
  <2>2. st'.ch = EOF /\ ~st'.err BY <1>1, <1>2, <2>1
  <2>3. QED BY <1>2, <2>2 DEF Sound
<1>7. IInv'
  <2>1. open' \in BOOLEAN /\ open' BY DEF IInv
  <2>2. QED BY <1>2, <1>5, <1>6, <2>1 DEF IInv
<1>8. CASE st.lost BY <1>2, <1>7, <1>8, Lost
<1>9. CASE ~st.lost /\ st'.lost
  <2>1. Kept /\ ~Kept' BY <1>9 DEF Kept
  <2>2. PICK x \in Strings \cup Files : fn = "fwrite" => x = b
    <3>1. Files # {} BY StdioAssumption
    <3>2. QED BY <3>1
  <2>3. Abs!Fail(x)
    <3>1. \/ ret'.fn \in {"fputc", "fflush", "fclose", "fseek"} /\ ret'.n = Abs!EOF
          \/ ret'.fn = "fwrite" /\ ret'.n < Len(x)
      BY <1>9, <2>2, AbsIs
    <3>2. QED BY <2>1, <3>1 DEF Abs!Fail
  <2>4. Abs!Next BY <2>2, <2>3 DEF Abs!Next
  <2>5. QED BY <1>7, <2>4
<1>10. CASE ~st.lost /\ ~st'.lost
  <2>1. ret' = [fn |-> fn, n |-> Len(b), s |-> <<>>] BY <1>10
  <2>2. /\ Laid(st') = Overwrite(Laid(Writer), Reach(Writer), b)
        /\ Reach(st') = Reach(Writer) + Len(b)
    BY <1>10 DEF Puts
  <2>3. Data' = Laid(st') BY <1>4 DEF Data, Laid
  <2>4. Position' = Reach(st') BY <1>2, <1>3, <1>4 DEF Position, Reach
  <2>5. Data' = Abs!Overwrite(Data, Position, b) /\ Position' = Position + Len(b)
    BY <1>1, <1>10, <2>2, <2>3, <2>4, AbsIs
  <2>6. st'.err = st.err
    <3>1. ~st'.err /\ ~st.err BY <1>10 DEF May
    <3>2. st.err \in BOOLEAN BY StreamIs DEF IInv
    <3>3. QED BY <1>3, <3>1, <3>2
  <2>7. Dirty' \in BOOLEAN /\ Kept' = Kept /\ Buffered' = Buffered
    BY <1>2, <1>10 DEF Dirty, Kept, Buffered
  <2>8. Abs!Writable BY <1>10 DEF Abs!Writable, May, Kept
  <2>9. Abs!Says(fn, Len(b), <<>>) BY <2>1 DEF Abs!Says
  <2>10. Abs!Write(fn, b)
    BY <1>2, <2>5, <2>6, <2>7, <2>8, <2>9 DEF Abs!Write, Abs!Keeps
  <2>11. Abs!Next
    <3>1. CASE fn = "fputc" /\ \E c \in Chars : b = <<c>> BY <2>10, <3>1 DEF Abs!Next
    <3>2. CASE fn = "fwrite" /\ b \in Strings BY <2>10, <3>2 DEF Abs!Next
    <3>3. QED BY <3>1, <3>2
  <2>12. QED BY <1>7, <2>11
<1>11. QED BY <1>8, <1>9, <1>10

\* A write that is refused.
LEMMA RefusedWrite ==
    ASSUME IInv, NEW fn, NEW none \in SUBSET {EOF, 0}, Writes(fn, none), ~May(st, "write"),
           NEW b, (fn = "fputc" /\ \E c \in Chars : b = <<c>>) \/ (fn = "fwrite" /\ b \in Strings)
    PROVE  IInv' /\ Abs!Next
<1>1. PICK n \in none : Refuse(fn, n) BY DEF Writes
<1>2. open /\ st' = st /\ UNCHANGED <<open, dir>> BY <1>1 DEF Refuse, Call, Keep
<1>3. IInv' BY <1>2, NothingDone
<1>4. CASE st.lost BY <1>2, <1>3, <1>4, Lost
<1>5. CASE ~st.lost
  <2>1. Abs!Refused(fn, n) BY <1>1, <1>5, Refused
  <2>2. ~Abs!Writable BY DEF May, Abs!Writable
  <2>3. Abs!Write(fn, b) BY <2>1, <2>2, AbsIs DEF Abs!Write
  <2>4. Abs!Next
    <3>1. CASE fn = "fputc" /\ \E c \in Chars : b = <<c>> BY <2>3, <3>1 DEF Abs!Next
    <3>2. CASE fn = "fwrite" /\ b \in Strings BY <2>3, <3>2 DEF Abs!Next
    <3>3. QED BY <3>1, <3>2
  <2>5. QED BY <1>3, <2>4
<1>6. QED BY <1>4, <1>5

LEMMA PutsLost ==
    ASSUME NEW s, NEW b, NEW c \in Seq(Bytes), NEW t, Puts(s, b, t), t.lost
    PROVE  Puts(s, c, t)
BY DEF Puts

\* What is done to a line-buffered stream before a call returns.
LEMMA LineSync ==
    ASSUME NEW s \in Stream
    PROVE  LET t == IF s.acc = "line" THEN Fsync(s) ELSE s IN
           /\ Puts(s, <<>>, t) /\ t \in Stream /\ t.acc = s.acc
           /\ \E e \in BOOLEAN : (t.err <=> s.err \/ e) /\ (t.lost <=> s.lost \/ e)
                                 /\ (NoNL(s) /\ ~Full(s) => ~e)
           /\ t.acc = "line" => NoNL(t)
<1>1. CASE s.acc = "line"
  <2> DEFINE t == Fsync(s)
  <2>1. /\ Puts(s, <<>>, t)
        /\ \E e \in BOOLEAN : (t.err <=> s.err \/ e) /\ (t.lost <=> s.lost \/ e)
                              /\ (NoNL(s) /\ ~Full(s) => ~e)
        /\ NoNL(t)
    BY <1>1, FsyncIs
  <2> HIDE DEF t
  <2>2. t \in Stream /\ t.acc = s.acc BY <2>1 DEF Puts, SameWay
  <2>3. QED BY <1>1, <2>1, <2>2 DEF t
<1>2. CASE s.acc # "line"
  <2>1. Puts(s, <<>>, s) BY PutsNothing
  <2>2. FALSE \in BOOLEAN OBVIOUS
  <2>3. \E e \in BOOLEAN : (s.err <=> s.err \/ e) /\ (s.lost <=> s.lost \/ e)
                           /\ (NoNL(s) /\ ~Full(s) => ~e)
    BY <2>2
  <2>4. QED BY <1>2, <2>1, <2>3
<1>3. QED BY <1>1, <1>2

LEMMA FputcKeeps == ASSUME NEW c \in Typed PROVE IInv /\ Fputc(c) => IInv' /\ Abs!Next
<1>1. SUFFICES ASSUME IInv, Fputc(c) PROVE IInv' /\ Abs!Next OBVIOUS
<1>2. dir # "read" /\ Writes("fputc", {EOF}) BY <1>1 DEF Fputc, Writes
<1>3. c \in Chars /\ <<c>> \in Seq(Bytes) /\ Len(<<c>>) = 1 /\ BUFSIZ \in Nat \ {0}
  BY StdioAssumption, BytesHole
<1>4. CASE ~May(st, "write")
  <2>1. {EOF} \in SUBSET {EOF, 0} OBVIOUS
  <2>2. \E x \in Chars : <<c>> = <<x>> BY <1>3
  <2>3. QED BY <1>1, <1>2, <1>4, <2>1, <2>2, RefusedWrite
<1>5. CASE May(st, "write")
  <2> DEFINE s == Writer
             t == IF Full(s) THEN Fsync(s) ELSE s
             u == [t EXCEPT !.buf = Append(@, c)]
             v == IF s.acc = "line" THEN Fsync(u) ELSE u
             w == DevWrite(s, <<c>>)
  <2>1. dir' = "write" BY <1>2, <1>5 DEF Writes, Keep
  <2>2. /\ s \in Stream /\ s.err = st.err /\ s.lost = st.lost /\ s.acc = st.acc
        /\ s.buf = st.buf
    BY <1>1, <1>2, WriterIs
  <2>3. ~s.err /\ (st.acc = "none" => st.buf = <<>>) BY <1>1, <1>5, <2>2 DEF May, IInv
  <2>4. \/ /\ st.acc = "none"
           /\ Call("fputc", w, IF Short(s, <<c>>) THEN EOF ELSE 1, <<>>)
        \/ /\ st.acc # "none"
           /\ IF t.err THEN Call("fputc", t, EOF, <<>>)
              ELSE Call("fputc", v, IF v.err THEN EOF ELSE 1, <<>>)
    BY <1>1, <1>5 DEF Fputc, Writer
  <2> HIDE DEF s, t, u, v, w
  <2>5. ASSUME open, UNCHANGED open, Puts(s, <<c>>, st'),
               st'.err => st'.lost, st'.acc = "none" => st'.buf = <<>>,
               st'.acc = "line" /\ ~st'.lost => NoNL(st'),
               NEW n, ret' = [fn |-> "fputc", n |-> n, s |-> <<>>],
               ~st'.lost => n = 1, ~st.lost /\ st'.lost => n = EOF
        PROVE  IInv' /\ Abs!Next
    <3>1. Puts(Writer, <<c>>, st') BY <2>5 DEF s
    <3>2. ~st'.lost => ret' = [fn |-> "fputc", n |-> Len(<<c>>), s |-> <<>>] BY <1>3, <2>5
    <3>3. ~st.lost /\ st'.lost => /\ ret'.fn = "fputc" /\ ("fputc" = "fputc" => ret'.n = EOF)
                                  /\ ("fputc" = "fwrite" => ret'.n < Len(<<c>>))
      BY <2>5
    <3>4. ("fputc" = "fputc" /\ \E x \in Chars : <<c>> = <<x>>)
          \/ ("fputc" = "fwrite" /\ <<c>> \in Strings)
      BY <1>3
    <3>5. QED BY <1>1, <1>2, <1>5, <2>1, <2>5, <3>1, <3>2, <3>3, <3>4, WriteCall
  <2>6. CASE /\ st.acc = "none"
             /\ Call("fputc", w, IF Short(s, <<c>>) THEN EOF ELSE 1, <<>>)
    <3>1. /\ open /\ UNCHANGED open /\ st' = w
          /\ ret' = [fn |-> "fputc", n |-> IF Short(s, <<c>>) THEN EOF ELSE 1, s |-> <<>>]
      BY <2>6 DEF Call
    <3>2. Empty(s) /\ s.buf = <<>>
      <4>1. s.buf = <<>> BY <2>2, <2>3, <2>6
      <4>2. End(s) = 0 /\ s.ptr \in Nat BY <2>2, <4>1, StreamIs DEF End
      <4>3. QED BY <4>1, <4>2 DEF Empty
    <3>3. /\ Puts(s, <<c>>, w) /\ w.err = s.err /\ w.buf = s.buf
          /\ w.lost <=> s.lost \/ Short(s, <<c>>)
      BY <1>3, <2>2, <3>2, WritePast DEF w
    <3>4. w.acc = "none" BY <2>2, <2>6, <3>3 DEF Puts, SameWay
    <3>5. QED BY <2>2, <2>3, <2>5, <3>1, <3>2, <3>3, <3>4
  <2>7. CASE /\ st.acc # "none"
             /\ IF t.err THEN Call("fputc", t, EOF, <<>>)
                ELSE Call("fputc", v, IF v.err THEN EOF ELSE 1, <<>>)
    <3>1. /\ Puts(s, <<>>, t) /\ End(t) < BUFSIZ
          /\ \E e \in BOOLEAN : (t.err <=> s.err \/ e) /\ (t.lost <=> s.lost \/ e)
      <4>1. CASE Full(s)
        <5>1. /\ Puts(s, <<>>, t) /\ t.buf = <<>>
              /\ \E e \in BOOLEAN : (t.err <=> s.err \/ e) /\ (t.lost <=> s.lost \/ e)
          BY <2>2, <4>1, FsyncIs DEF t
        <5>2. End(t) = 0 BY <5>1 DEF End
        <5>3. QED BY <1>3, <5>1, <5>2
      <4>2. CASE ~Full(s)
        <5>1. t = s BY <4>2 DEF t
        <5>2. End(s) \in Nat BY <2>2, StreamIs
        <5>3. End(s) < BUFSIZ BY <1>3, <4>2, <5>2 DEF Full
        <5>4. FALSE \in BOOLEAN OBVIOUS
        <5>5. \E e \in BOOLEAN : (s.err <=> s.err \/ e) /\ (s.lost <=> s.lost \/ e) BY <5>4
        <5>6. QED BY <2>2, <5>1, <5>3, <5>5, PutsNothing
      <4>3. QED BY <4>1, <4>2
    <3>2. t \in Stream /\ t.acc = st.acc BY <2>2, <3>1 DEF Puts, SameWay
    <3>3. (t.err <=> t.lost /\ ~s.lost) \/ (s.lost /\ t.lost) BY <2>3, <3>1
    <3>4. CASE t.err /\ Call("fputc", t, EOF, <<>>)
      <4>1. /\ open /\ UNCHANGED open /\ st' = t
            /\ ret' = [fn |-> "fputc", n |-> EOF, s |-> <<>>]
        BY <3>4 DEF Call
      <4>2. t.lost BY <3>3, <3>4
      <4>3. Puts(s, <<c>>, t) BY <1>3, <3>1, <4>2, PutsLost
      <4>4. QED BY <2>5, <2>7, <3>2, <4>1, <4>2, <4>3
    <3>5. CASE ~t.err /\ Call("fputc", v, IF v.err THEN EOF ELSE 1, <<>>)
      <4>1. /\ open /\ UNCHANGED open /\ st' = v
            /\ ret' = [fn |-> "fputc", n |-> IF v.err THEN EOF ELSE 1, s |-> <<>>]
        BY <3>5 DEF Call
      <4>2. u = [t EXCEPT !.buf = @ \o <<c>>]
        <5>1. t.buf \in Seq(Bytes) /\ c \in Bytes BY <1>3, <3>2, StreamIs, BytesHole
        <5>2. Append(t.buf, c) = t.buf \o <<c>> BY <5>1
        <5>3. QED BY <5>2 DEF u
      <4>3. Puts(t, <<c>>, u) /\ u.err = t.err /\ u.lost = t.lost
        <5>1. End(t) + Len(<<c>>) <= BUFSIZ
          <6>1. End(t) \in Nat BY <3>2, StreamIs
          <6>2. QED BY <1>3, <3>1, <6>1
        <5>2. QED BY <1>3, <3>2, <4>2, <5>1, BufferIs
      <4>4. u \in Stream /\ u.acc = s.acc BY <2>2, <3>2, <4>3 DEF Puts, SameWay
      <4>5. /\ Puts(u, <<>>, v) /\ v.acc = u.acc
            /\ \E e \in BOOLEAN : (v.err <=> u.err \/ e) /\ (v.lost <=> u.lost \/ e)
            /\ v.acc = "line" => NoNL(v)
        BY <4>4, LineSync DEF v
      <4>6. Puts(s, <<c>>, v)
        <5>1. <<>> \o <<c>> = <<c>> /\ <<c>> \o <<>> = <<c>> OBVIOUS
        <5>2. Puts(s, <<c>>, u) BY <2>2, <3>1, <4>3, <5>1, PutsTwice
        <5>3. QED BY <2>2, <4>5, <5>1, <5>2, PutsTwice
      <4>7. (v.err => v.lost) /\ (v.lost => s.lost \/ v.err) BY <3>3, <3>5, <4>3, <4>5
      <4>8. st'.acc # "none" BY <2>2, <2>7, <4>1, <4>4, <4>5
      <4>9. QED BY <2>2, <2>5, <4>1, <4>5, <4>6, <4>7, <4>8
    <3>6. QED BY <2>7, <3>4, <3>5
  <2>8. QED BY <2>4, <2>6, <2>7
<1>6. QED BY <1>4, <1>5

\* fwrite(), once the buffer has taken what it has room for.
LEMMA RestPuts ==
    ASSUME NEW s \in Stream, ~s.err, NEW q \in Seq(Bytes), NEW total \in Nat, Len(q) <= total,
           q # <<>> => s.buf = <<>>, s.acc = "line" => NoNL(s), ~Full(s),
           FwriteRest(s, total, q)
    PROVE  \E n \in Int :
              /\ Gives("fwrite", n, <<>>) /\ Puts(s, q, st') /\ (st'.err => st'.lost)
              /\ st'.acc = "line" => NoNL(st')
              /\ ~st'.lost => n = total
              /\ ~s.lost /\ st'.lost => n < total
<1> DEFINE m == BUFSIZ * ((Len(q) - 1) \div BUFSIZ)
           f == First(q, m)
           r == After(q, m)
           t == DevWrite(s, f)
           u == [t EXCEPT !.buf = r]
           v == IF s.acc = "line" THEN Fsync(u) ELSE u
           turns == DevRoom(s) \div BUFSIZ
           w == IF s.acc = "line" THEN Fsync(s) ELSE s
<1>0. Len(q) \in Nat /\ BUFSIZ \in Nat \ {0} BY BytesHole
<1>1. \/ q = <<>> /\ Call("fwrite", w, total, <<>>)
      \/ /\ q # <<>> /\ m > DevRoom(s)
         /\ Call("fwrite", [t EXCEPT !.err = TRUE], total - Len(q) + turns * BUFSIZ, <<>>)
      \/ /\ q # <<>> /\ ~(m > DevRoom(s))
         /\ Call("fwrite", v, IF v.err THEN m + total - Len(q) ELSE total, <<>>)
  <2> HIDE DEF m, f, r, t, u, v, turns, w
  <2>1. FwriteRest(s, total, q) =
           CASE q = <<>> -> Call("fwrite", w, total, <<>>)
             [] q # <<>> /\ m > DevRoom(s) ->
                   Call("fwrite", [t EXCEPT !.err = TRUE], total - Len(q) + turns * BUFSIZ, <<>>)
             [] OTHER -> Call("fwrite", v, IF v.err THEN m + total - Len(q) ELSE total, <<>>)
    BY DEF FwriteRest, m, f, r, t, u, v, turns, w
  <2>2. QED BY <2>1
<1>2. CASE q = <<>> /\ Call("fwrite", w, total, <<>>)
  <2>1. st' = w /\ Gives("fwrite", total, <<>>) BY <1>2 DEF Call, Gives
  <2>2. /\ Puts(s, <<>>, w) /\ (w.acc = "line" => NoNL(w))
        /\ (w.err <=> s.err) /\ (w.lost <=> s.lost)
    <3>1. CASE s.acc = "line"
      <4>1. NoNL(s) /\ ~Full(s) BY <3>1
      <4>2. /\ Puts(s, <<>>, w) /\ (w.acc = "line" => NoNL(w))
            /\ \E e \in BOOLEAN : (w.err <=> s.err \/ e) /\ (w.lost <=> s.lost \/ e)
                                  /\ (NoNL(s) /\ ~Full(s) => ~e)
        BY LineSync
      <4> HIDE DEF w
      <4>3. QED BY <4>1, <4>2
    <3>2. CASE s.acc # "line" BY <3>2, PutsNothing
    <3>3. QED BY <3>1, <3>2
  <2> HIDE DEF w
  <2>3. total \in Int OBVIOUS
  <2>4. QED BY <1>2, <2>1, <2>2, <2>3
<1>3. ASSUME q # <<>>
      PROVE  /\ m \in Nat /\ m < Len(q) /\ Len(q) - m <= BUFSIZ
             /\ f \in Seq(Bytes) /\ Len(f) = m /\ r \in Seq(Bytes) /\ Len(r) = Len(q) - m
             /\ f \o r = q
             /\ Puts(s, f, t) /\ t.err = s.err /\ t.buf = <<>> /\ t \in Stream
             /\ t.lost <=> s.lost \/ m > DevRoom(s)
             /\ t.acc = s.acc
  <2>1. Len(q) \in Nat \ {0} BY <1>0, <1>3, NoBytes
  <2>2. m \in Nat /\ m < Len(q) /\ Len(q) - m <= BUFSIZ BY <2>1, WholeBuffers
  <2> HIDE DEF m
  <2>3. f \in Seq(Bytes) /\ Len(f) = m BY <1>0, <2>2, FirstIs DEF Least
  <2>4. r \in Seq(Bytes) /\ Len(r) = Len(q) - m BY <1>0, <2>2, AfterIs DEF Most
  <2>5. f \o r = q BY <2>2, FirstThenAfter
  <2> HIDE DEF f
  <2>6. Empty(s)
    <3>1. s.buf = <<>> /\ s.ptr \in Nat BY <1>3, StreamIs
    <3>2. QED BY <3>1 DEF Empty, End
  <2>7. /\ Puts(s, f, t) /\ t.err = s.err /\ t.buf = s.buf
        /\ t.lost <=> s.lost \/ Short(s, f)
    BY <2>3, <2>6, WritePast
  <2>8. t \in Stream /\ t.acc = s.acc BY <2>7 DEF Puts, SameWay
  <2>9. Short(s, f) <=> m > DevRoom(s) BY <2>3 DEF Short
  <2>10. QED BY <1>3, <2>2, <2>3, <2>4, <2>5, <2>7, <2>8, <2>9
<1>4. CASE /\ q # <<>> /\ m > DevRoom(s)
           /\ Call("fwrite", [t EXCEPT !.err = TRUE], total - Len(q) + turns * BUFSIZ, <<>>)
  <2> DEFINE x == [t EXCEPT !.err = TRUE]
             n == total - Len(q) + turns * BUFSIZ
  <2>1. st' = x /\ Gives("fwrite", n, <<>>) BY <1>4 DEF Call, Gives
  <2>2. /\ m \in Nat /\ m < Len(q) /\ Puts(s, f, t) /\ t.lost /\ t \in Stream
    BY <1>3, <1>4
  <2>3. DevRoom(s) \in Nat BY RoomIs
  <2>4. turns \in Nat /\ turns * BUFSIZ \in Nat /\ turns * BUFSIZ <= DevRoom(s)
    BY <1>0, <2>3
  <2> HIDE DEF m, turns, t
  <2>5. n \in Int /\ n < total BY <1>0, <1>4, <2>2, <2>3, <2>4
  <2> HIDE DEF n
  <2>6. Puts(s, f, x) /\ x.err = TRUE /\ x.lost = t.lost
    <3>1. TRUE \in BOOLEAN OBVIOUS
    <3>2. QED BY <2>2, <3>1, SetErr
  <2> HIDE DEF x
  <2>7. Puts(s, q, x) BY <2>2, <2>6, PutsLost
  <2>8. x.acc = "line" => NoNL(x)
    <3>1. x.buf = <<>>
      <4>1. t \in FileState BY <2>2 DEF Stream
      <4>2. x.buf = t.buf BY <4>1 DEF FileState, x
      <4>3. t.buf = <<>> BY <1>3, <1>4 DEF t
      <4>4. QED BY <4>2, <4>3
    <3>2. End(x) = 0 BY <3>1 DEF End
    <3>3. x \in Stream BY <2>6 DEF Puts
    <3>4. x.ptr \in Nat BY <3>3, StreamIs
    <3>5. QED BY <3>2, <3>4 DEF NoNL
  <2>9. QED BY <2>1, <2>2, <2>5, <2>6, <2>7, <2>8
<1>5. CASE /\ q # <<>> /\ ~(m > DevRoom(s))
           /\ Call("fwrite", v, IF v.err THEN m + total - Len(q) ELSE total, <<>>)
  <2> DEFINE n == IF v.err THEN m + total - Len(q) ELSE total
  <2>1. st' = v /\ Gives("fwrite", n, <<>>) BY <1>5 DEF Call, Gives
  <2>2. /\ m \in Nat /\ m < Len(q) /\ Len(q) - m <= BUFSIZ
        /\ f \in Seq(Bytes) /\ r \in Seq(Bytes) /\ Len(r) = Len(q) - m /\ f \o r = q
        /\ Puts(s, f, t) /\ t.err = s.err /\ t.buf = <<>> /\ t \in Stream /\ t.acc = s.acc
        /\ t.lost <=> s.lost
    BY <1>3, <1>5
  <2> HIDE DEF m, f, r, t
  <2>3. u = [t EXCEPT !.buf = @ \o r]
    <3>1. <<>> \o r = r BY <2>2, NoBytes
    <3>2. QED BY <2>2, <3>1
  <2> HIDE DEF u
  <2>4. Puts(t, r, u) /\ u.err = t.err /\ u.lost = t.lost
    <3>1. End(t) = 0 BY <2>2 DEF End
    <3>2. End(t) + Len(r) <= BUFSIZ BY <1>0, <2>2, <3>1
    <3>3. t \in Stream BY <2>2
    <3>4. r \in Seq(Bytes) BY <2>2
    <3> DEFINE x == [t EXCEPT !.buf = @ \o r]
    <3>5. Puts(t, r, x) /\ x.err = t.err /\ x.lost = t.lost BY <3>2, <3>3, <3>4, BufferIs
    <3> HIDE DEF x
    <3>6. u = x BY <2>3 DEF x
    <3>7. QED BY <3>5, <3>6
  <2>5. u \in Stream /\ u.acc = s.acc BY <2>2, <2>4 DEF Puts, SameWay
  <2>6. /\ Puts(u, <<>>, v) /\ v.acc = u.acc
        /\ \E e \in BOOLEAN : (v.err <=> u.err \/ e) /\ (v.lost <=> u.lost \/ e)
        /\ v.acc = "line" => NoNL(v)
    BY <2>5, LineSync
  <2> HIDE DEF v
  <2>7. Puts(s, q, v)
    <3>1. Puts(s, q, u) BY <2>2, <2>4, PutsTwice
    <3>2. q \o <<>> = q BY NoBytes
    <3>3. Puts(s, q \o <<>>, v) BY <2>6, <3>1, PutsTwice
    <3>4. QED BY <3>2, <3>3
  <2>8. (v.err => v.lost) /\ (v.lost => s.lost \/ v.err) BY <2>2, <2>4, <2>6
  <2>9. v.err => n < total
    <3>1. HAVE v.err
    <3>2. n = m + total - Len(q) BY <3>1
    <3>3. QED BY <1>0, <2>2, <3>2
  <2>10. n \in Int BY <1>0, <2>2
  <2>11. ~v.err => n = total OBVIOUS
  <2> HIDE DEF n
  <2>12. QED BY <2>1, <2>6, <2>7, <2>8, <2>9, <2>10, <2>11
<1>6. QED BY <1>1, <1>2, <1>4, <1>5

LEMMA FwriteKeeps == ASSUME NEW p \in Strings PROVE IInv /\ Fwrite(p) => IInv' /\ Abs!Next
<1>1. SUFFICES ASSUME IInv, Fwrite(p) PROVE IInv' /\ Abs!Next OBVIOUS
<1>2. dir # "read" /\ Writes("fwrite", {0}) BY <1>1 DEF Fwrite, Writes
<1>3. p \in Seq(Bytes) /\ Len(p) \in Nat \ {0} /\ BUFSIZ \in Nat \ {0}
  <2>1. p \in Seq(Chars) /\ p # <<>> BY StdioAssumption
  <2>2. p \in Seq(Bytes) BY <2>1, BytesHole
  <2>3. QED BY <2>1, <2>2, BytesHole
<1>4. CASE ~May(st, "write")
  <2>1. {0} \in SUBSET {EOF, 0} OBVIOUS
  <2>2. QED BY <1>1, <1>2, <1>4, <2>1, RefusedWrite
<1>5. CASE May(st, "write")
  <2> DEFINE s == Writer
             k == Least(BUFSIZ - End(s), Len(p))
             f == First(p, k)
             q == After(p, k)
             a == [s EXCEPT !.buf = @ \o f]
             t == Fsync(a)
             d == DevWrite(s, p)
             w == [d EXCEPT !.err = Short(s, p)]
  <2>1. dir' = "write" BY <1>2, <1>5 DEF Writes, Keep
  <2>2. /\ s \in Stream /\ s.err = st.err /\ s.lost = st.lost /\ s.acc = st.acc
        /\ s.buf = st.buf
    BY <1>1, <1>2, WriterIs
  <2>3. ~s.err /\ (st.acc = "none" => st.buf = <<>>) BY <1>1, <1>5, <2>2 DEF May, IInv
  <2>4. \/ st.acc = "none" /\ Call("fwrite", w, Least(Len(p), DevRoom(s)), <<>>)
        \/ /\ st.acc # "none"
           /\ IF t.err THEN Call("fwrite", t, 0, <<>>) ELSE FwriteRest(t, Len(p), q)
    BY <1>1, <1>5 DEF Fwrite, Writer
  <2> HIDE DEF s, k, f, q, a, t, d, w
  <2>5. ASSUME open, UNCHANGED open, Puts(s, p, st'),
               st'.err => st'.lost, st'.acc = "none" => st'.buf = <<>>,
               st'.acc = "line" /\ ~st'.lost => NoNL(st'),
               NEW n, ret' = [fn |-> "fwrite", n |-> n, s |-> <<>>],
               ~st'.lost => n = Len(p), ~st.lost /\ st'.lost => n < Len(p)
        PROVE  IInv' /\ Abs!Next
    <3>1. Puts(Writer, p, st') BY <2>5 DEF s
    <3>2. ~st'.lost => ret' = [fn |-> "fwrite", n |-> Len(p), s |-> <<>>] BY <2>5
    <3>3. ~st.lost /\ st'.lost => /\ ret'.fn = "fwrite" /\ ("fwrite" = "fputc" => ret'.n = EOF)
                                  /\ ("fwrite" = "fwrite" => ret'.n < Len(p))
      BY <2>5
    <3>4. ("fwrite" = "fputc" /\ \E x \in Chars : p = <<x>>)
          \/ ("fwrite" = "fwrite" /\ p \in Strings)
      OBVIOUS
    <3>5. QED BY <1>1, <1>2, <1>5, <2>1, <2>5, <3>1, <3>2, <3>3, <3>4, WriteCall
  <2>6. CASE st.acc = "none" /\ Call("fwrite", w, Least(Len(p), DevRoom(s)), <<>>)
    <3> DEFINE n == Least(Len(p), DevRoom(s))
    <3>1. /\ open /\ UNCHANGED open /\ st' = w
          /\ ret' = [fn |-> "fwrite", n |-> n, s |-> <<>>]
      BY <2>6 DEF Call
    <3>2. Empty(s) /\ s.buf = <<>>
      <4>1. s.buf = <<>> BY <2>2, <2>3, <2>6
      <4>2. End(s) = 0 /\ s.ptr \in Nat BY <2>2, <4>1, StreamIs DEF End
      <4>3. QED BY <4>1, <4>2 DEF Empty
    <3>3. Puts(s, p, d) /\ d.buf = s.buf /\ (d.lost <=> s.lost \/ Short(s, p))
      BY <1>3, <2>2, <3>2, WritePast DEF d
    <3>4. PICK e \in BOOLEAN : e = Short(s, p)
      <4>1. Short(s, p) \in BOOLEAN BY <1>3, <2>2, RoomIs
      <4>2. QED BY <4>1, Zenon
    <3>5. e <=> Short(s, p) BY <3>4, Zenon
    <3>6. Puts(s, p, w) /\ w.err = e /\ w.lost = d.lost /\ w.buf = d.buf
      <4>1. w = [d EXCEPT !.err = e] BY <3>4 DEF w
      <4>2. QED BY <2>2, <3>3, <4>1, SetErr
    <3>7. w.acc = "none" BY <2>2, <2>6, <3>6 DEF Puts, SameWay
    <3>8. DevRoom(s) \in Nat BY <1>3, <2>2, RoomIs
    <3>9. ~Short(s, p) => n = Len(p)
      <4>1. HAVE ~Short(s, p)
      <4>2. Len(p) <= DevRoom(s) BY <1>3, <3>8, <4>1 DEF Short
      <4>3. QED BY <1>3, <3>8, <4>2 DEF Least
    <3>10. Short(s, p) => n < Len(p)
      <4>1. HAVE Short(s, p)
      <4>2. Len(p) > DevRoom(s) BY <4>1 DEF Short
      <4>3. QED BY <1>3, <3>8, <4>2 DEF Least
    <3> HIDE DEF n
    <3>11. ~st'.lost => n = Len(p) BY <3>1, <3>3, <3>6, <3>9
    <3>12. ~st.lost /\ st'.lost => n < Len(p) BY <2>2, <3>1, <3>3, <3>6, <3>10
    <3>13. (st'.err => st'.lost) /\ st'.acc = "none" /\ st'.buf = <<>> /\ Puts(s, p, st')
      BY <3>1, <3>2, <3>3, <3>5, <3>6, <3>7
    <3>14. QED BY <2>5, <3>1, <3>11, <3>12, <3>13
  <2>7. CASE /\ st.acc # "none"
             /\ IF t.err THEN Call("fwrite", t, 0, <<>>) ELSE FwriteRest(t, Len(p), q)
    <3>1. End(s) \in Nat /\ End(s) <= BUFSIZ BY <2>2, StreamIs
    <3>2. k \in Nat /\ k <= Len(p) /\ End(s) + k <= BUFSIZ /\ (k < Len(p) => End(s) + k = BUFSIZ)
      BY <1>3, <3>1 DEF k, Least
    <3>3. f \in Seq(Bytes) /\ Len(f) = k BY <1>3, <3>2, FirstIs DEF f, Least
    <3>4. q \in Seq(Bytes) /\ Len(q) = Len(p) - k BY <1>3, <3>2, AfterIs DEF q, Most
    <3>5. f \o q = p BY <1>3, <3>2, FirstThenAfter DEF f, q
    <3>6. Puts(s, f, a) /\ a.err = s.err /\ a.lost = s.lost /\ End(a) = End(s) + k
      BY <2>2, <3>2, <3>3, BufferIs DEF a
    <3>7. a \in Stream /\ a.acc = s.acc BY <3>6 DEF Puts, SameWay
    <3>8. /\ Puts(a, <<>>, t) /\ End(t) <= End(a) /\ (Full(a) => t.buf = <<>>)
          /\ \E e \in BOOLEAN : (t.err <=> a.err \/ e) /\ (t.lost <=> a.lost \/ e)
          /\ a.acc = "line" => NoNL(t)
      BY <3>7, FsyncIs DEF t
    <3>9. t \in Stream /\ t.acc = st.acc BY <2>2, <3>7, <3>8 DEF Puts, SameWay
    <3>10. Puts(s, f, t)
      <4>1. f \o <<>> = f BY <3>3, NoBytes
      <4>2. Puts(s, f \o <<>>, t) BY <2>2, <3>6, <3>8, PutsTwice
      <4>3. QED BY <4>1, <4>2
    <3>11. (t.err => t.lost) /\ (t.lost => s.lost \/ t.err) BY <2>3, <3>6, <3>8
    <3>12. CASE t.err /\ Call("fwrite", t, 0, <<>>)
      <4>1. /\ open /\ UNCHANGED open /\ st' = t
            /\ ret' = [fn |-> "fwrite", n |-> 0, s |-> <<>>]
        BY <3>12 DEF Call
      <4>2. t.lost BY <3>11, <3>12
      <4>3. Puts(s, p, t) BY <1>3, <3>10, <4>2, PutsLost
      <4>4. 0 < Len(p) BY <1>3
      <4>5. st'.acc # "none" BY <2>7, <3>9, <4>1
      <4>6. QED BY <2>5, <4>1, <4>2, <4>3, <4>4, <4>5
    <3>13. CASE ~t.err /\ FwriteRest(t, Len(p), q)
      <4>1. q # <<>> => t.buf = <<>>
        <5>1. HAVE q # <<>>
        <5>2. Len(q) # 0 BY <3>4, <5>1, NoBytes
        <5>3. k < Len(p) BY <1>3, <3>2, <3>4, <5>2
        <5>4. Full(a) BY <1>3, <3>2, <3>6, <5>3 DEF Full
        <5>5. QED BY <3>8, <5>4
      <4>2. ~Full(t)
        <5>1. CASE Full(a)
          <6>1. End(t) = 0 BY <3>8, <5>1 DEF End
          <6>2. QED BY <1>3, <6>1 DEF Full
        <5>2. CASE ~Full(a)
          <6>1. End(a) \in Nat /\ End(t) \in Nat BY <3>7, <3>9, StreamIs
          <6>2. QED BY <1>3, <3>8, <5>2, <6>1 DEF Full
        <5>3. QED BY <5>1, <5>2
      <4>3. t.acc = "line" => NoNL(t) BY <2>2, <3>7, <3>8, <3>9
      <4>4. Len(p) \in Nat /\ Len(q) <= Len(p) BY <1>3, <3>2, <3>4
      <4>5. PICK n \in Int :
              /\ Gives("fwrite", n, <<>>) /\ Puts(t, q, st') /\ (st'.err => st'.lost)
              /\ st'.acc = "line" => NoNL(st')
              /\ ~st'.lost => n = Len(p)
              /\ ~t.lost /\ st'.lost => n < Len(p)
        BY <3>4, <3>9, <3>13, <4>1, <4>2, <4>3, <4>4, RestPuts
      <4>6. Puts(s, p, st') BY <2>2, <3>5, <3>10, <4>5, PutsTwice
      <4>7. /\ open /\ UNCHANGED open /\ ret' = [fn |-> "fwrite", n |-> n, s |-> <<>>]
        BY <4>5 DEF Gives
      <4>8. st'.acc # "none" BY <2>7, <3>9, <4>5 DEF Puts, SameWay
      <4>9. ~st.lost /\ st'.lost => n < Len(p) BY <2>2, <3>11, <3>13, <4>5
      <4>10. QED BY <2>5, <4>5, <4>6, <4>7, <4>8, <4>9
    <3>14. QED BY <2>7, <3>12, <3>13
  <2>8. QED BY <2>4, <2>6, <2>7
<1>6. QED BY <1>4, <1>5
-----------------------------------------------------------------------------
(* fflush(), and what calls it. *)

\* However much of it the disk has room for, what is written ends no later than
\* all of it would.
LEMMA DevWriteEnds ==
    ASSUME NEW s \in Stream, NEW b \in Seq(Bytes)
    PROVE  LET t == DevWrite(s, b) IN
           /\ Len(t.file) <= Len(Overwrite(s.file, s.pos, b))
           /\ s.pos <= t.pos /\ t.pos <= s.pos + Len(b)
<1> DEFINE w == First(b, DevRoom(s))
           f == Overwrite(s.file, s.pos, w)
           g == Overwrite(s.file, s.pos, b)
           t == DevWrite(s, b)
<1>1. s \in FileState BY DEF Stream
<1>2. s.file \in Seq(Bytes) /\ s.pos \in Nat BY StreamIs
<1>3. w \in Seq(Bytes) /\ Len(w) <= Len(b) BY RoomIs
<1>4. t.file = f /\ t.pos = s.pos + Len(w) BY <1>1 DEF DevWrite, FileState
<1> HIDE DEF t, w
<1>5. Len(w) \in Nat /\ Len(b) \in Nat /\ Len(s.file) \in Nat BY <1>2, <1>3
<1>6. /\ w = <<>> => f = s.file
      /\ w # <<>> => Len(f) = Most(Len(s.file), s.pos + Len(w))
  BY <1>2, <1>3, OverBytes
<1>7. /\ b = <<>> => g = s.file
      /\ b # <<>> => Len(g) = Most(Len(s.file), s.pos + Len(b))
  BY <1>2, OverBytes
<1> HIDE DEF f, g
<1>8. Len(f) <= Len(g)
  <2>1. CASE b = <<>>
    <3>1. Len(b) = 0 BY <2>1
    <3>2. Len(w) = 0 BY <1>3, <1>5, <3>1
    <3>3. w = <<>> BY <1>3, <3>2, NoBytes
    <3>4. QED BY <1>5, <1>6, <1>7, <2>1, <3>3
  <2>2. CASE b # <<>>
    <3>1. Len(g) = Most(Len(s.file), s.pos + Len(b)) BY <1>7, <2>2
    <3>2. Len(f) \in {Len(s.file), Most(Len(s.file), s.pos + Len(w))} BY <1>6
    <3>3. QED BY <1>2, <1>3, <1>5, <3>1, <3>2 DEF Most
  <2>3. QED BY <2>1, <2>2
<1>9. s.pos <= t.pos /\ t.pos <= s.pos + Len(b) BY <1>2, <1>3, <1>4, <1>5
<1>10. QED BY <1>4, <1>8, <1>9 DEF t, f, g

\* The buffer is empty, the program's bytes are in the file and the descriptor
\* behind them, unless a byte was lost.
LEMMA FlushedIs ==
    ASSUME IInv
    PROVE  LET t == Flushed(st) IN
           /\ t \in Stream /\ Fits(t)
           /\ t.can = st.can /\ t.acc = st.acc /\ t.last = st.last /\ t.err = st.err
           /\ t.there = st.there
           /\ t.lost <=> st.lost \/ FlushFails(st)
           /\ t.acc = "none" => t.buf = <<>>
           /\ st.pos <= t.pos /\ t.pos <= st.pos + BUFSIZ
           /\ Len(t.file) <= Len(Data)
           /\ t.err => t = st
           /\ ~t.err /\ (st.last = "write" => st.acc # "none") => Empty(t)
           /\ ~t.lost => /\ Empty(t) /\ t.ch = EOF /\ t.file = Data
                         /\ t.pos = st.pos + Len(Pending)
<1> DEFINE t == Flushed(st)
           c == [st EXCEPT !.ch = EOF]
           b == Held(st)
<1>1. st \in Stream /\ st \in FileState /\ Fits(st) /\ (st.acc = "none" => st.buf = <<>>)
  BY DEF IInv, Stream
<1>2. /\ st.file \in Seq(Bytes) /\ st.pos \in Nat /\ b \in Seq(Bytes) /\ Len(b) = Unread(st)
      /\ Unread(st) \in Nat /\ (b = <<>> <=> Empty(st)) /\ Unread(st) <= BUFSIZ
      /\ st.lost \in BOOLEAN /\ st.err \in BOOLEAN /\ BUFSIZ \in Nat /\ Len(st.file) \in Nat
      /\ st.last \in {"closed", "read", "write"} /\ DISK \in Nat
  <2>1. Unread(st) = End(st) - st.ptr /\ End(st) <= BUFSIZ /\ st.ptr \in Nat /\ End(st) \in Nat
    BY <1>1, StreamIs
  <2>2. QED BY <1>1, <2>1, StreamIs, HeldIs, BytesHole
<1>3. /\ c.file = st.file /\ c.there = st.there /\ c.pos = st.pos /\ c.lost = st.lost
      /\ c.can = st.can /\ c.err = st.err /\ c.last = st.last /\ c.acc = st.acc
      /\ c.ptr = st.ptr /\ c.buf = st.buf /\ c.ch = EOF /\ c \in FileState
  BY <1>1 DEF FileState
<1> HIDE DEF c
<1>4. c \in Stream /\ (Empty(c) <=> Empty(st)) BY <1>1, <1>3 DEF Stream, End, Empty
<1>5. /\ st.err => t = st
      /\ ~st.err /\ st.last = "write" /\ st.acc # "none" => t = DevWrite(Discard(c), b)
      /\ ~st.err /\ st.last = "write" /\ st.acc = "none" => t = c
      /\ ~st.err /\ st.last # "write" => t = Discard(c)
  BY DEF Flushed, c
<1> HIDE DEF t, b
<1>6. st.last # "write" => Pending = <<>> /\ Data = st.file /\ ~FlushFails(st) /\ Len(Pending) = 0
  BY DEF Pending, Data, Overwrite, FlushFails
<1>7. st.last = "write" => Pending = b /\ Data = Overwrite(st.file, st.pos, b)
  BY DEF Pending, Data, b
<1>8. CASE st.err
  <2>1. t = st /\ ~FlushFails(st) BY <1>5, <1>8 DEF FlushFails
  <2>2. Len(st.file) <= Len(Data)
    <3>1. CASE st.last # "write" BY <1>2, <1>6, <3>1
    <3>2. CASE st.last = "write"
      <4>0. st.file \in Seq(Bytes) /\ b \in Seq(Bytes) /\ st.pos \in Nat BY <1>2
      <4>1. /\ b = <<>> => Data = st.file
            /\ b # <<>> => Len(Data) = Most(Len(st.file), st.pos + Len(b))
        <5>1. /\ b = <<>> => Overwrite(st.file, st.pos, b) = st.file
              /\ b # <<>> => Len(Overwrite(st.file, st.pos, b)) = Most(Len(st.file), st.pos + Len(b))
          BY <4>0, OverBytes
        <5>2. Data = Overwrite(st.file, st.pos, b) BY <1>7, <3>2
        <5>3. QED BY <5>1, <5>2
      <4>2. QED BY <1>2, <4>1 DEF Most
    <3>3. QED BY <3>1, <3>2
  <2>3. ASSUME ~st.lost
        PROVE  Empty(st) /\ st.ch = EOF /\ st.file = Data /\ st.pos = st.pos + Len(Pending)
    <3>1. Empty(st) /\ st.ch = EOF /\ st.last = "read" BY <1>8, <2>3 DEF IInv, Sound
    <3>2. QED BY <1>2, <1>6, <3>1
  <2>4. st.pos <= st.pos /\ st.pos <= st.pos + BUFSIZ BY <1>2
  <2>5. t.lost <=> st.lost \/ FlushFails(st) BY <2>1
  <2>6. QED BY <1>1, <1>8, <2>1, <2>2, <2>3, <2>4, <2>5 DEF t
<1>9. CASE ~st.err /\ st.last = "write" /\ st.acc # "none"
  <2> DEFINE d == Discard(c)
  <2>1. /\ d \in Stream /\ SameWay(c, d) /\ d.file = c.file /\ d.pos = c.pos
        /\ d.err = c.err /\ d.lost = c.lost /\ d.buf = <<>> /\ Empty(d)
    BY <1>4, DiscardIs
  <2>2. t = DevWrite(d, b) BY <1>5, <1>9
  <2> HIDE DEF d
  <2>3. /\ t \in Stream /\ SameWay(d, t) /\ (Fits(d) => Fits(t))
        /\ t.err = d.err /\ t.buf = d.buf /\ t.ptr = d.ptr
        /\ t.lost <=> d.lost \/ Short(d, b)
        /\ ~t.lost => t.file = Overwrite(d.file, d.pos, b) /\ t.pos = d.pos + Len(b)
    BY SMTT(40), <1>2, <2>1, <2>2, DevWriteIs
  <2>4. /\ Len(t.file) <= Len(Overwrite(d.file, d.pos, b))
        /\ d.pos <= t.pos /\ t.pos <= d.pos + Len(b)
    BY <1>2, <2>1, <2>2, DevWriteEnds
  <2>5. Short(d, b) <=> Short(st, b) BY <1>3, <2>1 DEF Short, DevRoom
  <2>6. FlushFails(st) <=> Short(st, b) BY <1>9 DEF FlushFails, b
  <2>7. Fits(d) BY <1>1, <1>3, <2>1 DEF Fits
  <2>8. Empty(t) BY <2>1, <2>3 DEF Empty, End
  <2>9. t.there = st.there /\ t.can = st.can /\ t.last = st.last /\ t.acc = st.acc /\ t.ch = EOF
    BY <1>3, <2>1, <2>3 DEF SameWay
  <2>10. t.pos \in Nat BY <2>3, StreamIs
  <2>11. st.pos <= t.pos /\ t.pos <= st.pos + BUFSIZ BY <1>2, <1>3, <2>1, <2>4, <2>10
  <2>12. t.lost <=> st.lost \/ FlushFails(st) BY <1>3, <2>1, <2>3, <2>5, <2>6
  <2>13. ~t.lost => t.file = Data /\ t.pos = st.pos + Len(Pending)
    BY <1>3, <1>7, <1>9, <2>1, <2>3
  <2>14. Len(t.file) <= Len(Data) BY <1>3, <1>7, <1>9, <2>1, <2>4
  <2>15. ~t.err /\ t.err = st.err BY <1>3, <1>9, <2>1, <2>3
  <2>16. t.acc # "none" BY <1>9, <2>9
  <2>17. QED BY <2>3, <2>7, <2>8, <2>9, <2>11, <2>12, <2>13, <2>14, <2>15, <2>16 DEF t
<1>10. CASE ~st.err /\ st.last = "write" /\ st.acc = "none"
  <2>1. t = c BY <1>5, <1>10
  <2>2. Empty(st)
    <3>1. st.buf = <<>> BY <1>1, <1>10
    <3>2. End(st) = 0 BY <3>1 DEF End
    <3>3. st.ptr \in Nat BY <1>1, StreamIs
    <3>4. QED BY <3>2, <3>3 DEF Empty
  <2>3. b = <<>> /\ Len(b) = 0 BY <1>2, <2>2
  <2>4. Data = st.file /\ Pending = <<>> /\ Len(Pending) = 0 BY <1>7, <1>10, <2>3 DEF Overwrite
  <2>5. ~FlushFails(st)
    <3>1. DevRoom(st) \in Nat BY <1>1, <1>2, RoomIs
    <3>2. ~Short(st, b) BY <2>3, <3>1 DEF Short
    <3>3. QED BY <3>2 DEF FlushFails, b
  <2>6. Fits(c) BY <1>1, <1>3 DEF Fits
  <2>7. Len(st.file) <= Len(Data) /\ st.pos = st.pos + Len(Pending) BY <1>2, <2>4
  <2>8. st.pos <= st.pos /\ st.pos <= st.pos + BUFSIZ BY <1>2
  <2>9. QED BY <1>1, <1>3, <1>4, <1>10, <2>1, <2>2, <2>4, <2>5, <2>6, <2>7, <2>8 DEF t
<1>11. CASE ~st.err /\ st.last # "write"
  <2> DEFINE d == Discard(c)
  <2>1. /\ d \in Stream /\ SameWay(c, d) /\ d.file = c.file /\ d.pos = c.pos
        /\ d.err = c.err /\ d.lost = c.lost /\ d.buf = <<>> /\ Empty(d)
    BY <1>4, DiscardIs
  <2>2. t = d BY <1>5, <1>11
  <2> HIDE DEF d
  <2>3. Fits(d) BY <1>1, <1>3, <2>1 DEF Fits
  <2>4. d.there = st.there /\ d.can = st.can /\ d.last = st.last /\ d.acc = st.acc /\ d.ch = EOF
    BY <1>3, <2>1 DEF SameWay
  <2>5. /\ Data = st.file /\ ~FlushFails(st) /\ Len(st.file) <= Len(Data)
        /\ st.pos = st.pos + Len(Pending) /\ st.pos <= st.pos /\ st.pos <= st.pos + BUFSIZ
    BY <1>2, <1>6, <1>11
  <2>6. QED BY <1>3, <1>11, <2>1, <2>2, <2>3, <2>4, <2>5 DEF t
<1>12. QED BY <1>2, <1>8, <1>9, <1>10, <1>11

\* Where the program is, and what it has written and the file does not have yet.
LEMMA PendingIs ==
    ASSUME IInv
    PROVE  /\ Pending \in Seq(Bytes) /\ Len(Pending) \in Nat /\ Len(Pending) <= BUFSIZ
           /\ Data \in Seq(Bytes) /\ Len(Data) \in Nat /\ Tell(st) \in Int
           /\ ~st.lost /\ dir # "read" => Position = st.pos + Len(Pending)
<1>1. st \in Stream BY DEF IInv
<1>2. /\ st.file \in Seq(Bytes) /\ st.pos \in Nat /\ Held(st) \in Seq(Bytes)
      /\ Len(Held(st)) = Unread(st) /\ Unread(st) \in Nat /\ Unread(st) = End(st) - st.ptr
      /\ st.ptr \in Nat /\ End(st) \in Nat /\ End(st) <= BUFSIZ
      /\ Unread(st) = 0 <=> Empty(st)
  BY <1>1, StreamIs, HeldIs
<1>3. BUFSIZ \in Nat /\ <<>> \in Seq(Bytes) /\ Len(<<>>) = 0 BY BytesHole
<1>4. Pending \in Seq(Bytes) /\ Len(Pending) \in Nat /\ Len(Pending) <= BUFSIZ
  BY <1>2, <1>3 DEF Pending
<1>5. Data \in Seq(Bytes) /\ Len(Data) \in Nat
  <2>1. st.file \in Seq(Bytes) /\ st.pos \in Nat BY <1>2
  <2>2. Overwrite(st.file, st.pos, Pending) \in Seq(Bytes) BY <1>4, <2>1, OverBytes
  <2>3. Data \in Seq(Bytes) BY <2>2 DEF Data
  <2>4. QED BY <2>3
<1>6. Tell(st) \in Int
  <2>1. Tell(st) \in {st.pos, st.pos + Unread(st), st.pos + (-Unread(st) - 0),
                      st.pos + (-Unread(st) - 1)}
    BY DEF Tell
  <2>2. QED BY SMTT(40), <1>2, <2>1
<1>7. ASSUME ~st.lost, dir # "read" PROVE Position = st.pos + Len(Pending)
  <2>1. CASE st.last # "read" BY <2>1 DEF Position
  <2>2. CASE st.last = "read"
    <3>1. Sound(st, dir) /\ dir = "any" BY <1>7, <2>2 DEF IInv, Sound
    <3>2. Unread(st) = 0 BY <1>2, <3>1 DEF Sound
    <3>3. Len(Pending) = 0 BY <1>3, <2>2 DEF Pending
    <3>4. QED BY <1>2, <2>2, <3>2, <3>3 DEF Position
  <2>3. QED BY <2>1, <2>2
<1>8. QED BY <1>4, <1>5, <1>6, <1>7

LEMMA EmptyIs ==
    ASSUME NEW s \in Stream, Empty(s)
    PROVE  Behind(s) /\ Held(s) = <<>> /\ Unread(s) = 0
<1>1. /\ s.file \in Seq(Bytes) /\ s.pos \in Nat /\ Held(s) = <<>> /\ Unread(s) = 0
  BY StreamIs, HeldIs
<1>2. After(s.file, s.pos) \in Seq(Bytes) BY <1>1, AfterIs
<1>3. At(s) = s.pos BY <1>1 DEF At
<1>4. Rest(s) = After(s.file, s.pos) BY <1>1, <1>2, NoBytes DEF Rest
<1>5. QED BY <1>1, <1>3, <1>4 DEF Behind

\* A call that leaves the buffer empty, in either direction.
LEMMA Emptied ==
    ASSUME IInv, open, UNCHANGED open, st' \in Stream, Fits(st'),
           st'.acc = "none" => st'.buf = <<>>,
           dir' \in {"any", "read", "write"}, ~st'.lost => dir' = "any",
           ~st'.lost => Empty(st') /\ st'.ch = EOF /\ (st'.err => st'.last = "read")
    PROVE  /\ IInv'
           /\ ~st'.lost => Data' = st'.file /\ Position' = st'.pos /\ ~Dirty'
<1>1. ASSUME ~st'.lost
      PROVE  /\ Sound(st', dir') /\ LinesAreOut'
             /\ Data' = st'.file /\ Position' = st'.pos /\ ~Dirty'
  <2>1. Behind(st') /\ Held(st') = <<>> /\ Unread(st') = 0 BY <1>1, EmptyIs
  <2>2. Sound(st', dir') BY <1>1, <2>1 DEF Sound
  <2>3. Pending' = <<>> BY <2>1 DEF Pending
  <2>4. LinesAreOut' BY <2>3 DEF LinesAreOut, Contains
  <2>5. Data' = st'.file /\ ~Dirty' BY <2>3 DEF Data, Overwrite, Dirty
  <2>6. Position' = st'.pos
    <3>1. st'.pos \in Nat /\ Len(<<>>) = 0 BY StreamIs
    <3>2. QED BY <2>1, <2>3, <3>1 DEF Position
  <2>7. QED BY <2>2, <2>4, <2>5, <2>6
<1>2. st'.lost => LinesAreOut' BY DEF LinesAreOut
<1>3. open' /\ open' \in BOOLEAN BY DEF IInv
<1>4. IInv' BY <1>1, <1>2, <1>3 DEF IInv
<1>5. QED BY <1>1, <1>4

\* A call that flushes and cannot write all of it.
LEMMA FailSeen ==
    ASSUME open, UNCHANGED open, ~st.lost, st'.lost,
           ret'.fn \in {"fflush", "fclose", "fseek"}, ret'.n = EOF
    PROVE  Abs!Next
<1>1. PICK x \in Files : TRUE BY StdioAssumption
<1>2. Kept /\ ~Kept' BY DEF Kept
<1>3. Abs!Fail(x) BY <1>2, AbsIs DEF Abs!Fail
<1>4. QED BY <1>3 DEF Abs!Next

LEMMA FflushKeeps == IInv /\ Fflush => IInv' /\ Abs!Next
<1>1. SUFFICES ASSUME IInv, Fflush PROVE IInv' /\ Abs!Next OBVIOUS
<1>2. /\ open /\ UNCHANGED open /\ st' = Flushed(st) /\ dir # "read" /\ dir' = "any"
      /\ ret' = [fn |-> "fflush", n |-> IF FlushFails(st) THEN EOF ELSE 0, s |-> <<>>]
  BY <1>1 DEF Fflush, Call, Keep
<1>3. /\ st' \in Stream /\ Fits(st')
      /\ st'.can = st.can /\ st'.acc = st.acc /\ st'.last = st.last /\ st'.err = st.err
      /\ st'.lost <=> st.lost \/ FlushFails(st)
      /\ st'.acc = "none" => st'.buf = <<>>
      /\ ~st'.lost => /\ Empty(st') /\ st'.ch = EOF /\ st'.file = Data
                      /\ st'.pos = st.pos + Len(Pending)
  BY <1>1, <1>2, FlushedIs
<1>4. ~st'.lost => (st'.err => st'.last = "read") /\ ~st.lost /\ ~FlushFails(st)
  BY <1>1, <1>3 DEF IInv, Sound
<1>5. /\ IInv'
      /\ ~st'.lost => Data' = st'.file /\ Position' = st'.pos /\ ~Dirty'
  BY <1>1, <1>2, <1>3, <1>4, Emptied
<1>6. CASE st.lost BY <1>2, <1>3, <1>5, <1>6, Lost
<1>7. CASE ~st.lost /\ st'.lost
  <2>1. FlushFails(st) BY <1>3, <1>7
  <2>2. ret'.fn = "fflush" /\ ret'.n = EOF BY <1>2, <2>1
  <2>3. QED BY <1>2, <1>5, <1>7, <2>2, FailSeen
<1>8. CASE ~st.lost /\ ~st'.lost
  <2>1. Data' = Data /\ Position' = Position /\ Dirty' = FALSE
    <3>1. Position = st.pos + Len(Pending) BY <1>1, <1>2, <1>8, PendingIs
    <3>2. Dirty' = FALSE BY <1>5, <1>8 DEF Dirty
    <3>3. QED BY <1>3, <1>5, <1>8, <3>1, <3>2
  <2>2. Kept /\ Kept' = Kept /\ Buffered' = Buffered BY <1>3, <1>8 DEF Kept, Buffered
  <2>3. st.ch = EOF BY <1>1, <1>2, <1>8 DEF IInv, Sound
  <2>4. Abs!Says("fflush", 0, <<>>) BY <1>2, <1>4, <1>8 DEF Abs!Says
  <2>5. st'.ch = IF st.err THEN st.ch ELSE Abs!EOF BY <1>3, <1>8, <2>3, AbsIs
  <2>6. Abs!Flush BY <1>2, <1>3, <2>1, <2>2, <2>4, <2>5 DEF Abs!Flush, Abs!Keeps
  <2>7. QED BY <1>5, <2>6 DEF Abs!Next
<1>9. QED BY <1>6, <1>7, <1>8

LEMMA SetPos ==
    ASSUME NEW s \in Stream, NEW p \in Nat
    PROVE  LET t == [s EXCEPT !.pos = p] IN
           /\ t \in Stream /\ t.pos = p /\ t.file = s.file /\ t.there = s.there
           /\ t.can = s.can /\ t.acc = s.acc /\ t.last = s.last /\ t.err = s.err
           /\ t.lost = s.lost /\ t.buf = s.buf /\ t.ch = s.ch /\ (Empty(t) <=> Empty(s))
<1> DEFINE t == [s EXCEPT !.pos = p]
<1>1. s \in FileState /\ s.ptr <= End(s) /\ End(s) <= BUFSIZ BY DEF Stream
<1>2. /\ t.pos = p /\ t.file = s.file /\ t.there = s.there /\ t.can = s.can /\ t.acc = s.acc
      /\ t.last = s.last /\ t.err = s.err /\ t.lost = s.lost /\ t.buf = s.buf /\ t.ch = s.ch
      /\ t.ptr = s.ptr /\ t \in FileState
  BY <1>1 DEF FileState
<1> HIDE DEF t
<1>3. End(t) = End(s) BY <1>2 DEF End
<1>4. t \in Stream /\ (Empty(t) <=> Empty(s)) BY <1>1, <1>2, <1>3 DEF Stream, Empty
<1>5. QED BY <1>2, <1>4 DEF t

\* Where a seek ends, and how far that is.
LEMMA SeekEnds ==
    ASSUME IInv, NEW how \in {"set", "cur", "end"}, NEW to \in Nat,
           to <= Least(Len(Data), DISK)
    PROVE  LET off == to - Place(how)
               t == Flushed(st)
               p == SeekTo(t, how, off)
           IN  /\ p \in Int /\ off \in Int /\ p <= DISK + BUFSIZ
               /\ ~t.lost => p >= 0 /\ off \in -(DISK + BUFSIZ)..(DISK + BUFSIZ)
               /\ ~t.lost => p = to + (IF how = "cur" THEN Len(Pending) ELSE 0)
<1> DEFINE off == to - Place(how)
           t == Flushed(st)
           p == SeekTo(t, how, off)
<1>1. /\ t \in Stream /\ Fits(t) /\ (t.lost <=> st.lost \/ FlushFails(st))
      /\ st.pos <= t.pos /\ t.pos <= st.pos + BUFSIZ /\ Len(t.file) <= Len(Data)
      /\ ~t.lost => t.file = Data /\ t.pos = st.pos + Len(Pending)
  BY FlushedIs
<1> HIDE DEF t
<1>2. /\ t.file \in Seq(Bytes) /\ Len(t.file) \in Nat /\ t.pos \in Nat
      /\ st.pos \in Nat /\ DISK \in Nat /\ BUFSIZ \in Nat \ {0}
      /\ Len(t.file) <= DISK /\ t.pos <= DISK + BUFSIZ
  <2>1. t.file \in Seq(Bytes) /\ t.pos \in Nat BY <1>1, StreamIs
  <2>2. st.pos \in Nat BY StreamIs DEF IInv
  <2>3. QED BY <1>1, <2>1, <2>2, BytesHole, StdioAssumption DEF Fits
<1>3. Len(Data) \in Nat /\ Len(Pending) \in Nat /\ Tell(st) \in Int BY PendingIs
<1>4. to <= DISK /\ to <= Len(Data) BY <1>2, <1>3 DEF Least
<1>5. CASE how = "set"
  <2>1. off = to - 0 /\ p = off BY <1>5 DEF Place, SeekTo
  <2> HIDE DEF off, p
  <2>2. off = to /\ p = to BY <2>1
  <2>3. p <= DISK + BUFSIZ /\ p >= 0 /\ to \in -(DISK + BUFSIZ)..(DISK + BUFSIZ)
    BY <1>2, <1>4, <2>2
  <2>4. p = to + 0 BY <2>2
  <2>5. QED BY <1>5, <2>2, <2>3, <2>4 DEF p, off, t
<1>6. CASE how = "end"
  <2>1. off = to - Len(Data) /\ p = Len(t.file) + off BY <1>6 DEF Place, SeekTo
  <2> HIDE DEF off, p
  <2>2. off \in Int /\ p \in Int /\ p <= to BY <1>1, <1>2, <1>3, <2>1
  <2>3. p <= DISK + BUFSIZ BY <1>2, <1>4, <2>2
  <2>4. ~t.lost => p = to /\ Len(Data) <= DISK
    <3>1. HAVE ~t.lost
    <3>2. Len(t.file) = Len(Data) BY <1>1, <3>1
    <3>3. QED BY <1>2, <1>3, <2>1, <3>2
  <2>5. ~t.lost => off \in -(DISK + BUFSIZ)..(DISK + BUFSIZ)
    BY <1>2, <1>3, <1>4, <2>1, <2>4
  <2>6. ~t.lost => p >= 0 /\ p = to + 0 BY <2>4
  <2>7. QED BY <1>6, <2>2, <2>3, <2>5, <2>6 DEF p, off, t
<1>7. CASE how = "cur"
  <2>1. off = to - Tell(st) /\ p = t.pos + off + (Tell(st) - st.pos) BY <1>7 DEF Place, SeekTo
  <2> HIDE DEF off, p
  <2>2. off \in Int /\ p \in Int /\ p = t.pos + to - st.pos
    <3>1. t.pos \in Nat /\ st.pos \in Nat /\ Tell(st) \in Int BY <1>2, <1>3
    <3>2. off \in Int BY <2>1, <3>1
    <3>3. p = t.pos + (to - Tell(st)) + (Tell(st) - st.pos) BY <2>1
    <3>4. p = t.pos + to - st.pos BY <3>1, <3>3
    <3>5. QED BY <3>1, <3>2, <3>4
  <2>3. p <= DISK + BUFSIZ BY <1>1, <1>2, <1>4, <2>2
  <2>4. ~t.lost => p = to + Len(Pending)
    <3>1. HAVE ~t.lost
    <3>2. t.pos = st.pos + Len(Pending) BY <1>1, <3>1
    <3>3. QED BY <1>2, <1>3, <2>2, <3>2
  <2>5. ~t.lost => off \in -(DISK + BUFSIZ)..(DISK + BUFSIZ)
    <3>1. HAVE ~t.lost
    <3>2. ~st.lost /\ t.pos = st.pos + Len(Pending) BY <1>1, <3>1
    <3> DEFINE k == IF Buffered THEN Len(Abs!PutBack) ELSE 0
    <3>3. /\ Tell(st) = Position - k /\ k \in {0, 1}
          /\ Position \in Nat /\ Position <= st.pos + Len(Pending)
      BY <3>2, TellIs
    <3> HIDE DEF k
    <3>4. Position <= DISK + BUFSIZ BY <1>2, <3>2, <3>3
    <3>5. off = to - Position + k BY <1>3, <2>1, <3>3
    <3>6. off >= -(DISK + BUFSIZ) BY <1>2, <3>3, <3>4, <3>5
    <3>7. off <= DISK + BUFSIZ BY <1>2, <1>4, <3>3, <3>5
    <3>8. QED BY <1>2, <2>2, <3>6, <3>7
  <2>6. ~t.lost => p >= 0 BY <1>3, <2>4
  <2>7. QED BY <1>7, <2>2, <2>3, <2>4, <2>5, <2>6 DEF p, off, t
<1>8. QED BY <1>5, <1>6, <1>7

LEMMA FseekKeeps ==
    ASSUME NEW how \in {"set", "cur", "end"}, NEW to \in Places
    PROVE  IInv /\ Fseek(how, to) => IInv' /\ Abs!Next
<1>1. SUFFICES ASSUME IInv, Fseek(how, to) PROVE IInv' /\ Abs!Next OBVIOUS
<1> DEFINE off == to - Place(how)
           t == Flushed(st)
           p == SeekTo(t, how, off)
<1>2. /\ to <= Least(Len(Data), DISK)
      /\ IF FlushFails(st) \/ p < 0
         THEN Call("fseek", t, EOF, <<>>) /\ Keep(dir)
         ELSE Call("fseek", [t EXCEPT !.pos = p], 0, <<>>) /\ Keep("any")
  BY <1>1 DEF Fseek
<1>3. to \in Nat BY StdioAssumption
<1>4. /\ p \in Int /\ off \in Int /\ p <= DISK + BUFSIZ
      /\ ~t.lost => p >= 0 /\ off \in -(DISK + BUFSIZ)..(DISK + BUFSIZ)
      /\ ~t.lost => p = to + (IF how = "cur" THEN Len(Pending) ELSE 0)
  BY <1>1, <1>2, <1>3, SeekEnds
<1>5. off = to - Place(how) OBVIOUS
<1>6. /\ t \in Stream /\ Fits(t)
      /\ t.can = st.can /\ t.acc = st.acc /\ t.last = st.last /\ t.err = st.err
      /\ t.lost <=> st.lost \/ FlushFails(st)
      /\ t.acc = "none" => t.buf = <<>>
      /\ ~t.lost => Empty(t) /\ t.ch = EOF /\ t.file = Data
  BY <1>1, FlushedIs
<1> HIDE DEF off, t, p
<1>7. ~t.lost => (t.err => t.last = "read") /\ ~st.lost /\ ~FlushFails(st)
  BY <1>1, <1>6 DEF IInv, Sound
<1>8. CASE FlushFails(st) \/ p < 0
  <2>1. /\ open /\ UNCHANGED <<open, dir>> /\ st' = t
        /\ ret' = [fn |-> "fseek", n |-> EOF, s |-> <<>>]
    BY <1>2, <1>8 DEF Call, Keep
  <2>2. t.lost
    <3>1. t.lost \in BOOLEAN BY <1>6, StreamIs
    <3>2. ~t.lost => ~(p < 0) BY <1>4
    <3>3. QED BY <1>6, <1>8, <3>1, <3>2
  <2>3. IInv'
    <3>1. dir' \in {"any", "read", "write"} BY <1>1, <2>1 DEF IInv
    <3>2. QED BY <1>1, <1>6, <2>1, <2>2, <3>1, Emptied
  <2>4. ret'.fn = "fseek" /\ ret'.n = EOF BY <2>1
  <2>5. CASE st.lost BY <2>1, <2>2, <2>3, <2>5, Lost
  <2>6. CASE ~st.lost BY <2>1, <2>2, <2>3, <2>4, <2>6, FailSeen
  <2>7. QED BY <2>5, <2>6
<1>9. CASE ~(FlushFails(st) \/ p < 0)
  <2>1. /\ open /\ UNCHANGED open /\ dir' = "any" /\ st' = [t EXCEPT !.pos = p]
        /\ ret' = [fn |-> "fseek", n |-> 0, s |-> <<>>]
    BY <1>2, <1>9 DEF Call, Keep
  <2>2. p \in Nat BY <1>4, <1>9
  <2>3. /\ st' \in Stream /\ st'.pos = p /\ st'.file = t.file
        /\ st'.can = t.can /\ st'.acc = t.acc /\ st'.last = t.last /\ st'.err = t.err
        /\ st'.lost = t.lost /\ st'.buf = t.buf /\ st'.ch = t.ch /\ (Empty(st') <=> Empty(t))
    BY <1>6, <2>1, <2>2, SetPos
  <2>4. Fits(st') BY <1>4, <1>6, <2>3 DEF Fits
  <2>5. /\ IInv'
        /\ ~st'.lost => Data' = st'.file /\ Position' = st'.pos /\ ~Dirty'
    BY <1>1, <1>6, <1>7, <2>1, <2>3, <2>4, Emptied
  <2>6. CASE st.lost BY <1>6, <2>1, <2>3, <2>5, <2>6, Lost
  <2>7. CASE ~st.lost
    <3>1. ~t.lost BY <1>6, <1>9, <2>7
    <3>2. Kept /\ Kept' = Kept /\ Buffered' = Buffered /\ Dirty' = FALSE /\ Data' = Data
      BY <1>6, <2>3, <2>5, <2>7, <3>1 DEF Kept, Buffered, Dirty
    <3>3. Position' = to + (IF how = "cur" THEN Len(Pending) ELSE 0) BY <1>4, <2>3, <2>5, <3>1
    <3>4. st'.ch = Abs!EOF /\ st'.err = st.err /\ st'.can = st.can BY <1>6, <2>3, <3>1, AbsIs
    <3>5. Abs!Says("fseek", 0, <<>>) BY <2>1 DEF Abs!Says
    <3>6. Len(Pending) \in Nat /\ Len(Pending) <= BUFSIZ /\ Len(Data) \in Nat BY <1>1, PendingIs
    <3>7. /\ how = "set" => Position' = off
          /\ how = "end" => Position' = Len(Data) + off
      <4>1. how = "set" => off = to /\ Position' = to BY <1>3, <1>5, <3>3 DEF Place
      <4>2. how = "end" => off = to - Len(Data) /\ Position' = to BY <1>3, <1>5, <3>3 DEF Place
      <4>3. QED BY <1>3, <3>6, <4>1, <4>2
    <3> DEFINE k == IF Buffered THEN Len(Abs!PutBack) ELSE 0
    <3>8. how = "cur" =>
             /\ Dirty => Position' \in Position + off .. Position + off + BUFSIZ
             /\ ~Dirty => Position' = Position + off - k
      <4>1. HAVE how = "cur"
      <4>2. /\ Tell(st) = Position - k /\ k \in {0, 1} /\ Position \in Nat
            /\ st.last # "read" => Abs!PutBack = <<>>
        BY <1>1, <2>7, TellIs
      <4>3. Dirty => k = 0
        <5>1. Dirty => st.last = "write" BY DEF Dirty, Pending
        <5>2. Len(<<>>) = 0 OBVIOUS
        <5>3. QED BY <4>2, <5>1, <5>2
      <4>4. ~Dirty => Len(Pending) = 0 BY DEF Dirty
      <4> HIDE DEF k
      <4>5. off = to - (Position - k) /\ Position' = to + Len(Pending)
        BY <1>5, <3>3, <4>1, <4>2 DEF Place
      <4>6. ASSUME Dirty PROVE Position' \in Position + off .. Position + off + BUFSIZ
        <5>1. Position + off = to BY <1>3, <4>2, <4>3, <4>5, <4>6
        <5>2. QED BY <1>3, <1>4, <3>6, <4>5, <4>6, <5>1, BytesHole
      <4>7. ASSUME ~Dirty PROVE Position' = Position + off - k
        BY <1>3, <4>2, <4>4, <4>5, <4>7
      <4>8. QED BY <4>6, <4>7
    <3>9. Abs!Seek(how, off)
      <4>1. Abs!Keeps BY <2>1, <3>2, <3>4 DEF Abs!Keeps
      <4>2. CASE how = "set" BY <2>1, <3>2, <3>4, <3>5, <3>7, <4>1, <4>2 DEF Abs!Seek
      <4>3. CASE how = "end" BY <2>1, <3>2, <3>4, <3>5, <3>7, <4>1, <4>3 DEF Abs!Seek
      <4>4. CASE how = "cur" BY <2>1, <3>2, <3>4, <3>5, <3>8, <4>1, <4>4 DEF Abs!Seek
      <4>5. QED BY <4>2, <4>3, <4>4
    <3>10. off \in -(DISK + BUFSIZ)..(DISK + BUFSIZ) BY <1>4, <3>1
    <3>11. Abs!Next BY <3>9, <3>10 DEF Abs!Next
    <3>12. QED BY <2>5, <3>11
  <2>8. QED BY <2>6, <2>7
<1>10. QED BY <1>8, <1>9
-----------------------------------------------------------------------------
(* Calls that open and close. *)

LEMMA FreshIs ==
    ASSUME NEW s \in Stream, NEW mode
    PROVE  LET t == Fresh(s, mode) IN
           /\ t \in Stream /\ t.file = s.file /\ t.pos = s.pos /\ t.there = s.there
           /\ t.acc = s.acc /\ t.can = WaysOf(mode) /\ ~t.err /\ t.last = "closed"
           /\ t.ch = EOF /\ ~t.lost /\ t.buf = <<>> /\ t.err = FALSE /\ t.ptr = 0
<1> DEFINE d == Discard(s)
           t == Fresh(s, mode)
<1>1. /\ d \in Stream /\ SameWay(s, d) /\ d.file = s.file /\ d.pos = s.pos
      /\ d.buf = <<>> /\ d.ptr = 0
  BY DiscardIs
<1>2. t = [d EXCEPT !.can = WaysOf(mode), !.err = FALSE, !.last = "closed",
                    !.ch = EOF, !.lost = FALSE]
  BY DEF Fresh
<1> HIDE DEF d, t
<1>3. WaysOf(mode) \in SUBSET {"read", "write"} BY DEF WaysOf
<1>4. d \in FileState /\ d.ptr <= End(d) /\ End(d) <= BUFSIZ BY <1>1 DEF Stream
<1>5. /\ t.file = d.file /\ t.pos = d.pos /\ t.there = d.there /\ t.acc = d.acc
      /\ t.can = WaysOf(mode) /\ t.err = FALSE /\ t.last = "closed" /\ t.ch = EOF
      /\ t.lost = FALSE /\ t.buf = d.buf /\ t.ptr = d.ptr
  BY <1>2, <1>4 DEF FileState
<1>6. t \in FileState BY <1>2, <1>3, <1>4 DEF FileState
<1>7. End(t) = End(d) BY <1>5 DEF End
<1>8. t \in Stream BY <1>4, <1>5, <1>6, <1>7 DEF Stream
<1>9. QED BY <1>1, <1>5, <1>8 DEF t, SameWay

LEMMA OpenfdIs ==
    ASSUME NEW s \in Stream, NEW mode
    PROVE  LET t == Openfd(s, mode) IN
           /\ t \in Stream /\ t.acc = s.acc /\ (Fits(s) => Fits(t))
           /\ t.file \in {s.file, <<>>} /\ t.pos \in {0, Len(t.file)}
<1> DEFINE f == IF mode \in {"w", "w+"} THEN <<>> ELSE s.file
           p == IF mode \in {"a", "a+"} THEN Len(f) ELSE 0
           t == Openfd(s, mode)
<1>1. s \in FileState /\ s.ptr <= End(s) /\ End(s) <= BUFSIZ BY DEF Stream
<1>2. s.file \in Seq(Bytes) /\ <<>> \in Seq(Bytes) /\ Len(<<>>) = 0 BY StreamIs
<1>3. f \in Seq(Bytes) /\ f \in {s.file, <<>>} BY <1>2
<1>4. p \in Nat /\ p \in {0, Len(f)} BY <1>3
<1>5. t = [s EXCEPT !.there = TRUE, !.file = f, !.pos = p] BY DEF Openfd
<1> HIDE DEF f, p, t
<1>6. /\ t.file = f /\ t.pos = p /\ t.acc = s.acc /\ t.buf = s.buf /\ t.ptr = s.ptr
      /\ t \in FileState
  BY <1>1, <1>3, <1>4, <1>5 DEF FileState
<1>7. End(t) = End(s) BY <1>6 DEF End
<1>8. t \in Stream BY <1>1, <1>6, <1>7 DEF Stream
<1>9. Fits(s) => Fits(t)
  <2>0. HAVE Fits(s)
  <2>1. Len(s.file) <= DISK BY <2>0 DEF Fits
  <2>2. DISK \in Nat /\ BUFSIZ \in Nat BY BytesHole
  <2>3. Len(f) <= DISK /\ Len(f) \in Nat BY <1>2, <1>3, <2>1, <2>2
  <2>4. p <= DISK + BUFSIZ BY <1>4, <2>2, <2>3
  <2>5. QED BY <1>6, <2>3, <2>4 DEF Fits
<1>10. QED BY <1>3, <1>4, <1>6, <1>8, <1>9 DEF t

\* A stream with nothing in it, open or not.
LEMMA Blank ==
    ASSUME st' \in Stream, Fits(st'), st'.buf = <<>>, st'.last = "closed", st'.ch = EOF,
           ~st'.err, ~st'.lost, open' \in BOOLEAN, ~open' => st'.acc # "none", dir' = "any"
    PROVE  IInv' /\ Data' = st'.file /\ Position' = st'.pos /\ Dirty' = FALSE /\ Kept'
<1>1. Empty(st')
  <2>1. End(st') = 0 BY DEF End
  <2>2. st'.ptr \in Nat BY StreamIs
  <2>3. QED BY <2>1, <2>2 DEF Empty
<1>2. Sound(st', dir') BY <1>1 DEF Sound
<1>3. Pending' = <<>> /\ Len(Pending') = 0 BY DEF Pending
<1>4. LinesAreOut' BY <1>3 DEF LinesAreOut, Contains
<1>5. IInv' BY <1>2, <1>4 DEF IInv, Shut
<1>6. Data' = st'.file /\ Dirty' = FALSE /\ Kept' BY <1>3 DEF Data, Overwrite, Dirty, Kept
<1>7. Position' = st'.pos
  <2>1. st'.pos \in Nat BY StreamIs
  <2>2. QED BY <1>3, <2>1 DEF Position
<1>8. QED BY <1>5, <1>6, <1>7

LEMMA WaysAre == \A mode : WaysOf(mode) \in Abs!Ways
<1>1. TAKE mode
<1>2. WaysOf(mode) \in {{"read", "write"}, {"read"}, {"write"}} BY DEF WaysOf
<1>3. QED BY <1>2 DEF Abs!Ways

LEMMA FopenKeeps ==
    ASSUME NEW mode \in Modes, NEW acc \in Access
    PROVE  IInv /\ Fopen(mode, acc) => IInv' /\ Abs!Next
<1>1. SUFFICES ASSUME IInv, Fopen(mode, acc) PROVE IInv' /\ Abs!Next OBVIOUS
<1>2. /\ ~open /\ open \in BOOLEAN /\ st \in Stream /\ Fits(st) /\ st.last = "closed"
      /\ IF mode \in {"r", "r+"} /\ ~st.there
         THEN /\ ret' = [fn |-> "fopen", n |-> 0, s |-> <<>>]
              /\ UNCHANGED <<st, open, dir>>
         ELSE Opened("fopen", [Fresh(Openfd(st, mode), mode) EXCEPT !.acc = acc])
  BY <1>1 DEF Fopen, IInv, Shut
<1>3. Abs!Fopen(WaysOf(mode)) => Abs!Next BY WaysAre DEF Abs!Next
<1>4. CASE ret' = [fn |-> "fopen", n |-> 0, s |-> <<>>] /\ UNCHANGED <<st, open, dir>>
  <2>1. IInv' /\ UNCHANGED Abs!stream BY <1>1, <1>4, NothingDone
  <2>2. Abs!Fopen(WaysOf(mode)) BY <1>2, <1>4, <2>1 DEF Abs!Fopen, Abs!Says
  <2>3. QED BY <1>3, <2>1, <2>2
<1>5. CASE Opened("fopen", [Fresh(Openfd(st, mode), mode) EXCEPT !.acc = acc])
  <2> DEFINE o == Openfd(st, mode)
             f == Fresh(o, mode)
  <2>1. /\ o \in Stream /\ Fits(o) /\ o.file \in {st.file, <<>>} /\ o.pos \in {0, Len(o.file)}
    BY <1>2, OpenfdIs
  <2>2. /\ st' = [f EXCEPT !.acc = acc] /\ ret' = [fn |-> "fopen", n |-> 1, s |-> <<>>]
        /\ open' = TRUE /\ dir' = "any"
    BY <1>5 DEF Opened
  <2> HIDE DEF o
  <2>3. /\ f \in Stream /\ f.file = o.file /\ f.pos = o.pos /\ f.can = WaysOf(mode)
        /\ ~f.err /\ f.last = "closed" /\ f.ch = EOF /\ ~f.lost /\ f.buf = <<>>
    BY <2>1, FreshIs
  <2> HIDE DEF f
  <2>4. f \in FileState /\ f.ptr <= End(f) /\ End(f) <= BUFSIZ BY <2>3 DEF Stream
  <2>5. /\ st'.file = f.file /\ st'.pos = f.pos /\ st'.can = f.can /\ st'.err = f.err
        /\ st'.last = f.last /\ st'.ch = f.ch /\ st'.lost = f.lost /\ st'.buf = f.buf
        /\ st'.ptr = f.ptr /\ st'.acc = acc /\ st' \in FileState
    BY <2>2, <2>4 DEF FileState
  <2>6. End(st') = End(f) BY <2>5 DEF End
  <2>7. st' \in Stream BY <2>4, <2>5, <2>6 DEF Stream
  <2>8. Fits(st') BY <2>1, <2>3, <2>5 DEF Fits
  <2>9. IInv' /\ Data' = st'.file /\ Position' = st'.pos /\ Dirty' = FALSE /\ Kept'
    BY <2>2, <2>3, <2>5, <2>7, <2>8, Blank
  <2>10. Data = st.file BY <1>2 DEF Data, Pending, Overwrite
  <2>11. st'.err = FALSE
    <3>1. st'.err \in BOOLEAN BY <2>7, StreamIs
    <3>2. QED BY <2>3, <2>5, <3>1
  <2>12. Abs!Open("fopen", WaysOf(mode))
    BY <2>2, <2>3, <2>5, <2>9, <2>11, AbsIs DEF Abs!Open, Abs!Says
  <2>13. Data' \in {Data, <<>>} /\ Position' \in {0, Len(Data')}
    BY <2>1, <2>3, <2>5, <2>9, <2>10
  <2>14. Abs!Fopen(WaysOf(mode)) BY <1>2, <2>12, <2>13 DEF Abs!Fopen
  <2>15. QED BY <1>3, <2>9, <2>14
<1>6. QED BY <1>2, <1>4, <1>5

LEMMA FreopenKeeps ==
    ASSUME NEW path \in BOOLEAN, NEW mode \in Modes
    PROVE  IInv /\ Freopen(path, mode) => IInv' /\ Abs!Next
<1>1. SUFFICES ASSUME IInv, Freopen(path, mode) PROVE IInv' /\ Abs!Next OBVIOUS
<1> DEFINE o == IF path THEN Openfd(st, mode) ELSE st
<1>2. /\ open /\ st' = Fresh(o, mode) /\ ret' = [fn |-> "freopen", n |-> 1, s |-> <<>>]
      /\ open' = TRUE /\ dir' = "any"
  BY <1>1 DEF Freopen, Opened
<1>3. st \in Stream /\ Fits(st) BY <1>1 DEF IInv
<1>4. /\ o \in Stream /\ Fits(o) /\ o.acc = st.acc /\ o.file \in {st.file, <<>>}
      /\ path => o.pos \in {0, Len(o.file)}
      /\ ~path => o = st
  BY <1>3, OpenfdIs
<1> HIDE DEF o
<1>5. /\ st' \in Stream /\ st'.file = o.file /\ st'.pos = o.pos /\ st'.acc = o.acc
      /\ st'.can = WaysOf(mode) /\ ~st'.err /\ st'.last = "closed"
      /\ st'.ch = EOF /\ ~st'.lost /\ st'.buf = <<>> /\ st'.err = FALSE
  BY <1>2, <1>4, FreshIs
<1>6. Fits(st') BY <1>4, <1>5 DEF Fits
<1>7. IInv' /\ Data' = st'.file /\ Position' = st'.pos /\ Dirty' = FALSE /\ Kept'
  BY <1>2, <1>5, <1>6, Blank
<1>8. Abs!Open("freopen", WaysOf(mode))
  BY <1>2, <1>5, <1>7, AbsIs DEF Abs!Open, Abs!Says
<1>9. Buffered' = Buffered BY <1>4, <1>5 DEF Buffered
<1>10. ~Dirty => Pending = <<>> /\ Data = st.file BY DEF Dirty, Data, Overwrite
<1>11. Dirty \/ ~Kept \/ Data' \in {Data, <<>>} BY <1>4, <1>5, <1>7, <1>10
<1>12. Dirty \/ ~Kept \/ Position' \in {0, Len(Data')} \/ (Position' >= Position /\ Data' = Data)
  <2>1. CASE path BY <1>4, <1>5, <1>7, <2>1
  <2>2. CASE ~path
    <3>1. SUFFICES ASSUME ~Dirty PROVE Position' >= Position /\ Data' = Data OBVIOUS
    <3>2. Position' = st.pos /\ Data' = Data BY <1>4, <1>5, <1>7, <1>10, <2>2, <3>1
    <3>3. st.pos \in Nat /\ Unread(st) \in Nat /\ Len(<<>>) = 0 BY <1>3, StreamIs
    <3>4. st.pos >= Position
      <4>1. CASE st.last = "read" BY <3>3, <4>1 DEF Position
      <4>2. CASE st.last # "read" BY <1>10, <3>1, <3>3, <4>2 DEF Position
      <4>3. QED BY <4>1, <4>2
    <3>5. QED BY <3>2, <3>4
  <2>3. QED BY <2>1, <2>2
<1>13. Abs!Freopen(WaysOf(mode)) BY <1>2, <1>8, <1>9, <1>11, <1>12 DEF Abs!Freopen
<1>14. QED BY <1>7, <1>13, WaysAre DEF Abs!Next

\* A stream that is closed.
LEMMA ClosedIs ==
    ASSUME NEW s \in Stream, Fits(s), st' = Closed(s), open' = FALSE, dir' = "any"
    PROVE  /\ IInv' /\ Data' = s.file /\ Dirty' = FALSE /\ Kept' /\ st'.can = {}
<1> DEFINE f == Fresh(s, "r")
<1>1. /\ f \in Stream /\ f.file = s.file /\ ~f.err /\ f.last = "closed"
      /\ f.ch = EOF /\ ~f.lost /\ f.buf = <<>>
  BY FreshIs
<1>2. st' = [f EXCEPT !.can = {}, !.pos = 0, !.acc = "full"] BY DEF Closed
<1> HIDE DEF f
<1>3. f \in FileState /\ f.ptr <= End(f) /\ End(f) <= BUFSIZ BY <1>1 DEF Stream
<1>4. {} \in SUBSET {"read", "write"} /\ 0 \in Nat /\ "full" \in Access BY DEF Access
<1>5. /\ st'.file = f.file /\ st'.pos = 0 /\ st'.can = {} /\ st'.err = f.err
      /\ st'.last = f.last /\ st'.ch = f.ch /\ st'.lost = f.lost /\ st'.buf = f.buf
      /\ st'.ptr = f.ptr /\ st'.acc = "full"
  BY <1>2, <1>3 DEF FileState
<1>6. st' \in FileState
  <2> DEFINE g == [f EXCEPT !.can = {}]
             h == [g EXCEPT !.pos = 0]
  <2>1. g \in FileState BY <1>3, <1>4 DEF FileState
  <2>2. h \in FileState BY <1>4, <2>1 DEF FileState
  <2>3. st' = [h EXCEPT !.acc = "full"] BY <1>2
  <2> HIDE DEF g, h
  <2>4. QED BY SMTT(40), <1>4, <2>2, <2>3 DEF FileState
<1>7. End(st') = End(f) BY <1>5 DEF End
<1>8. st' \in Stream BY <1>3, <1>5, <1>6, <1>7 DEF Stream
<1>9. Fits(st')
  <2>1. DISK \in Nat /\ BUFSIZ \in Nat BY BytesHole
  <2>2. QED BY <1>1, <1>5, <2>1 DEF Fits
<1>10. st'.acc # "none" BY <1>5
<1>11. QED BY <1>1, <1>5, <1>8, <1>9, <1>10, Blank

LEMMA FcloseKeeps == IInv /\ Fclose => IInv' /\ Abs!Next
<1>1. SUFFICES ASSUME IInv, Fclose PROVE IInv' /\ Abs!Next OBVIOUS
<1> DEFINE t == IF st.last = "write" THEN Flushed(st) ELSE st
<1>2. IF FlushFails(st)
      THEN Call("fclose", t, EOF, <<>>) /\ Keep(dir)
      ELSE /\ open
           /\ st' = Closed(t) /\ ret' = [fn |-> "fclose", n |-> 0, s |-> <<>>]
           /\ open' = FALSE /\ dir' = "any"
  BY <1>1 DEF Fclose
<1>3. /\ t \in Stream /\ Fits(t) /\ (t.lost <=> st.lost \/ FlushFails(st))
      /\ t.acc = "none" => t.buf = <<>>
      /\ ~t.lost => t.file = Data
  <2>1. CASE st.last = "write" BY <1>1, <2>1, FlushedIs
  <2>2. CASE st.last # "write"
    <3>1. t = st /\ ~FlushFails(st) BY <2>2 DEF FlushFails
    <3>2. Data = st.file BY <2>2 DEF Data, Pending, Overwrite
    <3>3. QED BY <1>1, <3>1, <3>2 DEF IInv
  <2>3. QED BY <2>1, <2>2
<1> HIDE DEF t
<1>4. CASE FlushFails(st)
  <2>1. /\ open /\ UNCHANGED <<open, dir>> /\ st' = t
        /\ ret' = [fn |-> "fclose", n |-> EOF, s |-> <<>>]
    BY <1>2, <1>4 DEF Call, Keep
  <2>2. t.lost BY <1>3, <1>4
  <2>3. IInv'
    <3>1. dir' \in {"any", "read", "write"} BY <1>1, <2>1 DEF IInv
    <3>2. QED BY <1>1, <1>3, <2>1, <2>2, <3>1, Emptied
  <2>4. ret'.fn = "fclose" /\ ret'.n = EOF BY <2>1
  <2>5. CASE st.lost BY <2>1, <2>2, <2>3, <2>5, Lost
  <2>6. CASE ~st.lost BY <2>1, <2>2, <2>3, <2>4, <2>6, FailSeen
  <2>7. QED BY <2>5, <2>6
<1>5. CASE ~FlushFails(st)
  <2>1. /\ open /\ st' = Closed(t) /\ ret' = [fn |-> "fclose", n |-> 0, s |-> <<>>]
        /\ open' = FALSE /\ dir' = "any"
    BY <1>2, <1>5
  <2>2. IInv' /\ Data' = t.file /\ Dirty' = FALSE /\ Kept' BY <1>3, <2>1, ClosedIs
  <2>3. CASE st.lost
    <3>1. Abs!Unpromised BY <2>1, <2>3 DEF Abs!Unpromised, Kept
    <3>2. QED BY <2>2, <3>1 DEF Abs!Next
  <2>4. CASE ~st.lost
    <3>1. Data' = Data /\ Kept BY <1>3, <1>5, <2>2, <2>4 DEF Kept
    <3>2. Abs!Close BY <2>1, <2>2, <3>1 DEF Abs!Close, Abs!Says
    <3>3. QED BY <2>2, <3>2 DEF Abs!Next
  <2>5. QED BY <2>3, <2>4
<1>6. QED BY <1>4, <1>5

LEMMA KilledKeeps == IInv /\ Killed => IInv' /\ Abs!Next
<1>1. SUFFICES ASSUME IInv, Killed PROVE IInv' /\ Abs!Next OBVIOUS
<1>2. /\ open /\ st' = Closed(st) /\ ret' = [fn |-> "killed", n |-> 0, s |-> <<>>]
      /\ open' = FALSE /\ dir' = "any" /\ st \in Stream /\ Fits(st)
  BY <1>1 DEF Killed, IInv
<1>3. IInv' /\ Data' = st.file /\ Dirty' = FALSE /\ Kept' BY <1>2, ClosedIs
<1>4. ~Dirty => Data = st.file BY DEF Dirty, Data, Overwrite
<1>5. Abs!Killed BY <1>2, <1>3, <1>4 DEF Abs!Killed, Abs!Says
<1>6. QED BY <1>3, <1>5 DEF Abs!Next
-----------------------------------------------------------------------------
(* Every call. *)

LEMMA InitHolds == Init => IInv /\ Abs!Init
<1>1. SUFFICES ASSUME Init PROVE IInv /\ Abs!Init OBVIOUS
<1>2. PICK f \in Files, there \in BOOLEAN :
         st = [file |-> f, there |-> there, pos |-> 0, lost |-> FALSE,
               can |-> {}, err |-> FALSE, last |-> "closed", acc |-> "full",
               ptr |-> 0, buf |-> <<>>, ch |-> EOF]
  BY <1>1 DEF Init
<1>3. open = FALSE /\ dir = "any" /\ ret = [fn |-> "none", n |-> 0, s |-> <<>>]
  BY <1>1 DEF Init
<1>4. /\ f \in Seq(Bytes) /\ Len(f) <= DISK /\ DISK \in Nat /\ BUFSIZ \in Nat
      /\ <<>> \in Seq(Bytes) /\ Len(<<>>) = 0
  <2>1. f \in Seq(Chars) /\ Len(f) <= DISK BY StdioAssumption
  <2>2. QED BY <2>1, BytesHole
<1>5. /\ st.file = f /\ st.pos = 0 /\ st.lost = FALSE /\ st.can = {} /\ st.err = FALSE
      /\ st.last = "closed" /\ st.acc = "full" /\ st.ptr = 0 /\ st.buf = <<>> /\ st.ch = EOF
  BY <1>2
<1>6. st \in FileState
  <2>1. /\ there \in BOOLEAN /\ FALSE \in BOOLEAN /\ {} \in SUBSET {"read", "write"}
        /\ "full" \in Access
    BY DEF Access
  <2>2. QED BY <1>2, <1>4, <2>1 DEF FileState
<1>7. End(st) = 0 BY <1>4, <1>5 DEF End
<1>8. st \in Stream BY <1>4, <1>5, <1>6, <1>7 DEF Stream
<1>9. Fits(st) BY <1>4, <1>5 DEF Fits
<1>10. Pending = <<>> BY <1>5 DEF Pending
<1>11. Data = f /\ Position = 0 /\ Dirty = FALSE /\ Kept = TRUE /\ Buffered = TRUE
  BY <1>4, <1>5, <1>10 DEF Data, Overwrite, Position, Dirty, Kept, Buffered
<1>12. Sound(st, dir) BY <1>3, <1>5, <1>7 DEF Sound, Empty
<1>13. LinesAreOut BY <1>10, NoLine
<1>14. IInv BY <1>3, <1>5, <1>8, <1>9, <1>12, <1>13 DEF IInv, Shut
<1>15. Abs!Init BY <1>3, <1>5, <1>11, AbsIs DEF Abs!Init
<1>16. QED BY <1>14, <1>15

LEMMA StepHolds == IInv /\ [Next]_vars => IInv' /\ [Abs!Next]_(Abs!vars)
<1>1. SUFFICES ASSUME IInv, [Next]_vars PROVE IInv' /\ [Abs!Next]_(Abs!vars) OBVIOUS
<1>2. CASE Fgetc BY <1>1, <1>2, FgetcKeeps
<1>3. CASE Fflush BY <1>1, <1>3, FflushKeeps
<1>4. CASE Ftell BY <1>1, <1>4, FtellKeeps
<1>5. CASE Clearerr BY <1>1, <1>5, ClearerrKeeps
<1>6. CASE Fclose BY <1>1, <1>6, FcloseKeeps
<1>7. CASE Killed BY <1>1, <1>7, KilledKeeps
<1>8. CASE \E n \in Counts : Fread(n) BY <1>1, <1>8, FreadKeeps
<1>9. CASE \E n \in Lens : Fgets(n) BY <1>1, <1>9, FgetsKeeps
<1>10. CASE \E c \in Typed : Ungetc(c) \/ Fputc(c) BY <1>1, <1>10, UngetcKeeps, FputcKeeps
<1>11. CASE \E p \in Strings : Fwrite(p) BY <1>1, <1>11, FwriteKeeps
<1>12. CASE \E how \in {"set", "cur", "end"}, to \in Places : Fseek(how, to)
  BY <1>1, <1>12, FseekKeeps
<1>13. CASE \E mode \in Modes, acc \in Access : Fopen(mode, acc) BY <1>1, <1>13, FopenKeeps
<1>14. CASE \E path \in BOOLEAN, mode \in Modes : Freopen(path, mode)
  BY <1>1, <1>14, FreopenKeeps
<1>15. CASE UNCHANGED vars
  <2>1. st' = st /\ UNCHANGED <<open, dir, ret>> BY <1>15 DEF vars
  <2>2. IInv' /\ UNCHANGED Abs!stream BY <1>1, <2>1, NothingDone
  <2>3. UNCHANGED Abs!vars BY <2>1, <2>2 DEF Abs!vars
  <2>4. QED BY <2>2, <2>3
<1>16. QED
  BY <1>1, <1>2, <1>3, <1>4, <1>5, <1>6, <1>7, <1>8, <1>9, <1>10, <1>11, <1>12, <1>13,
     <1>14, <1>15
  DEF Next

LEMMA TypesOK == IInv => TypeOK
<1>1. SUFFICES ASSUME IInv PROVE TypeOK OBVIOUS
<1>2. st \in Stream /\ open \in BOOLEAN /\ dir \in {"any", "read", "write"} BY <1>1 DEF IInv
<1>3. /\ st.file \in Seq(Bytes) /\ st.buf \in Seq(Bytes)
      /\ st.pos \in Nat /\ st.ptr \in Nat /\ st.ptr <= End(st) /\ End(st) <= BUFSIZ
      /\ End(st) \in Nat /\ st.lost \in BOOLEAN /\ st.err \in BOOLEAN /\ st.there \in BOOLEAN
      /\ st.last \in {"closed", "read", "write"} /\ st.acc \in Access
      /\ st.can \in SUBSET {"read", "write"} /\ st.ch \in Chars \cup {EOF}
  BY <1>2, StreamIs
<1>4. st.ptr \in 0..End(st) /\ st.can \subseteq {"read", "write"} BY <1>3
<1>5. QED BY <1>2, <1>3, <1>4 DEF TypeOK, Bytes

\* In every reachable state of a stream the bytes used are in the buffer and the
\* buffer is no larger than BUFSIZ, however large files, strings and lines are.
THEOREM TypeCorrect == Spec => []TypeOK
<1>1. Init => IInv BY InitHolds
<1>2. IInv /\ [Next]_vars => IInv' BY StepHolds
<1>3. IInv => TypeOK BY TypesOK
<1>4. QED BY <1>1, <1>2, <1>3, PTL DEF Spec

\* _fsync() and what calls it: no complete line ever waits in the buffer of a
\* line-buffered stream, whatever the size of the buffer and what is written.
THEOREM LinesOut == Spec => []LinesAreOut
<1>1. Init => IInv BY InitHolds
<1>2. IInv /\ [Next]_vars => IInv' BY StepHolds
<1>3. IInv => LinesAreOut BY DEF IInv
<1>4. QED BY <1>1, <1>2, <1>3, PTL DEF Spec

\* Every call of the library is a step of the stream the program believes in: the
\* buffer, the descriptor and the bytes that wait never show, but where the
\* abstract stream says so.
THEOREM StreamIsKept == Spec => KeepsPromise
<1>1. Init => IInv /\ Abs!Init BY InitHolds
<1>2. IInv /\ [Next]_vars => IInv' /\ [Abs!Next]_(Abs!vars) BY StepHolds
<1>3. Spec => Abs!Spec BY <1>1, <1>2, PTL DEF Spec, Abs!Spec
<1>4. QED BY <1>3 DEF KeepsPromise
=============================================================================
