---------------------------- MODULE Archive_proofs ----------------------------
(***************************************************************************)
(* A library is read back as it was written, for all files, every number   *)
(* of members and slots and every size a header can hold.  The invariant   *)
(* says where the headers and the files behind them are (Written), that    *)
(* the reader, which has nothing but the sizes in the headers to go by,    *)
(* stands on the one that follows the members it has read (Reading), and   *)
(* what is in the slots the linker has filled so far (Loading).            *)
(***************************************************************************)
EXTENDS Archive, TLAPS

\* The place of member k, or of what comes behind the last one.
Start(k) == IF k <= Len(starts) THEN starts[k] ELSE Len(arc)

Inside(a, at, x) == \A j \in 1 .. Len(x) : a[at + j] = x[j]

Written ==
    pc # "ar" =>
        /\ Start(1) = 0
        /\ \A k \in 1 .. Len(starts) :
              /\ starts[k] < Len(arc)
              /\ arc[starts[k] + 1].sig \in {"member", "text"}
              /\ arc[starts[k] + 1].name = Put[k]
              /\ arc[starts[k] + 1].size = Len(Files[Put[k]]) % WRAP
              /\ Start(k + 1) = starts[k] + 1 + Len(Files[Put[k]])
              /\ Start(k + 1) <= Len(arc)
              /\ Inside(arc, starts[k] + 1, Files[Put[k]])
              /\ Files[Put[k]] # <<>> =>
                    (arc[starts[k] + 1].sig = "member" <=> IsObject(Files[Put[k]]))

Reading ==
    /\ pc \in {"ar", "append"} => pos = 0 /\ read = <<>>
    /\ pc \notin {"ar", "append"} => Len(starts) = Len(Put)
    /\ pc \in {"list", "lib"} =>
          /\ \A k \in 1 .. Len(read) : AllFit(k - 1) => k <= Len(Put) /\ read[k] = Put[k]
          /\ AllFit(Len(read)) => Len(read) <= Len(Put) /\ pos = Start(Len(read) + 1)

IInv == TypeOK /\ Written /\ Reading
-----------------------------------------------------------------------------
LEMMA FileTyped ==
    ASSUME NEW f \in DOMAIN Files
    PROVE  /\ Files[f] \in Seq(Cell) /\ Len(Files[f]) \in Nat
           /\ IsObject(Files[f]) => Files[f][1].size = Len(Files[f])
<1>1. Files[f] \in Seq(Cell) BY ArchiveAssumption
<1>2. IsObject(Files[f]) => Files[f][1].size = Len(Files[f]) BY ArchiveAssumption
<1>3. QED BY <1>1, <1>2

LEMMA JobTyped ==
    ASSUME TypeOK
    PROVE  /\ job.puts \in Seq(Seq(DOMAIN Files)) /\ Put \in Seq(DOMAIN Files)
           /\ Len(Put) \in Nat /\ call \in Nat /\ Len(job.puts) \in Nat
           /\ job.libs \in Nat
           /\ \A k \in 1 .. Len(Put) : Put[k] \in DOMAIN Files /\ Files[Put[k]] \in Seq(Cell)
                                       /\ Len(Files[Put[k]]) \in Nat
           /\ FILES_MAX \in Nat /\ WRAP \in Nat \ {0}
<1>1. job \in Jobs /\ call \in DOMAIN job.puts BY DEF TypeOK
<1>2. job.puts \in Seq(Seq(DOMAIN Files)) /\ job.libs \in Nat BY <1>1, ArchiveAssumption
<1>3. Put \in Seq(DOMAIN Files) /\ call \in Nat /\ Len(job.puts) \in Nat
  BY <1>1, <1>2 DEF Put
<1>4. \A k \in 1 .. Len(Put) : Put[k] \in DOMAIN Files BY <1>3
<1>5. \A k \in 1 .. Len(Put) : Files[Put[k]] \in Seq(Cell) BY <1>4, FileTyped
<1>6. QED BY <1>2, <1>3, <1>4, <1>5, ArchiveAssumption

LEMMA SmallMod == ASSUME NEW a \in Nat, NEW w \in Nat \ {0}, a < w PROVE a % w = a
OBVIOUS

\* In another pass nothing has been read.
LEMMA PassBegins ==
    ASSUME IInv, pc # "ar", pos = 0, read = <<>>, Len(starts) = Len(Put)
    PROVE  /\ \A k \in 1 .. Len(read) : AllFit(k - 1) => k <= Len(Put) /\ read[k] = Put[k]
           /\ AllFit(Len(read)) => Len(read) <= Len(Put) /\ pos = Start(Len(read) + 1)
BY JobTyped DEF IInv, Written

\* A reader that passes a member is at the next one.
LEMMA PassReads ==
    ASSUME IInv, pc \in {"list", "lib"}, PassMember, UNCHANGED <<job, call, arc, starts>>
    PROVE  /\ pos' \in Nat /\ read' \in Seq(DOMAIN Files)
           /\ \A k \in 1 .. Len(read') : AllFit(k - 1) => k <= Len(Put) /\ read'[k] = Put[k]
           /\ AllFit(Len(read')) => Len(read') <= Len(Put) /\ pos' = Start(Len(read') + 1)
<1> DEFINE n == Len(read)
           c == arc[pos + 1]
<1>1. /\ pos < Len(arc) /\ pos' = pos + 1 + c.size /\ read' = Append(read, c.name)
      /\ pos \in Nat /\ n \in Nat /\ read \in Seq(DOMAIN Files) /\ arc \in Seq(Cell)
      /\ Len(starts) = Len(Put) /\ starts \in Seq(Nat)
  BY DEF PassMember, AtMember, NextMember, IInv, TypeOK, Reading
<1>2. c \in Cell BY <1>1
<1>3. c.size \in Nat /\ c.name \in DOMAIN Files BY <1>2 DEF Cell
<1>4. pos' \in Nat /\ read' \in Seq(DOMAIN Files) /\ Len(read') = n + 1 BY <1>1, <1>3
<1>5. \A k \in 1 .. n : read'[k] = read[k] BY <1>1, <1>3
<1>6. read'[n + 1] = c.name BY <1>1, <1>3
<1>7. ASSUME AllFit(n)
      PROVE  n + 1 <= Len(Put) /\ pos = starts[n + 1]
  <2>1. n <= Len(Put) /\ pos = Start(n + 1) BY <1>7 DEF IInv, Reading
  <2>2. n # Len(Put)
    <3>1. SUFFICES ASSUME n = Len(Put) PROVE FALSE OBVIOUS
    <3>2. ~(n + 1 <= Len(starts)) BY <1>1, <3>1
    <3>3. pos = Len(arc) BY <2>1, <3>2 DEF Start
    <3>4. QED BY <1>1, <3>3
  <2>3. n + 1 <= Len(Put) BY <1>1, <2>1, <2>2, JobTyped DEF IInv
  <2>4. QED BY <1>1, <2>1, <2>3 DEF Start
<1>8. ASSUME AllFit(n) PROVE c.name = Put[n + 1] /\ c.size = Len(Files[Put[n + 1]]) % WRAP
                             /\ Start(n + 2) = pos + 1 + Len(Files[Put[n + 1]])
  <2>1. n + 1 \in 1 .. Len(starts) BY <1>1, <1>7, <1>8
  <2>2. (n + 1) + 1 = n + 2 BY <1>1
  <2>3. QED BY <1>7, <1>8, <2>1, <2>2 DEF IInv, Written
<1>9. \A k \in 1 .. Len(read') : AllFit(k - 1) => k <= Len(Put) /\ read'[k] = Put[k]
  <2>1. SUFFICES ASSUME NEW k \in 1 .. n + 1, AllFit(k - 1)
                 PROVE  k <= Len(Put) /\ read'[k] = Put[k]
    BY <1>4
  <2>2. CASE k \in 1 .. n
    <3>1. k <= Len(Put) /\ read[k] = Put[k] BY <2>1, <2>2 DEF IInv, Reading
    <3>2. QED BY <1>5, <2>2, <3>1
  <2>3. CASE k = n + 1
    <3>1. AllFit(n) BY <1>1, <2>1, <2>3
    <3>2. QED BY <1>6, <1>7, <1>8, <2>3, <3>1
  <2>4. QED BY <1>1, <2>1, <2>2, <2>3
<1>10. ASSUME AllFit(n + 1) PROVE n + 1 <= Len(Put) /\ pos' = Start(n + 2)
  <2>1. AllFit(n) BY <1>1, <1>10 DEF AllFit
  <2>2. n + 1 <= Len(Put) BY <1>7, <2>1
  <2>3. Fits(Put[n + 1]) BY <1>1, <1>10, <2>2 DEF AllFit
  <2>4. Len(Files[Put[n + 1]]) \in Nat /\ WRAP \in Nat \ {0}
    BY <1>1, <2>2, JobTyped DEF IInv
  <2>5. c.size = Len(Files[Put[n + 1]])
    BY <1>8, <2>1, <2>3, <2>4, SmallMod DEF Fits
  <2>6. QED BY <1>1, <1>8, <2>1, <2>2, <2>5
<1>11. (n + 1) + 1 = n + 2 BY <1>1
<1>12. QED BY <1>4, <1>9, <1>10, <1>11
-----------------------------------------------------------------------------
LEMMA InitIInv == Init => IInv
<1>1. SUFFICES ASSUME Init PROVE IInv OBVIOUS
<1>2. TypeOK
  <2>1. job.puts \in Seq(Seq(DOMAIN Files)) /\ job.puts # <<>>
    BY <1>1, ArchiveAssumption DEF Init
  <2>2. 1 \in DOMAIN job.puts BY <2>1
  <2>3. Put \in Seq(DOMAIN Files) BY <1>1, <2>1, <2>2 DEF Init, Put
  <2>4. QED BY <1>1, <2>2, <2>3 DEF Init, TypeOK, Signature
<1>3. QED BY <1>1, <1>2 DEF Init, IInv, Written, Reading

\* Who only reads the library leaves it as it was written.
LEMMA LibraryKept ==
    ASSUME IInv, UNCHANGED <<job, call, arc, starts>>, pc # "ar"
    PROVE  /\ Written' /\ Put' = Put
           /\ \A k \in Nat : Start(k)' = Start(k) /\ (AllFit(k)' <=> AllFit(k))
<1>1. Put' = Put BY DEF Put
<1>2. \A k \in Nat : Start(k)' = Start(k) BY DEF Start
<1>3. \A k \in Nat : AllFit(k)' <=> AllFit(k) BY <1>1 DEF AllFit
<1>4. Written' BY <1>1 DEF IInv, Written, Start
<1>5. QED BY <1>1, <1>2, <1>3, <1>4

\* A new pass over the library starts with IInv.
LEMMA NewPass ==
    ASSUME IInv, UNCHANGED <<job, call, arc, starts>>, pc # "ar", Len(starts) = Len(Put),
           pc' \in {"list", "lib"}, pos' = 0, read' = <<>>
    PROVE  Written' /\ Reading'
<1>1. /\ Written' /\ Put' = Put
      /\ \A k \in Nat : Start(k)' = Start(k) /\ (AllFit(k)' <=> AllFit(k))
  BY LibraryKept
<1>2. Start(1) = 0 BY DEF IInv, Written
<1>3. Len(Put) \in Nat BY JobTyped DEF IInv
<1>4. Len(read') = 0 BY DEF IInv
<1>5. pos' = Start(1)' /\ 0 <= Len(Put') BY <1>1, <1>2, <1>3
<1>6. QED BY <1>1, <1>4, <1>5 DEF Reading

LEMMA OpenIInv == IInv /\ Open => IInv'
<1>1. SUFFICES ASSUME IInv, Open PROVE IInv' OBVIOUS
<1>2. Put' = Put BY <1>1 DEF Open, Put
<1>3. TypeOK' BY <1>1, <1>2, JobTyped DEF IInv, TypeOK, Open, Signature
<1>4. Written'
  <2>1. starts' = <<>> /\ arc' = <<>> BY <1>1 DEF Open
  <2>2. Len(starts') = 0 /\ Len(arc') = 0 BY <2>1
  <2>3. QED BY <2>2 DEF Written, Start
<1>5. Reading' BY <1>1 DEF IInv, Reading, Open
<1>6. QED BY <1>3, <1>4, <1>5 DEF IInv

LEMMA ModIsNat == ASSUME NEW a \in Nat, NEW w \in Nat \ {0} PROVE a % w \in Nat
OBVIOUS

\* A header and a file behind what there was.
LEMMA Grown ==
    ASSUME NEW S, NEW a \in Seq(S), NEW h \in S, NEW x \in Seq(S)
    PROVE  /\ Append(a, h) \o x \in Seq(S)
           /\ Len(Append(a, h) \o x) = Len(a) + 1 + Len(x)
           /\ (Append(a, h) \o x)[Len(a) + 1] = h
           /\ \A i \in 1 .. Len(a) : (Append(a, h) \o x)[i] = a[i]
           /\ Inside(Append(a, h) \o x, Len(a) + 1, x)
<1> DEFINE b == Append(a, h)
<1>1. /\ b \in Seq(S) /\ Len(b) = Len(a) + 1 /\ b[Len(a) + 1] = h /\ Len(a) \in Nat
      /\ \A i \in 1 .. Len(a) : b[i] = a[i]
  OBVIOUS
<1> HIDE DEF b
<1>2. /\ b \o x \in Seq(S) /\ Len(b \o x) = Len(b) + Len(x)
      /\ \A i \in 1 .. Len(b) : (b \o x)[i] = b[i]
      /\ \A j \in 1 .. Len(x) : (b \o x)[Len(b) + j] = x[j]
  BY <1>1
<1>3. Len(a) + 1 \in 1 .. Len(b) /\ \A i \in 1 .. Len(a) : i \in 1 .. Len(b) BY <1>1
<1>4. (b \o x)[Len(a) + 1] = h BY <1>1, <1>2, <1>3
<1>5. \A i \in 1 .. Len(a) : (b \o x)[i] = a[i] BY <1>1, <1>2, <1>3
<1>6. b \o x \in Seq(S) /\ Len(b \o x) = Len(a) + 1 + Len(x) BY <1>1, <1>2
<1>7. Inside(b \o x, Len(a) + 1, x) BY <1>1, <1>2 DEF Inside
<1>8. QED BY <1>4, <1>5, <1>6, <1>7 DEF b

\* What has been written stays where it is; the new header is where the library ended.
LEMMA AddMemberIInv == IInv /\ AddMember => IInv'
<1> DEFINE n == Len(starts)
           f == Put[n + 1]
<1>1. SUFFICES ASSUME IInv, AddMember PROVE IInv' OBVIOUS
<1>2. /\ pc = "append" /\ n < Len(Put)
      /\ buffer' \in {SigOf(f)} \cup {c.sig : c \in ToSet(Files[f])}
      /\ arc' = Append(arc, Header(f)) \o Files[f]
      /\ starts' = Append(starts, Len(arc))
      /\ UNCHANGED <<job, pc, call, pos, read, slots, left>>
  BY <1>1 DEF AddMember
<1>3. /\ n \in Nat /\ arc \in Seq(Cell) /\ starts \in Seq(Nat) /\ buffer \in Signature
      /\ Len(arc) \in Nat
  BY <1>1 DEF IInv, TypeOK
<1>4. f \in DOMAIN Files /\ Files[f] \in Seq(Cell) /\ Len(Files[f]) \in Nat /\ WRAP \in Nat \ {0}
      /\ Len(Put) \in Nat
  <2>1. TypeOK BY <1>1 DEF IInv
  <2>2. Len(Put) \in Nat BY <2>1, JobTyped
  <2>3. n + 1 \in 1 .. Len(Put) BY <1>2, <1>3, <2>2
  <2>4. QED BY <2>1, <2>2, <2>3, JobTyped
<1>5. SigOf(f) \in Signature
  <2>1. CASE Files[f] = <<>> BY <1>3, <2>1 DEF SigOf
  <2>2. CASE Files[f] # <<>>
    <3>1. Files[f][1] \in Cell BY <1>4, <2>2
    <3>2. QED BY <2>2, <3>1 DEF SigOf, Cell
  <2>3. QED BY <2>1, <2>2
<1>6. /\ Header(f) \in Cell /\ Header(f).sig \in {"member", "text"}
      /\ Header(f).name = f /\ Header(f).size = Len(Files[f]) % WRAP
      /\ Files[f] # <<>> => (Header(f).sig = "member" <=> IsObject(Files[f]))
  <2>1. Len(Files[f]) % WRAP \in Nat BY <1>4, ModIsNat
  <2>2. Header(f) \in Cell /\ Header(f).sig \in {"member", "text"}
        /\ Header(f).name = f /\ Header(f).size = Len(Files[f]) % WRAP
    BY <1>4, <2>1 DEF Header, Cell, Signature
  <2>3. Files[f] # <<>> => (Header(f).sig = "member" <=> IsObject(Files[f]))
    BY DEF Header, SigOf, IsObject
  <2>4. QED BY <2>2, <2>3
<1>7. f = Put[n + 1] OBVIOUS
<1> HIDE DEF f
<1>8. /\ arc' \in Seq(Cell) /\ Len(arc') = Len(arc) + 1 + Len(Files[f])
      /\ arc'[Len(arc) + 1] = Header(f)
      /\ \A i \in 1 .. Len(arc) : arc'[i] = arc[i]
      /\ Inside(arc', Len(arc) + 1, Files[f])
  BY <1>2, <1>3, <1>4, <1>6, Grown
<1>9. /\ starts' \in Seq(Nat) /\ Len(starts') = n + 1 /\ starts'[n + 1] = Len(arc)
      /\ \A k \in 1 .. n : starts'[k] = starts[k]
  BY <1>2, <1>3
<1>10. Put' = Put BY <1>2 DEF Put
<1>11. TypeOK'
  <2>1. \A c \in ToSet(Files[f]) : c \in Cell BY <1>4 DEF ToSet
  <2>2. buffer' \in Signature BY <1>2, <1>5, <2>1 DEF Cell
  <2>3. QED BY <1>1, <1>2, <1>8, <1>9, <2>2 DEF IInv, TypeOK
<1>12. ASSUME NEW k \in 1 .. n + 1 PROVE Start(k)' = Start(k)
  <2>1. CASE k <= n BY <1>3, <1>9, <2>1 DEF Start
  <2>2. CASE k = n + 1 BY <1>3, <1>9, <2>2 DEF Start
  <2>3. QED BY <1>3, <2>1, <2>2
<1>13. ASSUME NEW k \in Nat, k = n + 2 PROVE Start(k)' = Len(arc')
  BY <1>3, <1>9, <1>13 DEF Start
<1>14. Written'
  <2>1. Start(1)' = 0 BY <1>1, <1>2, <1>3, <1>12 DEF IInv, Written
  <2>2. ASSUME NEW k \in 1 .. n + 1
        PROVE  /\ starts'[k] < Len(arc')
               /\ arc'[starts'[k] + 1].sig \in {"member", "text"}
               /\ arc'[starts'[k] + 1].name = Put[k]
               /\ arc'[starts'[k] + 1].size = Len(Files[Put[k]]) % WRAP
               /\ Start(k + 1)' = starts'[k] + 1 + Len(Files[Put[k]])
               /\ Start(k + 1)' <= Len(arc')
               /\ Inside(arc', starts'[k] + 1, Files[Put[k]])
               /\ Files[Put[k]] # <<>> =>
                     (arc'[starts'[k] + 1].sig = "member" <=> IsObject(Files[Put[k]]))
    <3>1. CASE k \in 1 .. n
      <4>1. /\ starts[k] < Len(arc) /\ arc[starts[k] + 1].sig \in {"member", "text"}
            /\ arc[starts[k] + 1].name = Put[k]
            /\ arc[starts[k] + 1].size = Len(Files[Put[k]]) % WRAP
            /\ Start(k + 1) = starts[k] + 1 + Len(Files[Put[k]])
            /\ Start(k + 1) <= Len(arc)
            /\ Inside(arc, starts[k] + 1, Files[Put[k]])
            /\ Files[Put[k]] # <<>> =>
                  (arc[starts[k] + 1].sig = "member" <=> IsObject(Files[Put[k]]))
        BY <1>1, <1>2, <3>1 DEF IInv, Written
      <4>2. starts[k] \in Nat /\ starts'[k] = starts[k] BY <1>3, <1>9, <3>1
      <4>3. starts[k] + 1 \in 1 .. Len(arc) BY <1>3, <4>1, <4>2
      <4>4. arc'[starts[k] + 1] = arc[starts[k] + 1] BY <1>8, <4>3
      <4>5. k + 1 \in 1 .. n + 1 BY <1>3, <3>1
      <4>6. Start(k + 1)' = Start(k + 1) BY <1>12, <4>5
      <4>7. starts'[k] < Len(arc') BY <1>3, <1>4, <1>8, <4>1, <4>2
      <4>8. Len(Files[Put[k]]) \in Nat BY <1>1, <1>2, <1>3, <1>4, <3>1, JobTyped DEF IInv
      <4>9. Start(k + 1)' <= Len(arc')
        <5>1. Len(arc) <= Len(arc') BY <1>3, <1>4, <1>8
        <5>2. Len(arc') \in Nat BY <1>3, <1>4, <1>8
        <5>3. starts[k] + 1 + Len(Files[Put[k]]) \in Nat BY <4>2, <4>8
        <5>4. Start(k + 1) \in Nat /\ Start(k + 1) <= Len(arc) BY <4>1, <5>3
        <5>5. QED BY <1>3, <4>6, <5>1, <5>2, <5>4
      <4>10. Inside(arc', starts'[k] + 1, Files[Put[k]])
        <5>1. ASSUME NEW j \in 1 .. Len(Files[Put[k]])
              PROVE  arc'[starts[k] + 1 + j] = Files[Put[k]][j]
          <6>1. starts[k] + 1 + j \in 1 .. Len(arc)
            <7>1. starts[k] + 1 + Len(Files[Put[k]]) <= Len(arc) BY <4>1
            <7>2. starts[k] \in Nat BY <4>2
            <7>3. j \in Nat /\ j <= Len(Files[Put[k]]) BY <4>8
            <7>4. Len(arc) \in Nat BY <1>3
            <7>5. ASSUME NEW a \in Nat, NEW b \in Nat, NEW c \in Nat, NEW d \in Nat,
                         a + 1 + b <= c, d <= b
                  PROVE  a + 1 + d <= c /\ a + 1 + d \in Nat
              BY <7>5
            <7>6. starts[k] + 1 + j <= Len(arc) /\ starts[k] + 1 + j \in Nat
              BY <4>8, <7>1, <7>2, <7>3, <7>4, <7>5
            <7>7. starts[k] + 1 + j >= 1 BY <7>2, <7>3
            <7>8. QED BY <7>4, <7>6, <7>7
          <6>2. arc[starts[k] + 1 + j] = Files[Put[k]][j] BY <4>1, <5>1 DEF Inside
          <6>3. QED BY <1>8, <6>1, <6>2
        <5>2. QED BY <4>2, <5>1 DEF Inside
      <4>11. QED BY <4>1, <4>2, <4>4, <4>6, <4>7, <4>9, <4>10
    <3>2. CASE k = n + 1
      <4>1. starts'[k] = Len(arc) BY <1>9, <3>2
      <4>2. arc'[Len(arc) + 1] = Header(f) BY <1>8
      <4>3. k + 1 = n + 2 /\ k + 1 \in Nat BY <1>3, <3>2
      <4>4. Put[k] = f BY <1>7, <3>2
      <4>5. starts'[k] < Len(arc') BY <1>3, <1>4, <1>8, <4>1
      <4>6. Start(k + 1)' = Len(arc') BY <1>13, <4>3
      <4>7. Start(k + 1)' <= Len(arc') BY <1>3, <1>4, <1>8, <4>6
      <4>8. QED BY <1>6, <1>8, <4>1, <4>2, <4>4, <4>5, <4>6, <4>7
    <3>3. QED BY <1>3, <3>1, <3>2
  <2>3. QED BY <1>9, <1>10, <2>1, <2>2 DEF Written
<1>15. Reading' BY <1>1, <1>2 DEF IInv, Reading
<1>16. QED BY <1>11, <1>14, <1>15 DEF IInv

LEMMA CloseIInv == IInv /\ Close => IInv'
<1>1. SUFFICES ASSUME IInv, Close PROVE IInv' OBVIOUS
<1>2. /\ pc = "append" /\ Len(starts) = Len(Put) /\ pos = 0 /\ read = <<>>
      /\ UNCHANGED <<job, arc, buffer, pos, read, slots, left, starts>>
  BY <1>1 DEF Close, IInv, Reading
<1>3. TypeOK /\ call \in DOMAIN job.puts /\ call \in Nat /\ Len(job.puts) \in Nat
      /\ job.puts \in Seq(Seq(DOMAIN Files))
  BY <1>1, JobTyped DEF IInv, TypeOK
<1>4. CASE call = Len(job.puts) /\ pc' = "list" /\ UNCHANGED call
  <2>1. Put' = Put BY <1>2, <1>4 DEF Put
  <2>2. TypeOK' BY <1>2, <1>3, <1>4, <2>1 DEF TypeOK
  <2>3. Written' /\ Reading' BY <1>1, <1>2, <1>4, NewPass
  <2>4. QED BY <2>2, <2>3 DEF IInv
<1>5. CASE call < Len(job.puts) /\ call' = call + 1 /\ pc' = "ar"
  <2>1. call' \in DOMAIN job.puts' BY <1>2, <1>3, <1>5
  <2>2. TypeOK' BY <1>2, <1>3, <1>5, <2>1 DEF TypeOK
  <2>3. Written' /\ Reading' BY <1>2, <1>5 DEF Written, Reading
  <2>4. QED BY <2>2, <2>3 DEF IInv
<1>6. QED BY <1>1, <1>4, <1>5 DEF Close

\* Both readers pass a member in the same way.
LEMMA PassIInv ==
    ASSUME IInv, pc \in {"list", "lib"}, PassMember, TypeOK',
           UNCHANGED <<job, pc, call, arc, starts>>
    PROVE  IInv'
<1>1. /\ \A k \in 1 .. Len(read') : AllFit(k - 1) => k <= Len(Put) /\ read'[k] = Put[k]
      /\ AllFit(Len(read')) => Len(read') <= Len(Put) /\ pos' = Start(Len(read') + 1)
      /\ read' \in Seq(DOMAIN Files)
  BY PassReads
<1>2. /\ Written' /\ Put' = Put
      /\ \A k \in Nat : Start(k)' = Start(k) /\ (AllFit(k)' <=> AllFit(k))
  BY LibraryKept
<1> DEFINE m == Len(read')
<1>3. m \in Nat BY <1>1
<1>4. ASSUME NEW k \in 1 .. m, AllFit(k - 1)'
      PROVE  k <= Len(Put') /\ read'[k] = Put'[k]
  <2>1. k - 1 \in Nat BY <1>3
  <2>2. AllFit(k - 1) BY <1>2, <1>4, <2>1
  <2>3. QED BY <1>1, <1>2, <2>2
<1>5. ASSUME NEW i \in Nat, i = m, AllFit(i)'
      PROVE  i <= Len(Put') /\ pos' = Start(i + 1)'
  <2>1. AllFit(m) /\ i + 1 \in Nat BY <1>2, <1>3, <1>5
  <2>2. QED BY <1>1, <1>2, <1>5, <2>1
<1>6. Reading' BY <1>2, <1>3, <1>4, <1>5 DEF IInv, Reading
<1>7. QED BY <1>2, <1>6 DEF IInv

LEMMA ListIInv == IInv /\ List => IInv'
<1>1. SUFFICES ASSUME IInv, List PROVE IInv' OBVIOUS
<1>2. /\ pc \in {"list", "lib"} /\ PassMember
      /\ UNCHANGED <<job, pc, call, arc, buffer, slots, left, starts>>
  BY <1>1 DEF List
<1>3. pos' \in Nat /\ read' \in Seq(DOMAIN Files) BY <1>1, <1>2, PassReads
<1>4. TypeOK' BY <1>1, <1>2, <1>3 DEF IInv, TypeOK
<1>5. QED BY <1>1, <1>2, <1>4, PassIInv

LEMMA ListEndsIInv == IInv /\ ListEnds => IInv'
<1>1. SUFFICES ASSUME IInv, ListEnds PROVE IInv' OBVIOUS
<1>2. /\ pc = "list" /\ pc' = "lib" /\ left' = job.libs /\ pos' = 0 /\ read' = <<>>
      /\ UNCHANGED <<job, call, arc, buffer, slots, starts>>
  BY <1>1 DEF ListEnds
<1>3. TypeOK' BY <1>1, <1>2, JobTyped DEF IInv, TypeOK
<1>4. Len(starts) = Len(Put) BY <1>1, <1>2 DEF IInv, Reading
<1>5. Written' /\ Reading' BY <1>1, <1>2, <1>4, NewPass
<1>6. QED BY <1>3, <1>5 DEF IInv

LEMMA LoadIInv == IInv /\ Load => IInv'
<1> DEFINE S == [cells : Seq(Cell), at : Nat]
<1>1. SUFFICES ASSUME IInv, Load PROVE IInv' OBVIOUS
<1>2. /\ pc \in {"list", "lib"} /\ PassMember
      /\ UNCHANGED <<job, pc, call, arc, buffer, left, starts>>
      /\ slots' = Append(slots, IF arc[pos + 1].sig = "member" THEN MemberSlot ELSE Nothing)
  BY <1>1 DEF Load
<1>3. pos' \in Nat /\ read' \in Seq(DOMAIN Files) BY <1>1, <1>2, PassReads
<1>4. arc \in Seq(Cell) /\ pos \in Nat /\ slots \in Seq(S) BY <1>1 DEF IInv, TypeOK
<1>5. MemberSlot \in S /\ Nothing \in S BY <1>4 DEF MemberSlot, Nothing, Slot
<1>6. slots' \in Seq(S) BY <1>2, <1>4, <1>5
<1>7. TypeOK' BY <1>1, <1>2, <1>3, <1>6 DEF IInv, TypeOK
<1>8. QED BY <1>1, <1>2, <1>7, PassIInv

LEMMA LoadEndsIInv == IInv /\ LoadEnds => IInv'
<1> DEFINE S == [cells : Seq(Cell), at : Nat]
<1>1. SUFFICES ASSUME IInv, LoadEnds PROVE IInv' OBVIOUS
<1>2. /\ pc = "lib" /\ left > 0 /\ left' = left - 1 /\ pos' = 0 /\ read' = <<>>
      /\ slots' = IF Free THEN Append(slots, Nothing) ELSE slots
      /\ UNCHANGED <<job, pc, call, arc, buffer, starts>>
  BY <1>1 DEF LoadEnds
<1>3. slots \in Seq(S) /\ left \in Nat BY <1>1 DEF IInv, TypeOK
<1>4. Nothing \in S BY DEF Nothing, Slot
<1>5. left' \in Nat BY <1>2, <1>3
<1>6. Append(slots, Nothing) \in Seq(S) BY <1>3, <1>4
<1>7. slots' \in Seq(S) /\ left' \in Nat BY <1>2, <1>3, <1>5, <1>6
<1>8. TypeOK' BY <1>1, <1>2, <1>7 DEF IInv, TypeOK
<1>9. Len(starts) = Len(Put) BY <1>1, <1>2 DEF IInv, Reading
<1>10. Written' /\ Reading' BY <1>1, <1>2, <1>9, NewPass
<1>11. QED BY <1>8, <1>10 DEF IInv

LEMMA LibrariesDoneIInv == IInv /\ LibrariesDone => IInv'
<1>1. SUFFICES ASSUME IInv, LibrariesDone PROVE IInv' OBVIOUS
<1>2. /\ pc = "lib" /\ pc' = "objs" /\ left' = Len(job.objs)
      /\ UNCHANGED <<job, call, arc, buffer, pos, read, slots, starts>>
  BY <1>1 DEF LibrariesDone
<1>3. Len(job.objs) \in Nat BY <1>1, ArchiveAssumption DEF IInv, TypeOK
<1>4. TypeOK' BY <1>1, <1>2, <1>3 DEF IInv, TypeOK
<1>5. Written' /\ Put' = Put BY <1>1, <1>2, LibraryKept
<1>6. QED BY <1>1, <1>2, <1>4, <1>5 DEF IInv, Reading

LEMMA AddFileIInv == IInv /\ AddFile => IInv'
<1> DEFINE S == [cells : Seq(Cell), at : Nat]
           f == job.objs[Len(job.objs) - left + 1]
<1>1. SUFFICES ASSUME IInv, AddFile PROVE IInv' OBVIOUS
<1>2. /\ pc = "objs" /\ left > 0 /\ UNCHANGED <<job, call, arc, buffer, pos, read, starts>>
      /\ \/ f \in DOMAIN Files /\ slots' = Append(slots, Slot(Files[f], 0))
            /\ left' = left - 1 /\ pc' = pc
         \/ pc' = "failed" /\ UNCHANGED <<slots, left>>
         \/ left' = left - 1 /\ UNCHANGED <<slots, pc>>
  BY <1>1 DEF AddFile
<1> HIDE DEF f
<1>3. slots \in Seq(S) /\ left \in Nat BY <1>1 DEF IInv, TypeOK
<1>4. ASSUME f \in DOMAIN Files PROVE Slot(Files[f], 0) \in S
  <2>1. Files[f] \in Seq(Cell) BY <1>4, FileTyped
  <2>2. QED BY <2>1 DEF Slot
<1>5. pc' \in {"objs", "failed"} /\ slots' \in Seq(S) /\ left' \in Nat
  <2>1. left - 1 \in Nat BY <1>2, <1>3
  <2>2. CASE f \in DOMAIN Files /\ slots' = Append(slots, Slot(Files[f], 0))
             /\ left' = left - 1 /\ pc' = pc
    <3>1. Append(slots, Slot(Files[f], 0)) \in Seq(S) BY <1>3, <1>4, <2>2
    <3>2. QED BY <1>2, <2>1, <2>2, <3>1
  <2>3. QED BY <1>2, <1>3, <2>1, <2>2
<1>6. TypeOK' BY <1>1, <1>2, <1>5 DEF IInv, TypeOK
<1>7. Written' /\ Put' = Put BY <1>1, <1>2, LibraryKept
<1>8. QED BY <1>1, <1>2, <1>5, <1>6, <1>7 DEF IInv, Reading

LEMMA NextIInv == IInv /\ [Next]_vars => IInv'
<1>1. SUFFICES ASSUME IInv, [Next]_vars PROVE IInv' OBVIOUS
<1>2. CASE UNCHANGED vars
  <2>1. Put' = Put BY <1>2 DEF vars, Put
  <2>2. QED
    BY <1>1, <1>2, <2>1 DEF vars, IInv, TypeOK, Written, Reading, Start, AllFit
<1>3. CASE Done BY <1>2, <1>3 DEF Done
<1>4. QED
  BY <1>1, <1>2, <1>3, OpenIInv, AddMemberIInv, CloseIInv, ListIInv, ListEndsIInv,
     LoadIInv, LoadEndsIInv, LibrariesDoneIInv, AddFileIInv
  DEF Next

LEMMA Invariant == Spec => []IInv
BY InitIInv, NextIInv, PTL DEF Spec
-----------------------------------------------------------------------------
\* Where the reader stops it has read all of a library whose sizes fit.
LEMMA StopsBehindTheLast == IInv => ReadsMembers
<1>1. SUFFICES ASSUME IInv, pc \in {"list", "lib"}
               PROVE  /\ \A k \in DOMAIN read : AllFit(k - 1) => k <= Len(Put) /\ read[k] = Put[k]
                      /\ ~AtMember /\ AllFit(Len(Put)) => read = Put
  BY DEF ReadsMembers
<1>2. /\ read \in Seq(DOMAIN Files) /\ Put \in Seq(DOMAIN Files) /\ starts \in Seq(Nat)
      /\ Len(starts) = Len(Put) /\ arc \in Seq(Cell) /\ Len(read) \in Nat /\ Len(Put) \in Nat
  BY <1>1, JobTyped DEF IInv, TypeOK, Reading
<1>3. \A k \in 1 .. Len(read) : AllFit(k - 1) => k <= Len(Put) /\ read[k] = Put[k]
  BY <1>1 DEF IInv, Reading
<1>4. ASSUME ~AtMember, AllFit(Len(Put)) PROVE read = Put
  <2>1. \A k \in Nat : AllFit(k) BY <1>2, <1>4 DEF AllFit
  <2>2. Len(read) <= Len(Put) /\ pos = Start(Len(read) + 1)
    BY <1>1, <1>2, <2>1 DEF IInv, Reading
  <2>3. ~(Len(read) < Len(Put))
    <3>1. SUFFICES ASSUME Len(read) < Len(Put) PROVE FALSE OBVIOUS
    <3>2. Len(read) + 1 \in 1 .. Len(starts) BY <1>2, <3>1
    <3>3. pos = starts[Len(read) + 1] BY <2>2, <3>2 DEF Start
    <3>4. pos < Len(arc) /\ arc[pos + 1].sig \in {"member", "text"}
      BY <1>1, <3>2, <3>3 DEF IInv, Written
    <3>5. QED BY <1>4, <3>4 DEF AtMember
  <2>4. Len(read) = Len(Put) BY <1>2, <2>2, <2>3
  <2>5. \A k \in 1 .. Len(read) : read[k] = Put[k]
    <3>1. TAKE k \in 1 .. Len(read)
    <3>2. k - 1 \in Nat BY <1>2
    <3>3. QED BY <1>3, <2>1, <3>2
  <2>6. QED BY <1>2, <2>4, <2>5
<1>5. QED BY <1>2, <1>3, <1>4

\* The members a library was made of are what ar -l and ld find in it, in their order
\* and all of them, up to the first whose size is lost: for all files, whatever is in
\* them, any number of members, slots and readings, and any width of a size.
THEOREM LibrariesReadBack == Spec => []ReadsMembers
BY Invariant, StopsBehindTheLast, PTL
-----------------------------------------------------------------------------
(* The slots: what is in them behind each step of the linker. *)

\* Where slot p of pass q is, counted from the first.
At(q, p) == q * PassLen + p
PassHolds(s, q, n) == \A p \in 1 .. n : At(q, p) <= FILES_MAX => Holds(s[At(q, p)], Member(p))
ObjsHold(s, n) ==
    \A p \in 1 .. n : At(job.libs, p) <= FILES_MAX =>
                          Holds(s[At(job.libs, p)], Files[job.objs[p]])
Filled(s, n) == Len(s) = IF n <= FILES_MAX THEN n ELSE FILES_MAX
PassesHold(s, n) == \A q \in 0 .. n - 1 : PassHolds(s, q, PassLen)

PassNo == job.libs - left
InLibraries ==
    /\ PassesHold(slots, PassNo)
    /\ PassHolds(slots, PassNo, Len(read))
    /\ Filled(slots, At(PassNo, Len(read)))

ObjNo == Len(job.objs) - left
InObjects ==
    /\ PassesHold(slots, job.libs)
    /\ ObjsHold(slots, ObjNo)
    /\ Filled(slots, At(job.libs, ObjNo))

Loading ==
    /\ pc \in {"ar", "append", "list"} => slots = <<>>
    /\ pc = "lib" => /\ left <= job.libs /\ (left = 0 => read = <<>>)
                     /\ AllFit(Len(Put)) => InLibraries
    /\ pc = "objs" => left <= Len(job.objs) /\ (AllFit(Len(Put)) => InObjects)

LEMMA AllFitIs == ASSUME TypeOK, AllFit(Len(Put)), NEW n PROVE AllFit(n)
<1>1. Len(Put) \in Nat BY JobTyped
<1>2. \A k \in 1 .. n : k <= Len(Put) => k \in 1 .. Len(Put) BY <1>1
<1>3. \A k \in 1 .. Len(Put) : k <= Len(Put) => Fits(Put[k]) BY DEF AllFit
<1>4. \A k \in 1 .. Len(Put) : k <= Len(Put) BY <1>1
<1>5. QED BY <1>2, <1>3, <1>4 DEF AllFit

\* A part of a sequence, from its cell at + 1.
Behind(s, at) == SubSeq(s, at + 1, Len(s))

LEMMA BehindIs ==
    ASSUME NEW S, NEW s \in Seq(S), NEW at \in Nat
    PROVE  /\ Behind(s, at) \in Seq(S)
           /\ Len(Behind(s, at)) = IF at <= Len(s) THEN Len(s) - at ELSE 0
           /\ \A j \in 1 .. Len(Behind(s, at)) : Behind(s, at)[j] = s[at + j]
           /\ Behind(s, at) = <<>> <=> Len(s) <= at
<1> DEFINE r == Behind(s, at)
<1>1. r \in Seq(S) /\ Len(r) = IF at <= Len(s) THEN Len(s) - at ELSE 0 BY DEF Behind
<1>2. \A j \in 1 .. Len(r) : r[j] = s[at + j] BY DEF Behind
<1> HIDE DEF r
<1>3. r = <<>> <=> Len(r) = 0 BY <1>1
<1>4. r = <<>> <=> Len(s) <= at
  <2>1. Len(s) \in Nat OBVIOUS
  <2>2. QED BY <1>1, <1>3, <2>1
<1>5. QED BY <1>1, <1>2, <1>4 DEF r

LEMMA RestIs == ASSUME NEW c, NEW a PROVE Rest(Slot(c, a)) = Behind(c, a)
<1>1. Slot(c, a).cells = c /\ Slot(c, a).at = a BY DEF Slot
<1>2. QED BY <1>1 DEF Rest, Behind

LEMMA RestOfNothing == Rest(Nothing) = <<>>
<1>1. SubSeq(<<>>, 1, 0) = <<>> OBVIOUS
<1>2. Nothing.cells = <<>> /\ Nothing.at = 0 BY DEF Nothing, Slot
<1>3. QED BY <1>1, <1>2 DEF Rest

\* What a member's slot holds, whatever its header says of an empty file.
LEMMA MemberHeld ==
    ASSUME IInv, pc = "lib", AllFit(Len(Put)), AtMember
    PROVE  /\ Len(read) + 1 <= Len(Put)
           /\ Holds(IF arc[pos + 1].sig = "member" THEN MemberSlot ELSE Nothing,
                    Member(Len(read) + 1))
<1> DEFINE p == Len(read) + 1
           f == Files[Put[p]]
           r == Behind(arc, pos + 1)
<1>1. /\ TypeOK /\ Len(starts) = Len(Put) /\ arc \in Seq(Cell) /\ pos \in Nat
      /\ starts \in Seq(Nat) /\ Len(read) \in Nat /\ Len(Put) \in Nat /\ Len(arc) \in Nat
      /\ pos < Len(arc)
  BY JobTyped DEF IInv, TypeOK, Reading, AtMember
<1>2. Len(read) <= Len(Put) /\ pos = Start(p)
  BY <1>1, AllFitIs DEF IInv, Reading
<1>3. p \in 1 .. Len(starts) /\ p <= Len(Put) BY <1>1, <1>2 DEF Start
<1>4. pos = starts[p] BY <1>1, <1>2, <1>3 DEF Start
<1>5. /\ Start(p + 1) = pos + 1 + Len(f) /\ Start(p + 1) <= Len(arc)
      /\ Inside(arc, pos + 1, f)
      /\ f # <<>> => (arc[pos + 1].sig = "member" <=> IsObject(f))
  BY <1>3, <1>4 DEF IInv, Written
<1>6. Put[p] \in DOMAIN Files BY <1>1, <1>3, JobTyped
<1>7. f \in Seq(Cell) /\ Len(f) \in Nat /\ (IsObject(f) => f[1].size = Len(f))
  BY <1>6, FileTyped
<1>8. Member(p) = f BY <1>3 DEF Member
<1>9. Rest(MemberSlot) = r /\ Rest(Nothing) = <<>>
  BY RestIs, RestOfNothing DEF MemberSlot
<1>10. /\ r \in Seq(Cell) /\ Len(r) = Len(arc) - (pos + 1)
       /\ \A j \in 1 .. Len(r) : r[j] = arc[pos + 1 + j]
       /\ r = <<>> <=> Len(arc) <= pos + 1
  BY <1>1, BehindIs
<1> HIDE DEF f, p, r
<1>11. ~IsObject(<<>>) BY DEF IsObject
<1>12. CASE f = <<>>
  <2>1. ~IsObject(r)
    <3>1. SUFFICES ASSUME r # <<>> PROVE r[1].sig # "object" BY DEF IsObject
    <3>2. 1 \in 1 .. Len(r) /\ Start(p + 1) = pos + 1 /\ pos + 1 < Len(arc)
      BY <1>1, <1>5, <1>10, <1>12, <3>1
    <3>3. r[1] = arc[(pos + 1) + 1] BY <1>10, <3>2
    <3>4. p + 1 \in 1 .. Len(starts) /\ starts[p + 1] = pos + 1
      BY <1>1, <1>3, <3>2 DEF Start
    <3>5. arc[starts[p + 1] + 1].sig \in {"member", "text"} BY <3>4 DEF IInv, Written
    <3>6. QED BY <3>3, <3>4, <3>5
  <2>2. QED BY <1>3, <1>8, <1>9, <1>11, <1>12, <2>1 DEF Holds, p
<1>13. CASE f # <<>> /\ ~IsObject(f)
  BY <1>3, <1>5, <1>8, <1>9, <1>11, <1>13 DEF Holds, p
<1>14. CASE IsObject(f)
  <2>1. f # <<>> /\ f[1].sig = "object" /\ Len(f) >= 1 BY <1>7, <1>14 DEF IsObject
  <2>2. Len(r) >= Len(f) /\ \A j \in 1 .. Len(f) : r[j] = f[j]
    <3>1. Len(r) >= Len(f) BY <1>1, <1>5, <1>7, <1>10
    <3>2. \A j \in 1 .. Len(f) : j \in 1 .. Len(r) BY <1>1, <1>7, <1>10, <3>1
    <3>3. QED BY <1>5, <1>10, <3>1, <3>2 DEF Inside
  <2>3. r[1] = f[1] BY <1>7, <2>1, <2>2
  <2>4. IsObject(r) BY <1>1, <1>7, <1>10, <2>1, <2>2, <2>3 DEF IsObject
  <2>5. SubSeq(r, 1, Len(f)) = f
    <3>1. Len(r) \in Nat BY <1>10
    <3>2. /\ SubSeq(r, 1, Len(f)) \in Seq(Cell) /\ Len(SubSeq(r, 1, Len(f))) = Len(f)
          /\ \A j \in 1 .. Len(f) : SubSeq(r, 1, Len(f))[j] = r[j]
      BY <1>7, <1>10, <2>2, <3>1
    <3>3. QED BY <1>7, <2>2, <3>2
  <2>6. Contents(MemberSlot) = f BY <1>7, <1>9, <1>14, <2>3, <2>5 DEF Contents
  <2>7. QED BY <1>3, <1>5, <1>8, <1>9, <1>14, <2>1, <2>4, <2>6 DEF Holds, p
<1>15. QED BY <1>12, <1>13, <1>14

\* An object that is given itself.
LEMMA ObjectHeld ==
    ASSUME NEW f \in DOMAIN Files
    PROVE  Holds(Slot(Files[f], 0), Files[f])
<1> DEFINE c == Files[f]
<1>1. c \in Seq(Cell) /\ Len(c) \in Nat /\ (IsObject(c) => c[1].size = Len(c))
  BY FileTyped
<1> HIDE DEF c
<1>2. SubSeq(c, 1, Len(c)) = c BY <1>1
<1>3. Rest(Slot(c, 0)) = c BY <1>2 DEF Rest, Slot
<1>4. QED BY <1>1, <1>2, <1>3 DEF Holds, Contents, c
-----------------------------------------------------------------------------
(* Where the slots are. *)

LEMMA Times == ASSUME NEW m \in Nat, NEW q \in Nat, NEW r \in Nat, r < q
               PROVE  /\ r * m \in Nat /\ q * m \in Nat /\ r * m + m <= q * m
<1>1. r * m \in Nat /\ q * m \in Nat /\ q - 1 - r \in Nat /\ (q - 1 - r) * m \in Nat OBVIOUS
<1>2. q * m = r * m + (q - 1 - r) * m + m OBVIOUS
<1>3. QED BY <1>1, <1>2

LEMMA PlaceIs ==
    ASSUME TypeOK, NEW q \in Nat
    PROVE  /\ PassLen \in Nat /\ PassLen >= 1 /\ At(q, 0) \in Nat
           /\ \A n : At(q, n) = At(q, 0) + n
           /\ At(q + 1, 0) = At(q, PassLen)
           /\ \A r \in 0 .. q - 1 : /\ At(r, 0) \in Nat
                                    /\ At(r, PassLen) <= At(q, 0)
<1>1. PassLen \in Nat /\ PassLen >= 1 BY JobTyped DEF PassLen
<1> HIDE DEF PassLen
<1>2. q * PassLen \in Nat /\ (q + 1) * PassLen = q * PassLen + PassLen BY <1>1
<1>3. At(q, 0) = q * PassLen /\ At(q + 1, 0) = At(q, PassLen) BY <1>1, <1>2 DEF At
<1>4. ASSUME NEW r \in 0 .. q - 1
      PROVE  At(r, 0) \in Nat /\ At(r, PassLen) <= At(q, 0)
  <2>1. r \in Nat /\ r < q BY <1>4
  <2>2. r * PassLen \in Nat /\ r * PassLen + PassLen <= q * PassLen BY <1>1, <2>1, Times
  <2>3. QED BY <1>2, <2>2 DEF At
<1>5. \A n : At(q, n) = At(q, 0) + n
  <2>1. TAKE n
  <2>2. At(q, 0) = q * PassLen BY <1>3
  <2>3. QED BY <2>2 DEF At
<1>6. QED BY <1>1, <1>2, <1>3, <1>4, <1>5

\* One slot more.
LEMMA OneMore ==
    ASSUME TypeOK, NEW x, slots' = Append(slots, x), NEW n \in Nat, Filled(slots, n),
           Len(slots) < FILES_MAX
    PROVE  /\ Filled(slots', n + 1)
           /\ \A j \in 1 .. n : slots'[j] = slots[j]
           /\ slots'[n + 1] = x
<1>1. FILES_MAX \in Nat BY ArchiveAssumption
<1>2. slots \in Seq([cells : Seq(Cell), at : Nat]) /\ Len(slots) \in Nat BY DEF TypeOK
<1>3. Len(slots) = n /\ n + 1 <= FILES_MAX BY <1>1, <1>2 DEF Filled
<1>4. /\ Len(slots') = n + 1
      /\ \A j \in 1 .. n : slots'[j] = slots[j]
      /\ slots'[n + 1] = x
  BY <1>2, <1>3
<1>5. QED BY <1>1, <1>3, <1>4 DEF Filled

LEMMA NoMore ==
    ASSUME TypeOK, NEW s, NEW n \in Nat, Filled(s, n), ~(Len(s) < FILES_MAX)
    PROVE  FILES_MAX <= n /\ \A m \in Nat : n <= m => Filled(s, m)
<1>1. FILES_MAX \in Nat BY JobTyped
<1>2. Len(s) = FILES_MAX /\ FILES_MAX <= n BY <1>1 DEF Filled
<1>3. QED BY <1>1, <1>2 DEF Filled

\* What is in the slots stays there.
LEMMA HeldStill ==
    ASSUME TypeOK, NEW q \in Nat, NEW n \in Nat, NEW s, NEW t,
           \A j \in 1 .. At(q, n) : t[j] = s[j]
    PROVE  /\ PassesHold(s, q) => PassesHold(t, q)
           /\ PassHolds(s, q, n) => PassHolds(t, q, n)
           /\ q = job.libs /\ ObjsHold(s, n) => ObjsHold(t, n)
<1>1. /\ At(q, 0) \in Nat /\ \A i : At(q, i) = At(q, 0) + i
      /\ PassLen \in Nat
      /\ \A r \in 0 .. q - 1 : At(r, 0) \in Nat /\ At(r, PassLen) <= At(q, 0)
  BY PlaceIs
<1>2. ASSUME NEW r \in 0 .. q - 1, NEW p \in 1 .. PassLen
      PROVE  t[At(r, p)] = s[At(r, p)]
  <2>1. r \in Nat BY <1>2
  <2>2. \A i : At(r, i) = At(r, 0) + i BY <2>1, PlaceIs
  <2>3. At(r, 0) \in Nat /\ At(r, 0) + PassLen <= At(q, 0) /\ At(r, p) = At(r, 0) + p
    BY <1>1, <1>2, <2>2
  <2>4. At(q, n) = At(q, 0) + n BY <1>1
  <2>5. At(r, p) \in 1 .. At(q, n) BY <1>1, <1>2, <2>3, <2>4
  <2>6. QED BY <2>5
<1>3. ASSUME NEW p \in 1 .. n PROVE t[At(q, p)] = s[At(q, p)]
  <2>1. At(q, n) = At(q, 0) + n /\ At(q, p) = At(q, 0) + p BY <1>1
  <2>2. At(q, p) \in 1 .. At(q, n) BY <1>1, <1>3, <2>1
  <2>3. QED BY <2>2
<1>4. QED BY <1>2, <1>3 DEF PassesHold, PassHolds, ObjsHold
-----------------------------------------------------------------------------
(* The steps of the linker, once more. *)

\* Two invariants as they depend on what changes.
LEMMA Shown ==
    ASSUME UNCHANGED <<job, call>>
    PROVE  /\ AllFit(Len(Put))' <=> AllFit(Len(Put))
           /\ /\ PassesHold(slots', job.libs - left')
              /\ PassHolds(slots', job.libs - left', Len(read'))
              /\ Filled(slots', At(job.libs - left', Len(read')))
              => InLibraries'
           /\ /\ PassesHold(slots', job.libs)
              /\ ObjsHold(slots', Len(job.objs) - left')
              /\ Filled(slots', At(job.libs, Len(job.objs) - left'))
              => InObjects'
<1>1. Put' = Put BY DEF Put
<1>2. AllFit(Len(Put))' <=> AllFit(Len(Put)) BY <1>1 DEF AllFit
<1>3. /\ PassesHold(slots', job.libs - left')
      /\ PassHolds(slots', job.libs - left', Len(read'))
      /\ Filled(slots', At(job.libs - left', Len(read')))
      => InLibraries'
  BY <1>1 DEF InLibraries, PassNo, PassesHold, PassHolds, Filled, At, PassLen, Member
<1>4. /\ PassesHold(slots', job.libs)
      /\ ObjsHold(slots', Len(job.objs) - left')
      /\ Filled(slots', At(job.libs, Len(job.objs) - left'))
      => InObjects'
  BY <1>1 DEF InObjects, ObjNo, PassesHold, PassHolds, ObjsHold, Filled, At, PassLen, Member
<1>5. QED BY <1>2, <1>3, <1>4

LEMMA NextPass ==
    ASSUME NEW q \in Nat, NEW s, PassesHold(s, q), PassHolds(s, q, PassLen)
    PROVE  PassesHold(s, q + 1)
<1>1. \A r \in 0 .. (q + 1) - 1 : r \in 0 .. q - 1 \/ r = q OBVIOUS
<1>2. QED BY <1>1 DEF PassesHold

LEMMA ListEndsLoads == ASSUME IInv, Loading, ListEnds PROVE Loading'
<1>1. /\ pc' = "lib" /\ left' = job.libs /\ read' = <<>> /\ slots' = <<>>
      /\ UNCHANGED <<job, call>> /\ TypeOK
  BY DEF ListEnds, Loading, IInv
<1>2. job.libs \in Nat /\ FILES_MAX \in Nat /\ At(0, 0) = 0
  BY <1>1, JobTyped, PlaceIs DEF At
<1>3. job.libs - left' = 0 /\ Len(read') = 0 /\ Len(slots') = 0 BY <1>1, <1>2
<1>4. PassesHold(slots', 0) /\ PassHolds(slots', 0, 0) /\ Filled(slots', At(0, 0))
  BY <1>2, <1>3 DEF PassesHold, PassHolds, Filled
<1>5. InLibraries' BY <1>1, <1>3, <1>4, Shown
<1>6. QED BY <1>1, <1>2, <1>5 DEF Loading

LEMMA LoadLoads == ASSUME IInv, Loading, Load PROVE Loading'
<1> DEFINE q == job.libs - left
           n == Len(read)
           x == IF arc[pos + 1].sig = "member" THEN MemberSlot ELSE Nothing
<1>1. /\ pc = "lib" /\ pc' = "lib" /\ left > 0 /\ Len(slots) < FILES_MAX /\ AtMember
      /\ read' = Append(read, arc[pos + 1].name)
      /\ UNCHANGED <<job, call, left>> /\ TypeOK /\ slots' = Append(slots, x)
  BY DEF Load, PassMember, Free, IInv
<1>2. /\ left \in Nat /\ left <= job.libs /\ job.libs \in Nat /\ n \in Nat
      /\ slots \in Seq([cells : Seq(Cell), at : Nat])
  <2>1. left \in Nat /\ slots \in Seq([cells : Seq(Cell), at : Nat]) BY <1>1 DEF TypeOK
  <2>2. n \in Nat BY <1>1 DEF TypeOK
  <2>3. left <= job.libs BY <1>1 DEF Loading
  <2>4. job.libs \in Nat
    <3>1. TypeOK BY <1>1
    <3>2. QED BY Zenon, <3>1, JobTyped
  <2>5. QED BY <2>1, <2>2, <2>3, <2>4
<1>3. q \in Nat /\ job.libs - left' = q /\ Len(read') = n + 1 BY <1>1, <1>2
<1>4. ASSUME AllFit(Len(Put)) PROVE InLibraries'
  <2>1. PassesHold(slots, q) /\ PassHolds(slots, q, n) /\ Filled(slots, At(q, n))
    BY <1>1, <1>4 DEF Loading, InLibraries, PassNo
  <2>2. Holds(x, Member(n + 1)) BY <1>1, <1>4, MemberHeld
  <2> HIDE DEF x, q, n
  <2>3. At(q, n) \in Nat /\ At(q, n + 1) = At(q, n) + 1
    <3>1. At(q, 0) \in Nat /\ \A i : At(q, i) = At(q, 0) + i BY <1>1, <1>3, PlaceIs
    <3>2. QED BY <1>2, <3>1
  <2>4. /\ Filled(slots', At(q, n + 1))
        /\ \A j \in 1 .. At(q, n) : slots'[j] = slots[j]
        /\ slots'[At(q, n + 1)] = x
    <3>1. At(q, n) \in Nat /\ Filled(slots, At(q, n)) /\ Len(slots) < FILES_MAX
      BY <1>1, <2>1, <2>3
    <3>2. TypeOK /\ slots' = Append(slots, x) BY <1>1
    <3>3. QED BY <2>3, <3>1, <3>2, OneMore
  <2>5. PassesHold(slots', q) /\ PassHolds(slots', q, n)
    BY <1>1, <1>2, <1>3, <2>1, <2>4, HeldStill
  <2>6. PassHolds(slots', q, n + 1)
    <3>1. \A p \in 1 .. n + 1 : p \in 1 .. n \/ p = n + 1 BY <1>2
    <3>2. QED BY <2>2, <2>4, <2>5, <3>1 DEF PassHolds
  <2>7. QED BY <1>1, <1>3, <2>4, <2>5, <2>6, Shown
<1>5. QED BY <1>1, <1>2, <1>4, Shown DEF Loading

\* At the end of a pass all its members are in the slots, or the slots are full.
LEMMA LoadEndsLoads == ASSUME IInv, Loading, LoadEnds PROVE Loading'
<1> DEFINE q == job.libs - left
           n == Len(read)
<1>1. /\ pc = "lib" /\ pc' = "lib" /\ left > 0 /\ left' = left - 1 /\ read' = <<>>
      /\ UNCHANGED <<job, call>> /\ TypeOK /\ ~(Free /\ AtMember)
      /\ slots' = IF Free THEN Append(slots, Nothing) ELSE slots
  BY DEF LoadEnds, IInv
<1>2. /\ left \in Nat /\ left <= job.libs /\ job.libs \in Nat /\ n \in Nat /\ Len(Put) \in Nat
      /\ slots \in Seq([cells : Seq(Cell), at : Nat]) /\ PassLen = Len(Put) + 1
      /\ FILES_MAX \in Nat
  <2>1. /\ left \in Nat /\ n \in Nat /\ slots \in Seq([cells : Seq(Cell), at : Nat])
    BY <1>1 DEF TypeOK
  <2>2. left <= job.libs BY <1>1 DEF Loading
  <2>3. TypeOK BY <1>1
  <2>4. job.libs \in Nat /\ Len(Put) \in Nat BY Zenon, <2>3, JobTyped
  <2>5. FILES_MAX \in Nat BY ArchiveAssumption
  <2>6. QED BY <2>1, <2>2, <2>4, <2>5 DEF PassLen
<1>3. q \in Nat /\ job.libs - left' = q + 1 /\ Len(read') = 0 BY <1>1, <1>2
<1>4. ASSUME AllFit(Len(Put)) PROVE InLibraries'
  <2>1. PassesHold(slots, q) /\ PassHolds(slots, q, n) /\ Filled(slots, At(q, n))
    BY <1>1, <1>4 DEF Loading, InLibraries, PassNo
  <2>2. n <= Len(Put) BY <1>1, <1>2, <1>4, AllFitIs DEF IInv, Reading
  <2>3. Free => n = Len(Put)
    BY <1>1, <1>4, StopsBehindTheLast DEF ReadsMembers
  <2> HIDE DEF q, n
  <2>4. /\ At(q, 0) \in Nat /\ \A i : At(q, i) = At(q, 0) + i
        /\ At(q + 1, 0) = At(q, PassLen)
    BY <1>1, <1>3, PlaceIs
  <2>5. At(q, n) \in Nat /\ At(q, n) <= At(q, PassLen) /\ At(q, PassLen) \in Nat
    BY <1>2, <2>2, <2>4
  <2>6. CASE Free
    <3>1. n = Len(Put) /\ Len(slots) < FILES_MAX /\ slots' = Append(slots, Nothing)
          /\ PassLen = n + 1
      BY <1>1, <1>2, <2>3, <2>6 DEF Free
    <3>2. At(q, PassLen) = At(q, n) + 1 BY <1>2, <2>4, <3>1
    <3>3. /\ Filled(slots', At(q, PassLen))
          /\ \A j \in 1 .. At(q, n) : slots'[j] = slots[j]
          /\ slots'[At(q, PassLen)] = Nothing
      <4>1. At(q, n) \in Nat /\ Filled(slots, At(q, n)) /\ Len(slots) < FILES_MAX
        BY <2>1, <2>5, <3>1
      <4>2. TypeOK /\ slots' = Append(slots, Nothing) BY <1>1, <3>1
      <4>3. QED BY <3>2, <4>1, <4>2, OneMore
    <3>4. PassesHold(slots', q) /\ PassHolds(slots', q, n)
      BY <1>1, <1>2, <1>3, <2>1, <3>3, HeldStill
    <3>5. Holds(Nothing, Member(PassLen))
      <4>1. Member(PassLen) = <<>> BY <1>2 DEF Member
      <4>2. QED BY <4>1, RestOfNothing DEF Holds, IsObject
    <3>6. PassHolds(slots', q, PassLen)
      <4>1. \A p \in 1 .. PassLen : p \in 1 .. n \/ p = PassLen BY <1>2, <3>1
      <4>2. QED BY <3>3, <3>4, <3>5, <4>1 DEF PassHolds
    <3>7. PassesHold(slots', q + 1) BY <1>3, <3>4, <3>6, NextPass
    <3>8. PassHolds(slots', q + 1, 0) BY DEF PassHolds
    <3>9. Filled(slots', At(q + 1, 0)) BY <2>4, <3>3
    <3>10. QED BY <1>1, <1>3, <3>7, <3>8, <3>9, Shown
  <2>7. CASE ~Free
    <3>1. slots' = slots /\ ~(Len(slots) < FILES_MAX) BY <1>1, <2>7 DEF Free
    <3>2. FILES_MAX <= At(q, n) /\ Filled(slots, At(q, PassLen))
      BY <1>1, <2>1, <2>5, <3>1, NoMore
    <3>3. PassHolds(slots, q, PassLen)
      <4>1. ASSUME NEW p \in 1 .. PassLen, At(q, p) <= FILES_MAX PROVE p \in 1 .. n
        BY <1>2, <2>4, <3>2, <4>1
      <4>2. QED BY <2>1, <4>1 DEF PassHolds
    <3>4. PassesHold(slots, q + 1) BY <1>3, <2>1, <3>3, NextPass
    <3>5. QED BY <1>1, <1>3, <2>4, <3>1, <3>2, <3>4, Shown DEF PassHolds
  <2>8. QED BY <2>6, <2>7
<1>5. left' <= job.libs BY <1>1, <1>2
<1>6. QED BY <1>1, <1>4, <1>5, Shown DEF Loading

LEMMA LibrariesDoneLoads == ASSUME IInv, Loading, LibrariesDone PROVE Loading'
<1>1. /\ pc = "lib" /\ pc' = "objs" /\ left = 0 /\ left' = Len(job.objs) /\ read = <<>>
      /\ UNCHANGED <<job, call, slots>> /\ TypeOK
  BY DEF LibrariesDone, IInv, Loading
<1>2. job.libs \in Nat /\ Len(job.objs) \in Nat
  BY <1>1, JobTyped, ArchiveAssumption DEF TypeOK
<1>3. job.libs - left = job.libs /\ Len(job.objs) - left' = 0 /\ Len(read) = 0
  BY <1>1, <1>2
<1>4. ASSUME AllFit(Len(Put)) PROVE InObjects'
  <2>1. PassesHold(slots, job.libs) /\ Filled(slots, At(job.libs, 0))
    BY <1>1, <1>3, <1>4 DEF Loading, InLibraries, PassNo
  <2>2. QED BY <1>1, <1>3, <2>1, Shown DEF ObjsHold
<1>5. QED BY <1>1, <1>2, <1>4, Shown DEF Loading

LEMMA AddFileLoads == ASSUME IInv, Loading, AddFile PROVE Loading'
<1> DEFINE d == Len(job.objs) - left
           q == job.libs
           f == job.objs[Len(job.objs) - left + 1]
<1>1. /\ pc = "objs" /\ left > 0 /\ UNCHANGED <<job, call>> /\ TypeOK
      /\ \/ /\ Free /\ f \in DOMAIN Files
            /\ slots' = Append(slots, Slot(Files[f], 0)) /\ left' = left - 1 /\ pc' = pc
         \/ pc' = "failed"
         \/ ~Free /\ left' = left - 1 /\ UNCHANGED <<slots, pc>>
  BY DEF AddFile, IInv
<1>2. CASE pc' = "failed" BY <1>2 DEF Loading
<1>3. CASE pc' # "failed"
  <2>1. /\ left \in Nat /\ left <= Len(job.objs) /\ Len(job.objs) \in Nat /\ q \in Nat
        /\ slots \in Seq([cells : Seq(Cell), at : Nat]) /\ FILES_MAX \in Nat
    BY <1>1, JobTyped, ArchiveAssumption DEF TypeOK, Loading
  <2>2. d \in Nat /\ Len(job.objs) - left' = d + 1 /\ f = job.objs[d + 1]
    BY <1>1, <1>3, <2>1
  <2>3. ASSUME AllFit(Len(Put)) PROVE InObjects'
    <3>1. PassesHold(slots, q) /\ ObjsHold(slots, d) /\ Filled(slots, At(q, d))
      BY <1>1, <2>3 DEF Loading, InObjects, ObjNo
    <3> HIDE DEF d, f, q
    <3>2. At(q, 0) \in Nat /\ \A i : At(q, i) = At(q, 0) + i BY <1>1, <2>1, PlaceIs
    <3>3. At(q, d) \in Nat /\ At(q, d + 1) = At(q, d) + 1
      <4>1. At(q, d) = At(q, 0) + d /\ At(q, d + 1) = At(q, 0) + (d + 1) BY <3>2
      <4>2. d \in Nat BY <2>2
      <4>3. QED BY <3>2, <4>1, <4>2
    <3>4. CASE Free /\ f \in DOMAIN Files /\ slots' = Append(slots, Slot(Files[f], 0))
      <4>1. /\ Filled(slots', At(q, d + 1))
            /\ \A j \in 1 .. At(q, d) : slots'[j] = slots[j]
            /\ slots'[At(q, d + 1)] = Slot(Files[f], 0)
        <5>1. At(q, d) \in Nat /\ Filled(slots, At(q, d)) /\ Len(slots) < FILES_MAX
          BY <3>1, <3>3, <3>4 DEF Free
        <5>2. TypeOK /\ slots' = Append(slots, Slot(Files[f], 0)) BY <1>1, <3>4
        <5>3. QED BY <3>3, <5>1, <5>2, OneMore
      <4>2. PassesHold(slots', q) /\ ObjsHold(slots', d)
        BY <1>1, <2>1, <2>2, <3>1, <4>1, HeldStill DEF q
      <4>3. Holds(Slot(Files[f], 0), Files[f]) BY <3>4, ObjectHeld
      <4>4. ObjsHold(slots', d + 1)
        <5>1. \A p \in 1 .. d + 1 : p \in 1 .. d \/ p = d + 1 BY <2>2
        <5>2. QED BY <2>2, <4>1, <4>2, <4>3, <5>1 DEF ObjsHold, q
      <4>5. QED BY <1>1, <2>2, <4>1, <4>2, <4>4, Shown DEF q
    <3>5. CASE ~Free /\ slots' = slots
      <4>1. FILES_MAX <= At(q, d) /\ Filled(slots, At(q, d + 1))
        BY <1>1, <3>1, <3>3, <3>5, NoMore DEF Free
      <4>2. ObjsHold(slots, d + 1)
        <5>1. ASSUME NEW p \in 1 .. d + 1, At(q, p) <= FILES_MAX PROVE p \in 1 .. d
          BY <2>1, <2>2, <3>2, <4>1, <5>1
        <5>2. QED BY <3>1, <5>1 DEF ObjsHold, q
      <4>3. QED BY <1>1, <2>2, <3>1, <3>5, <4>1, <4>2, Shown DEF q
    <3>6. QED BY <1>1, <1>3, <3>4, <3>5
  <2>4. left' <= Len(job.objs) /\ pc' = "objs" BY <1>1, <1>3, <2>1
  <2>5. QED BY <1>1, <2>3, <2>4, Shown DEF Loading
<1>4. QED BY <1>2, <1>3

LEMMA NextLoads == IInv /\ Loading /\ [Next]_vars => Loading'
<1>1. SUFFICES ASSUME IInv, Loading, [Next]_vars PROVE Loading' OBVIOUS
<1>2. CASE UNCHANGED vars \/ Done
  <2>1. UNCHANGED <<job, call, left, read, slots, pc>> BY <1>2 DEF vars, Done
  <2>2. AllFit(Len(Put)) /\ pc = "lib" => InLibraries'
    BY <1>1, <2>1, Shown DEF Loading, InLibraries, PassNo
  <2>3. AllFit(Len(Put)) /\ pc = "objs" => InObjects'
    BY <1>1, <2>1, Shown DEF Loading, InObjects, ObjNo
  <2>4. QED BY <1>1, <2>1, <2>2, <2>3, Shown DEF Loading
<1>3. CASE Open \/ AddMember \/ Close \/ List
  <2>1. slots' = slots /\ pc \in {"ar", "append", "list"} /\ pc' \in {"ar", "append", "list"}
    BY <1>3 DEF Open, AddMember, Close, List
  <2>2. QED BY <1>1, <2>1 DEF Loading
<1>4. QED
  BY <1>1, <1>2, <1>3, ListEndsLoads, LoadLoads, LoadEndsLoads, LibrariesDoneLoads, AddFileLoads
  DEF Next

\* However often libraries and objects are given to it, the linker has each of their
\* objects whole in the slot of its place, as long as there are slots: for all files,
\* any number of members and of slots, and any width of a size (ld.c 47-102).
THEOREM SlotsAreFilled == Spec => []LoadsInOrder
<1>1. Init => Loading
  <2>1. SUFFICES ASSUME Init PROVE Loading OBVIOUS
  <2>2. slots = <<>> /\ pc = "ar" BY <2>1 DEF Init
  <2>3. QED BY <2>2 DEF Loading
<1>2. Spec => []Loading BY <1>1, Invariant, NextLoads, PTL DEF Spec
<1>3. IInv /\ Loading => LoadsInOrder
  <2>1. SUFFICES ASSUME IInv, Loading, Loaded, AllFit(Len(Put)) PROVE LoadsInOrder
    BY DEF LoadsInOrder
  <2>2. InObjects /\ left = 0 BY <2>1 DEF Loading, Loaded
  <2>3. job.libs \in Nat /\ Len(job.objs) \in Nat
    BY <2>1, JobTyped, ArchiveAssumption DEF IInv, TypeOK
  <2>4. ObjNo = Len(job.objs) BY <2>2, <2>3 DEF ObjNo
  <2>5. At(job.libs, ObjNo) = Offered BY <2>4 DEF At, Offered
  <2>6. QED
    BY <2>2, <2>4, <2>5 DEF InObjects, LoadsInOrder, PassesHold, PassHolds, ObjsHold, Filled, At
<1>4. QED BY <1>2, <1>3, Invariant, PTL
=============================================================================
