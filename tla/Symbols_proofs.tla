--------------------------- MODULE Symbols_proofs ---------------------------
(***************************************************************************)
(* The two ends of the symbol table and of the list of names never meet,   *)
(* and no name or signature is written over another, for every size of     *)
(* both, every length of names and every sequence of declarations and      *)
(* headers.  The invariant is TypeOK /\ TablesApart itself; the work is in *)
(* what addglob(), addloc() and signature() leave of a table               *)
(* (AddglobApart, AddlocApart, SignatureApart).                            *)
(*                                                                         *)
(* What the lookups find is what C's scopes say.  That needs more of the   *)
(* table: no two globals of one name (Tabled), every global the program    *)
(* declared under its name (Knows), every function with the types it was   *)
(* first declared with (Signs), and the locals in the order of their       *)
(* declarations from the top down (Holds).                                 *)
(***************************************************************************)
EXTENDS Symbols, WellFoundedInduction, SequenceTheorems, TLAPS

Good(u) == u \in TableType /\ Apart(u) /\ SigsApart(u)
-----------------------------------------------------------------------------
(* The lookups. *)

Below == {p \in Nat \X Nat : p[1] < p[2]}
LEMMA BelowWellFounded == IsWellFoundedOn(Below, Nat)
BY NatLessThanWellFounded DEF OpToRel, Below

\* A set of numbers that is not empty has a first one, which First chooses.
LEMMA FirstIsIn ==
    ASSUME NEW S \in SUBSET Nat, S # {}
    PROVE  First(S) \in S /\ \A j \in S : First(S) <= j
<1>1. PICK i \in S : \A j \in S : ~(<<j, i>> \in Below)
  BY BelowWellFounded, WFMin
<1>2. \A j \in S : i <= j
  <2>1. TAKE j \in S
  <2>2. i \in Nat /\ j \in Nat OBVIOUS
  <2>3. ~(<<j, i>> \in Below) BY <1>1
  <2>4. ~(j < i) BY <2>2, <2>3 DEF Below
  <2>5. QED BY <2>2, <2>4
<1>3. QED BY <1>2 DEF First

\* What findglob() finds is a global of that name.
LEMMA FindglobFinds ==
    ASSUME NEW u \in TableType, NEW s, findglob(u, s) # 0
    PROVE  /\ findglob(u, s) \in Globals(u)
           /\ u.ent[findglob(u, s)].name = s
<1> DEFINE S == {i \in Globals(u) : /\ u.ent[i].type # "macro"
                                    /\ u.ent[i].stcls # "member"
                                    /\ u.ent[i].name = s}
<1>1. findglob(u, s) = First(S) BY DEF findglob
<1>2. S # {} BY <1>1 DEF First
<1>3. S \in SUBSET Nat BY DEF Globals, TableType
<1>4. First(S) \in S BY <1>2, <1>3, FirstIsIn
<1>5. QED BY <1>1, <1>4
-----------------------------------------------------------------------------
(* The operators, field by field. *)

LEMMA FatalGood == ASSUME NEW u, Good(u) PROVE Good(fatal(u))
<1>1. fatal(u) \in TableType BY DEF Good, fatal, TableType
<1>2. Apart(fatal(u)) BY DEF Good, fatal, TableType, Apart, Globals, Locals
<1>3. SigsApart(fatal(u))
  <2>1. fatal(u).ent = u.ent /\ fatal(u).nbot = u.nbot /\ fatal(u).globs = u.globs
    BY DEF Good, fatal, TableType
  <2>2. QED BY <2>1 DEF Good, SigsApart, Globals
<1>4. QED BY <1>1, <1>2, <1>3 DEF Good

\* The fields of a table, and of its entries.
LEMMA Fields ==
    ASSUME NEW u \in TableType
    PROVE  /\ u.globs \in 0 .. NSYMBOLS /\ u.locs \in 0 .. NSYMBOLS
           /\ u.nbot \in 0 .. POOLSIZE /\ u.ntop \in 0 .. POOLSIZE
           /\ u.globs \in Nat /\ u.locs \in Nat /\ u.nbot \in Nat /\ u.ntop \in Nat
           /\ NSYMBOLS \in Nat \ {0} /\ POOLSIZE \in Nat
           /\ u.ent \in [0 .. NSYMBOLS - 1 -> EntryType]
<1>1. /\ u.globs \in 0 .. NSYMBOLS /\ u.locs \in 0 .. NSYMBOLS
      /\ u.nbot \in 0 .. POOLSIZE /\ u.ntop \in 0 .. POOLSIZE
      /\ u.ent \in [0 .. NSYMBOLS - 1 -> EntryType]
  BY DEF TableType
<1>2. QED BY <1>1, SizesAssumption

LEMMA WidthOf == ASSUME NEW e \in EntryType PROVE Width[e.name] \in Nat \ {0} /\ e.at \in Nat
<1>1. e.name \in DOMAIN Width /\ e.at \in Nat BY DEF EntryType
<1>2. QED BY <1>1, NamesAssumption

LEMMA EndOf == ASSUME NEW e \in EntryType PROVE End(e) \in Nat /\ e.at \in Nat
BY WidthOf DEF End

LEMMA SigEndOf == ASSUME NEW e \in EntryType PROVE SigAt(e) \in Nat /\ SigEnd(e) \in Nat
<1>1. e.sig \in BOOLEAN \X Seq(Types) \X Nat BY DEF EntryType
<1>2. e.sig[2] \in Seq(Types) /\ e.sig[3] \in Nat BY <1>1
<1>3. SigBytes(e.sig[2]) \in Nat BY <1>2, LenProperties DEF SigBytes
<1>4. QED BY <1>2, <1>3 DEF SigAt, SigEnd

LEMMA EntryTyped ==
    ASSUME NEW e \in EntryType, NEW k \in Nat
    PROVE  /\ [e EXCEPT !.at = k] \in EntryType
           /\ [e EXCEPT !.at = k].name = e.name /\ [e EXCEPT !.at = k].at = k
BY DEF EntryType

\* The table with one entry more at the bottom.
LEMMA OneMoreGlobal ==
    ASSUME NEW u, Good(u), NEW e \in EntryType, e.at = u.nbot,
           u.globs < u.locs, u.nbot + Width[e.name] < u.ntop,
           NEW r, r \in TableType,
           r.globs = u.globs + 1, r.locs = u.locs, r.ntop = u.ntop,
           r.nbot = u.nbot + Width[e.name], r.ent = [u.ent EXCEPT ![u.globs] = e]
    PROVE  Apart(r)
<1>1. /\ u.globs \in Nat /\ u.locs \in 0 .. NSYMBOLS /\ u.nbot \in Nat /\ u.ntop \in 0 .. POOLSIZE
      /\ NSYMBOLS \in Nat /\ POOLSIZE \in Nat /\ Width[e.name] \in Nat \ {0}
      /\ u.ent \in [0 .. NSYMBOLS - 1 -> EntryType]
  BY Fields, WidthOf DEF Good
<1>2. u.globs \in 0 .. NSYMBOLS - 1 BY <1>1
<1>3. r.ent[u.globs] = e BY <1>1, <1>2
<1>4. \A i \in 0 .. NSYMBOLS - 1 : i # u.globs => r.ent[i] = u.ent[i] BY <1>1, <1>2
<1>5. \A i \in Globals(u) : i # u.globs /\ i \in 0 .. NSYMBOLS - 1 /\ r.ent[i] = u.ent[i]
  BY <1>1, <1>4 DEF Globals
<1>6. \A i \in Locals(u) : i # u.globs /\ i \in 0 .. NSYMBOLS - 1 /\ r.ent[i] = u.ent[i]
  BY <1>1, <1>4 DEF Locals
<1>7. \A i \in 0 .. NSYMBOLS - 1 : End(u.ent[i]) \in Nat /\ u.ent[i].at \in Nat
  BY <1>1, EndOf
<1>8. End(e) = u.nbot + Width[e.name] BY DEF End
<1>9. Globals(r) = Globals(u) \cup {u.globs} /\ Locals(r) = Locals(u) BY <1>1 DEF Globals, Locals
<1>10. \A i \in Globals(u) : End(u.ent[i]) <= u.nbot BY DEF Good, Apart
<1>11. \A i \in Globals(r) : End(r.ent[i]) <= r.nbot
  <2>1. TAKE i \in Globals(r)
  <2>2. CASE i = u.globs BY <1>1, <1>3, <1>8, <2>2
  <2>3. CASE i \in Globals(u) BY <1>1, <1>5, <1>7, <1>10, <2>3
  <2>4. QED BY <1>9, <2>2, <2>3
<1>12. \A i, j \in Globals(r) : i # j => Disjoint(r.ent[i], r.ent[j])
  <2>1. TAKE i, j \in Globals(r)
  <2>2. HAVE i # j
  <2>3. CASE i = u.globs /\ j \in Globals(u) BY <1>1, <1>3, <1>5, <1>10, <2>3 DEF Disjoint
  <2>4. CASE j = u.globs /\ i \in Globals(u) BY <1>1, <1>3, <1>5, <1>10, <2>4 DEF Disjoint
  <2>5. CASE i \in Globals(u) /\ j \in Globals(u) BY <1>5, <2>2, <2>5 DEF Good, Apart
  <2>6. QED BY <1>9, <2>2, <2>3, <2>4, <2>5
<1>13. \A i \in Locals(r) : r.ntop <= r.ent[i].at /\ End(r.ent[i]) <= POOLSIZE
  BY <1>6, <1>9 DEF Good, Apart
<1>14. \A i, j \in Locals(r) : i # j => Disjoint(r.ent[i], r.ent[j])
  BY <1>6, <1>9 DEF Good, Apart
<1>15. r.globs <= r.locs /\ r.nbot <= r.ntop BY <1>1
<1>16. QED BY <1>11, <1>12, <1>13, <1>14, <1>15 DEF Apart

\* The table with one entry more at the top.
LEMMA OneMoreLocal ==
    ASSUME NEW u, Good(u), NEW e \in EntryType, e.at = u.ntop - Width[e.name],
           u.locs - 1 > u.globs, u.nbot + Width[e.name] < u.ntop,
           NEW r, r \in TableType,
           r.globs = u.globs, r.locs = u.locs - 1, r.nbot = u.nbot,
           r.ntop = u.ntop - Width[e.name], r.ent = [u.ent EXCEPT ![u.locs - 1] = e]
    PROVE  Apart(r)
<1>1. /\ u.globs \in Nat /\ u.locs \in 0 .. NSYMBOLS /\ u.nbot \in Nat /\ u.ntop \in 0 .. POOLSIZE
      /\ NSYMBOLS \in Nat /\ POOLSIZE \in Nat /\ Width[e.name] \in Nat \ {0}
      /\ u.ent \in [0 .. NSYMBOLS - 1 -> EntryType]
  BY Fields, WidthOf DEF Good
<1>2. u.locs - 1 \in 0 .. NSYMBOLS - 1 BY <1>1
<1>3. r.ent[u.locs - 1] = e BY <1>1, <1>2
<1>4. \A i \in 0 .. NSYMBOLS - 1 : i # u.locs - 1 => r.ent[i] = u.ent[i] BY <1>1, <1>2
<1>5. \A i \in Globals(u) : i # u.locs - 1 /\ i \in 0 .. NSYMBOLS - 1 /\ r.ent[i] = u.ent[i]
  BY <1>1, <1>4 DEF Globals
<1>6. \A i \in Locals(u) : i # u.locs - 1 /\ i \in 0 .. NSYMBOLS - 1 /\ r.ent[i] = u.ent[i]
  BY <1>1, <1>4 DEF Locals
<1>7. \A i \in 0 .. NSYMBOLS - 1 : End(u.ent[i]) \in Nat /\ u.ent[i].at \in Nat
  BY <1>1, EndOf
<1>8. End(e) = u.ntop BY <1>1 DEF End
<1>9. Locals(r) = Locals(u) \cup {u.locs - 1} /\ Globals(r) = Globals(u) BY <1>1 DEF Globals, Locals
<1>10. \A i \in Locals(u) : u.ntop <= u.ent[i].at /\ End(u.ent[i]) <= POOLSIZE BY DEF Good, Apart
<1>11. \A i \in Locals(r) : r.ntop <= r.ent[i].at /\ End(r.ent[i]) <= POOLSIZE
  <2>1. TAKE i \in Locals(r)
  <2>2. CASE i = u.locs - 1 BY <1>1, <1>3, <1>8, <2>2
  <2>3. CASE i \in Locals(u)
    <3>1. u.ntop <= u.ent[i].at /\ End(u.ent[i]) <= POOLSIZE BY <1>10, <2>3
    <3>2. r.ent[i] = u.ent[i] /\ u.ent[i].at \in Nat BY <1>6, <1>7, <2>3
    <3>3. r.ntop <= u.ntop /\ u.ntop \in Nat /\ r.ntop \in Int BY <1>1
    <3>4. r.ntop <= u.ent[i].at BY <3>1, <3>2, <3>3
    <3>5. QED BY <3>1, <3>2, <3>4
  <2>4. QED BY <1>9, <2>2, <2>3
<1>12. \A i, j \in Locals(r) : i # j => Disjoint(r.ent[i], r.ent[j])
  <2>1. TAKE i, j \in Locals(r)
  <2>2. HAVE i # j
  <2>3. CASE i = u.locs - 1 /\ j \in Locals(u) BY <1>3, <1>6, <1>8, <1>10, <2>3 DEF Disjoint
  <2>4. CASE j = u.locs - 1 /\ i \in Locals(u) BY <1>3, <1>6, <1>8, <1>10, <2>4 DEF Disjoint
  <2>5. CASE i \in Locals(u) /\ j \in Locals(u) BY <1>6, <2>2, <2>5 DEF Good, Apart
  <2>6. QED BY <1>9, <2>2, <2>3, <2>4, <2>5
<1>13. \A i \in Globals(r) : End(r.ent[i]) <= r.nbot BY <1>5, <1>9 DEF Good, Apart
<1>14. \A i, j \in Globals(r) : i # j => Disjoint(r.ent[i], r.ent[j])
  BY <1>5, <1>9 DEF Good, Apart
<1>15. r.globs <= r.locs /\ r.nbot <= r.ntop BY <1>1
<1>16. QED BY <1>11, <1>12, <1>13, <1>14, <1>15 DEF Apart

\* The table with another entry in the place of one of the same name.
LEMMA SameNames ==
    ASSUME NEW u, Good(u), NEW r, r \in TableType,
           r.globs = u.globs, r.locs = u.locs, r.ntop = u.ntop,
           u.nbot <= r.nbot, r.nbot <= r.ntop,
           \A i \in 0 .. NSYMBOLS - 1 :
              r.ent[i].name = u.ent[i].name /\ r.ent[i].at = u.ent[i].at
    PROVE  Apart(r)
<1>1. /\ u.globs \in Nat /\ u.locs \in 0 .. NSYMBOLS /\ u.nbot \in Nat /\ u.ntop \in 0 .. POOLSIZE
      /\ r.nbot \in Nat /\ NSYMBOLS \in Nat /\ u.ent \in [0 .. NSYMBOLS - 1 -> EntryType]
      /\ u.globs <= u.locs
  BY Fields DEF Good, Apart
<1>2. Globals(r) = Globals(u) /\ Locals(r) = Locals(u) BY DEF Globals, Locals
<1>3. Globals(u) \subseteq 0 .. NSYMBOLS - 1 /\ Locals(u) \subseteq 0 .. NSYMBOLS - 1
  BY <1>1 DEF Globals, Locals
<1>4. \A i \in 0 .. NSYMBOLS - 1 : End(r.ent[i]) = End(u.ent[i]) /\ End(u.ent[i]) \in Nat
  BY <1>1, EndOf DEF End
<1>5. \A i \in Globals(u) : End(r.ent[i]) <= r.nbot
  <2>1. TAKE i \in Globals(u)
  <2>2. End(u.ent[i]) <= u.nbot BY DEF Good, Apart
  <2>3. i \in 0 .. NSYMBOLS - 1 BY <1>3
  <2>4. QED BY <1>1, <1>4, <2>2, <2>3
<1>6. \A i \in Locals(u) : r.ntop <= r.ent[i].at /\ End(r.ent[i]) <= POOLSIZE
  BY <1>3, <1>4 DEF Good, Apart
<1>7. \A i, j \in 0 .. NSYMBOLS - 1 : Disjoint(r.ent[i], r.ent[j]) <=> Disjoint(u.ent[i], u.ent[j])
  BY <1>4 DEF Disjoint
<1>8. /\ \A i, j \in Globals(u) : i # j => Disjoint(r.ent[i], r.ent[j])
      /\ \A i, j \in Locals(u) : i # j => Disjoint(r.ent[i], r.ent[j])
  BY <1>3, <1>7 DEF Good, Apart
<1>9. r.globs <= r.locs /\ r.nbot <= r.ntop BY <1>1
<1>10. QED BY <1>2, <1>5, <1>6, <1>8, <1>9 DEF Apart

LEMMA NoneSigned == ~NoSig[1]
BY DEF NoSig

\* What the signatures of a table are apart from: an entry that has the name and
\* the signature it had in u.
Kept(u, r, i) ==
    /\ i \in Globals(u) /\ r.ent[i].name = u.ent[i].name /\ r.ent[i].at = u.ent[i].at
    /\ r.ent[i].sig[1] => u.ent[i].sig = r.ent[i].sig
LEMMA KeptEnds ==
    ASSUME NEW u, Good(u), NEW r \in TableType, NEW i, Kept(u, r, i)
    PROVE  /\ r.ent[i].at = u.ent[i].at /\ End(r.ent[i]) = End(u.ent[i])
           /\ End(u.ent[i]) \in Nat /\ u.ent[i].at \in Nat /\ End(u.ent[i]) <= u.nbot
           /\ r.ent[i].sig[1] => /\ u.ent[i].sig[1]
                                 /\ SigAt(r.ent[i]) = SigAt(u.ent[i]) /\ SigEnd(r.ent[i]) = SigEnd(u.ent[i])
                                 /\ SigAt(u.ent[i]) \in Nat /\ SigEnd(u.ent[i]) \in Nat
                                 /\ SigEnd(u.ent[i]) <= u.nbot
<1>1. /\ u.globs \in 0 .. NSYMBOLS /\ NSYMBOLS \in Nat /\ u.ent \in [0 .. NSYMBOLS - 1 -> EntryType]
  BY Fields DEF Good
<1>2. i \in Globals(u) /\ i \in 0 .. NSYMBOLS - 1 BY <1>1 DEF Kept, Globals
<1>3. u.ent[i] \in EntryType BY <1>1, <1>2
<1>4. End(u.ent[i]) \in Nat /\ u.ent[i].at \in Nat /\ End(u.ent[i]) <= u.nbot
  BY <1>2, <1>3, EndOf DEF Good, Apart
<1>5. r.ent[i].at = u.ent[i].at /\ End(r.ent[i]) = End(u.ent[i]) BY DEF Kept, End
<1>6. ASSUME r.ent[i].sig[1]
      PROVE  /\ u.ent[i].sig[1]
             /\ SigAt(r.ent[i]) = SigAt(u.ent[i]) /\ SigEnd(r.ent[i]) = SigEnd(u.ent[i])
             /\ SigAt(u.ent[i]) \in Nat /\ SigEnd(u.ent[i]) \in Nat
             /\ SigEnd(u.ent[i]) <= u.nbot
  <2>1. u.ent[i].sig = r.ent[i].sig BY <1>6 DEF Kept
  <2>2. u.ent[i].sig[1] /\ SigEnd(u.ent[i]) <= u.nbot BY <1>2, <1>6, <2>1 DEF Good, SigsApart
  <2>3. SigAt(u.ent[i]) \in Nat /\ SigEnd(u.ent[i]) \in Nat BY <1>3, SigEndOf
  <2>4. SigAt(r.ent[i]) = SigAt(u.ent[i]) /\ SigEnd(r.ent[i]) = SigEnd(u.ent[i])
    BY <2>1 DEF SigAt, SigEnd
  <2>5. QED BY <2>2, <2>3, <2>4
<1>7. QED BY <1>4, <1>5, <1>6

\* Two entries that are as they were are apart as they were.
LEMMA KeptApart ==
    ASSUME NEW u, Good(u), NEW r \in TableType, NEW i, NEW j, Kept(u, r, i), Kept(u, r, j),
           r.ent[i].sig[1]
    PROVE  /\ OffName(r.ent[i], r.ent[j])
           /\ i # j /\ r.ent[j].sig[1] => OffSig(r.ent[i], r.ent[j])
<1>1. /\ r.ent[j].at = u.ent[j].at /\ End(r.ent[j]) = End(u.ent[j])
      /\ r.ent[j].sig[1] => /\ u.ent[j].sig[1]
                            /\ SigAt(r.ent[j]) = SigAt(u.ent[j]) /\ SigEnd(r.ent[j]) = SigEnd(u.ent[j])
  BY KeptEnds
<1>2. /\ u.ent[i].sig[1]
      /\ SigAt(r.ent[i]) = SigAt(u.ent[i]) /\ SigEnd(r.ent[i]) = SigEnd(u.ent[i])
  BY KeptEnds
<1>3. i \in Globals(u) /\ j \in Globals(u) BY DEF Kept
<1>4. /\ OffName(u.ent[i], u.ent[j])
      /\ i # j /\ u.ent[j].sig[1] => OffSig(u.ent[i], u.ent[j])
  BY <1>2, <1>3 DEF Good, SigsApart
<1>5. QED BY <1>1, <1>2, <1>4 DEF OffName, OffSig

LEMMA SigsKept ==
    ASSUME NEW u, Good(u), NEW r \in TableType, u.nbot <= r.nbot, \A i \in Globals(r) : Kept(u, r, i)
    PROVE  SigsApart(r)
<1>1. u.nbot \in Nat /\ r.nbot \in Nat BY Fields DEF Good
<1>2. ASSUME NEW i \in Globals(r), r.ent[i].sig[1]
      PROVE  /\ SigEnd(r.ent[i]) <= r.nbot
             /\ \A j \in Globals(r) : /\ OffName(r.ent[i], r.ent[j])
                                      /\ i # j /\ r.ent[j].sig[1] => OffSig(r.ent[i], r.ent[j])
  <2>1. SigEnd(r.ent[i]) \in Nat /\ SigEnd(r.ent[i]) <= u.nbot BY <1>2, KeptEnds
  <2>2. SigEnd(r.ent[i]) <= r.nbot BY <1>1, <2>1
  <2>3. QED BY <1>2, <2>2, KeptApart
<1>3. QED BY <1>2 DEF SigsApart

\* A name more at the bottom: behind every signature.
LEMMA SigsNewName ==
    ASSUME NEW u, Good(u), NEW e \in EntryType, e.at = u.nbot, e.sig = NoSig,
           NEW r \in TableType, NEW k, r.ent[k] = e, u.nbot <= r.nbot,
           \A i \in Globals(r) : i = k \/ Kept(u, r, i)
    PROVE  SigsApart(r)
<1>1. u.nbot \in Nat /\ r.nbot \in Nat BY Fields DEF Good
<1>2. ~r.ent[k].sig[1]
  <2>1. r.ent[k].sig = NoSig OBVIOUS
  <2>2. QED BY <2>1, NoneSigned
<1>3. ASSUME NEW i \in Globals(r), r.ent[i].sig[1]
      PROVE  /\ SigEnd(r.ent[i]) <= r.nbot
             /\ \A j \in Globals(r) : /\ OffName(r.ent[i], r.ent[j])
                                      /\ i # j /\ r.ent[j].sig[1] => OffSig(r.ent[i], r.ent[j])
  <2>1. Kept(u, r, i) BY <1>2, <1>3
  <2>2. SigEnd(r.ent[i]) \in Nat /\ SigEnd(r.ent[i]) <= u.nbot BY <1>3, <2>1, KeptEnds
  <2>3. SigEnd(r.ent[i]) <= r.nbot BY <1>1, <2>2
  <2>4. ASSUME NEW j \in Globals(r)
        PROVE  /\ OffName(r.ent[i], r.ent[j])
               /\ i # j /\ r.ent[j].sig[1] => OffSig(r.ent[i], r.ent[j])
    <3>1. CASE j = k
      <4>1. OffName(r.ent[i], r.ent[k]) BY <2>2 DEF OffName
      <4>2. QED BY <1>2, <3>1, <4>1
    <3>2. CASE j # k BY <1>3, <2>1, <2>4, <3>2, KeptApart
    <3>3. QED BY <3>1, <3>2
  <2>5. QED BY <2>3, <2>4
<1>4. QED BY <1>3 DEF SigsApart

\* A signature more: behind every name and every signature.
LEMMA SigsNewSig ==
    ASSUME NEW u, Good(u), NEW types \in Seq(Types),
           NEW r \in TableType, NEW k, r.ent[k].sig = <<TRUE, types, u.nbot>>,
           k \in Globals(r) => k \in Globals(u),
           r.ent[k].name = u.ent[k].name, r.ent[k].at = u.ent[k].at, r.nbot = u.nbot + SigBytes(types),
           \A i \in Globals(r) : i = k \/ Kept(u, r, i)
    PROVE  SigsApart(r)
<1>1. u.nbot \in Nat /\ r.nbot \in Nat BY Fields DEF Good
<1>2. SigBytes(types) \in Nat BY LenProperties DEF SigBytes
<1>3. SigAt(r.ent[k]) = u.nbot /\ SigEnd(r.ent[k]) = r.nbot BY DEF SigAt, SigEnd
<1>4. ASSUME NEW j \in Globals(r) PROVE End(r.ent[j]) <= u.nbot
  <2>1. CASE j = k
    <3>1. End(u.ent[k]) <= u.nbot BY <1>4, <2>1 DEF Good, Apart
    <3>2. End(r.ent[k]) = End(u.ent[k]) BY DEF End
    <3>3. QED BY <2>1, <3>1, <3>2
  <2>2. CASE j # k
    <3>1. Kept(u, r, j) BY <1>4, <2>2
    <3>2. QED BY <3>1, KeptEnds
  <2>3. QED BY <2>1, <2>2
<1>5. ASSUME NEW j \in Globals(r), j # k, r.ent[j].sig[1] PROVE SigEnd(r.ent[j]) \in Nat /\ SigEnd(r.ent[j]) <= u.nbot
  <2>1. Kept(u, r, j) BY <1>5
  <2>2. QED BY <1>5, <2>1, KeptEnds
<1>6. ASSUME NEW i \in Globals(r), r.ent[i].sig[1], NEW j \in Globals(r)
      PROVE  /\ SigEnd(r.ent[i]) <= r.nbot /\ OffName(r.ent[i], r.ent[j])
             /\ i # j /\ r.ent[j].sig[1] => OffSig(r.ent[i], r.ent[j])
  <2>1. CASE i = k
    <3>1. SigEnd(r.ent[i]) <= r.nbot BY <1>1, <1>3, <2>1
    <3>2. OffName(r.ent[i], r.ent[j]) BY <1>3, <1>4, <2>1 DEF OffName
    <3>3. i # j /\ r.ent[j].sig[1] => OffSig(r.ent[i], r.ent[j]) BY <1>3, <1>5, <2>1 DEF OffSig
    <3>4. QED BY <3>1, <3>2, <3>3
  <2>2. CASE i # k
    <3>1. Kept(u, r, i) BY <1>6, <2>2
    <3>2. SigEnd(r.ent[i]) \in Nat /\ SigEnd(r.ent[i]) <= u.nbot BY <1>5, <1>6, <2>2
    <3>3. SigEnd(r.ent[i]) <= r.nbot BY <1>1, <1>2, <3>2
    <3>4. CASE j # k
      <4>1. Kept(u, r, j) BY <3>4
      <4>2. QED BY <1>6, <3>1, <3>3, <4>1, KeptApart
    <3>5. CASE j = k
      <4>1. OffSig(r.ent[i], r.ent[j]) BY <1>3, <3>2, <3>5 DEF OffSig
      <4>2. k \in Globals(u) BY <1>6, <3>5
      <4>3. i \in Globals(u) /\ u.ent[i].sig = r.ent[i].sig BY <1>6, <3>1 DEF Kept
      <4>4. OffName(u.ent[i], u.ent[k]) BY <1>6, <4>2, <4>3 DEF Good, SigsApart
      <4>5. OffName(r.ent[i], r.ent[k]) BY <4>3, <4>4 DEF OffName, SigEnd, SigAt, End
      <4>6. QED BY <3>3, <3>5, <4>1, <4>5
    <3>6. QED BY <3>4, <3>5
  <2>3. QED BY <2>1, <2>2
<1>7. QED BY <1>6 DEF SigsApart

LEMMA UpdateTyped ==
    ASSUME NEW D, NEW S, NEW f \in [D -> S], NEW k, NEW v \in S
    PROVE  [f EXCEPT ![k] = v] \in [D -> S]
OBVIOUS

-----------------------------------------------------------------------------
(* addglob(), addloc(), clrlocs() and signature(). *)

\* A name that is not a global yet takes an entry and its bytes, or ends the compiler.
AddedGlobal(u, e, r) ==
    /\ u.globs < u.locs /\ u.nbot + Width[e.name] < u.ntop
    /\ r.globs = u.globs + 1 /\ r.locs = u.locs /\ r.ntop = u.ntop /\ r.nbot = u.nbot + Width[e.name]
    /\ r.ent = [u.ent EXCEPT ![u.globs] = [e EXCEPT !.at = u.nbot]]
    /\ r.y = u.globs /\ r.err = FALSE /\ r.fatal = u.fatal
    /\ r \in TableType
LEMMA AddglobNewIs ==
    ASSUME NEW u, Good(u), NEW e \in EntryType, findglob(u, e.name) = 0
    PROVE  addglob(u, e) = fatal(u) \/ AddedGlobal(u, e, addglob(u, e))
<1> DEFINE W == Width[e.name]
           named == [e EXCEPT !.at = u.nbot]
<1>1. /\ u \in TableType /\ u.globs \in Nat /\ u.locs \in Nat /\ u.nbot \in Nat /\ u.ntop \in Nat
      /\ u.locs <= NSYMBOLS /\ u.ntop <= POOLSIZE /\ NSYMBOLS \in Nat /\ POOLSIZE \in Nat
      /\ W \in Nat \ {0}
  BY Fields, WidthOf DEF Good
<1>2. named \in EntryType /\ named.name = e.name /\ named.at = u.nbot BY <1>1, EntryTyped
<1>3. CASE newglob(u).fatal \/ galloc(newglob(u), W).fatal
  <2>1. addglob(u, e) = fatal(u) BY <1>3 DEF addglob
  <2>2. QED BY <2>1
<1>4. CASE ~(newglob(u).fatal \/ galloc(newglob(u), W).fatal)
  <2>1. u.globs < u.locs
    <3>1. ~(u.globs >= u.locs) BY <1>1, <1>4 DEF newglob, fatal, TableType
    <3>2. QED BY <1>1, <3>1
  <2>2. newglob(u) = [u EXCEPT !.globs = @ + 1] BY <1>1, <2>1 DEF newglob
  <2>3. newglob(u).nbot = u.nbot /\ newglob(u).ntop = u.ntop /\ newglob(u).globs = u.globs + 1
    BY <1>1, <2>2 DEF TableType
  <2>4. u.nbot + W < u.ntop
    <3>1. ~(u.nbot + W >= u.ntop) BY <1>1, <1>4, <2>2, <2>3 DEF galloc, fatal, TableType
    <3>2. QED BY <1>1, <3>1
  <2>5. galloc(newglob(u), W) = [u EXCEPT !.globs = @ + 1, !.nbot = @ + W]
    BY <1>1, <2>2, <2>3, <2>4 DEF galloc, TableType
  <2> DEFINE r == [[u EXCEPT !.globs = @ + 1, !.nbot = @ + W] EXCEPT
                      !.ent[u.globs] = named, !.y = u.globs, !.err = FALSE]
  <2>6. addglob(u, e) = r BY <1>4, <2>5 DEF addglob
  <2>7. /\ r.globs = u.globs + 1 /\ r.locs = u.locs /\ r.ntop = u.ntop /\ r.nbot = u.nbot + W
        /\ r.ent = [u.ent EXCEPT ![u.globs] = named] /\ r.y = u.globs
        /\ r.err = FALSE /\ r.fatal = u.fatal
    BY <1>1 DEF TableType
  <2>8. r \in TableType
    <3>1. r.globs \in 0 .. NSYMBOLS /\ r.nbot \in 0 .. POOLSIZE /\ r.y \in 0 .. NSYMBOLS - 1
      BY <1>1, <2>1, <2>4, <2>7
    <3>2. r.ent \in [0 .. NSYMBOLS - 1 -> EntryType]
      <4> HIDE DEF named, r
      <4>1. QED BY <1>1, <1>2, <2>7, Fields, UpdateTyped
    <3> HIDE DEF named
    <3>3. QED BY <1>1, <3>1, <3>2, <2>7 DEF TableType
  <2>9. AddedGlobal(u, e, r)
    <3> HIDE DEF r
    <3>1. QED BY <2>1, <2>4, <2>7, <2>8 DEF AddedGlobal
  <2>10. QED BY <2>6, <2>9
<1>5. QED BY <1>3, <1>4

LEMMA AddglobNew ==
    ASSUME NEW u, Good(u), NEW e \in EntryType, e.sig = NoSig, findglob(u, e.name) = 0
    PROVE  Good(addglob(u, e))
<1>1. PICK r : r = addglob(u, e) OBVIOUS
<1>2. CASE r = fatal(u) BY <1>1, <1>2, FatalGood
<1>3. CASE r # fatal(u)
  <2> DEFINE named == [e EXCEPT !.at = u.nbot]
  <2>1. /\ u.globs < u.locs /\ u.nbot + Width[e.name] < u.ntop
        /\ r.globs = u.globs + 1 /\ r.locs = u.locs /\ r.ntop = u.ntop
        /\ r.nbot = u.nbot + Width[e.name] /\ r.ent = [u.ent EXCEPT ![u.globs] = named]
        /\ r \in TableType
    BY <1>1, <1>3, AddglobNewIs DEF AddedGlobal
  <2>2. u.nbot \in Nat BY Fields DEF Good
  <2>3. named \in EntryType /\ named.name = e.name /\ named.at = u.nbot /\ named.sig = e.sig
    BY <2>2, EntryTyped DEF EntryType
  <2> HIDE DEF named
  <2>4. Apart(r) BY <2>1, <2>3, OneMoreGlobal
  <2>5. SigsApart(r)
    <3>1. /\ u.globs \in Nat /\ u.locs \in 0 .. NSYMBOLS /\ Width[e.name] \in Nat /\ u \in TableType
          /\ u.ent \in [0 .. NSYMBOLS - 1 -> EntryType] /\ NSYMBOLS \in Nat
      BY Fields, WidthOf DEF Good
    <3>2. u.globs \in 0 .. NSYMBOLS - 1 BY <2>1, <3>1
    <3>3. r.ent[u.globs] = named BY <2>1, <3>1, <3>2
    <3>4. u.nbot <= r.nbot BY <2>1, <2>2, <3>1
    <3>5. ASSUME NEW i \in Globals(r), i # u.globs PROVE Kept(u, r, i)
      <4>1. i \in Globals(u) /\ i \in 0 .. NSYMBOLS - 1 BY <2>1, <3>1, <3>5 DEF Globals
      <4>2. r.ent[i] = u.ent[i] BY <2>1, <3>1, <3>5, <4>1
      <4>3. QED BY <4>1, <4>2 DEF Kept
    <3>6. \A i \in Globals(r) : i = u.globs \/ Kept(u, r, i) BY <3>5
    <3>7. r \in TableType BY <2>1
    <3>8. named.sig = NoSig BY <2>3
    <3>9. QED BY <2>3, <3>3, <3>4, <3>6, <3>7, <3>8, SigsNewName
  <2>6. QED BY <1>1, <2>1, <2>4, <2>5 DEF Good
<1>4. QED BY <1>2, <1>3

\* A name that is one keeps its entry and its bytes.
ReplacedGlobal(u, e, r) ==
    /\ r.globs = u.globs /\ r.locs = u.locs /\ r.ntop = u.ntop /\ r.nbot = u.nbot
    /\ r.fatal = u.fatal /\ r.y = findglob(u, e.name) /\ r \in TableType
    /\ \E new \in EntryType :
          /\ r.ent = [u.ent EXCEPT ![findglob(u, e.name)] = new]
          /\ new.name = e.name /\ new.prim = e.prim /\ new.type = e.type
          /\ new.at = u.ent[findglob(u, e.name)].at
          /\ new.sig = IF u.ent[findglob(u, e.name)].type = "function"
                       THEN u.ent[findglob(u, e.name)].sig ELSE e.sig
    /\ ~r.err /\ u.ent[findglob(u, e.name)].type = "function" => e.type = "function"
LEMMA AddglobOldIs ==
    ASSUME NEW u, Good(u), NEW e \in EntryType, findglob(u, e.name) # 0
    PROVE  ReplacedGlobal(u, e, addglob(u, e))
<1> DEFINE old == findglob(u, e.name)
           was == u.ent[old]
           cls == Redeclared(was.stcls, e.stcls)
           new == [e EXCEPT !.stcls = cls, !.at = was.at,
                            !.sig = IF was.type = "function" THEN was.sig ELSE e.sig]
           wrong == \/ ~RedeclareOK(was.stcls, e.stcls)
                    \/ was.type = "function" /\ (was.prim # e.prim \/ was.type # e.type)
           r == [u EXCEPT !.ent[old] = new, !.y = old, !.err = wrong]
<1>1. u \in TableType /\ u.ent \in [0 .. NSYMBOLS - 1 -> EntryType] /\ u.nbot \in Nat /\ u.ntop \in Nat
      /\ u.globs \in 0 .. NSYMBOLS /\ u.nbot <= u.ntop /\ NSYMBOLS \in Nat
  BY Fields DEF Good, Apart
<1>2. old \in Globals(u) /\ was.name = e.name BY <1>1, FindglobFinds
<1>3. old \in 0 .. NSYMBOLS - 1 BY <1>1, <1>2 DEF Globals
<1>4. was \in EntryType BY <1>1, <1>3
<1>5. cls \in {"", "public", "extern", "static", "sproto", "auto"}
  BY <1>4 DEF Redeclared, EntryType
<1>6. /\ new \in EntryType /\ new.name = was.name /\ new.at = was.at
      /\ new.prim = e.prim /\ new.type = e.type
      /\ new.sig = IF was.type = "function" THEN was.sig ELSE e.sig
  <2> HIDE DEF cls, old, was
  <2>1. was \in EntryType /\ was.name = e.name BY <1>2, <1>4
  <2>2. QED BY <1>5, <2>1 DEF EntryType
<1>7. addglob(u, e) = r BY DEF addglob
<1>8. /\ r.globs = u.globs /\ r.locs = u.locs /\ r.ntop = u.ntop /\ r.nbot = u.nbot
      /\ r.ent = [u.ent EXCEPT ![old] = new] /\ r.y = old /\ r.err = wrong /\ r.fatal = u.fatal
  <2> HIDE DEF old, new, wrong
  <2>1. QED BY <1>1 DEF TableType
<1>9. wrong \in BOOLEAN OBVIOUS
<1>10. r \in TableType
  <2>1. r.ent \in [0 .. NSYMBOLS - 1 -> EntryType]
    <3> HIDE DEF old, was, cls, new, wrong, r
    <3>1. QED BY <1>1, <1>6, <1>8, UpdateTyped
  <2> HIDE DEF old, was, cls, new, wrong
  <2>2. QED BY <1>1, <1>3, <1>8, <1>9, <2>1 DEF TableType
<1>11. ~wrong /\ was.type = "function" => e.type = "function" OBVIOUS
<1>12. ReplacedGlobal(u, e, r)
  <2> HIDE DEF r, new, wrong
  <2>1. QED BY <1>2, <1>6, <1>8, <1>10, <1>11 DEF ReplacedGlobal
<1>13. QED BY <1>7, <1>12

LEMMA AddglobOld ==
    ASSUME NEW u, Good(u), NEW e \in EntryType, e.sig = NoSig, findglob(u, e.name) # 0
    PROVE  Good(addglob(u, e))
<1>1. PICK r : r = addglob(u, e) OBVIOUS
<1>2. PICK old : old = findglob(u, e.name) OBVIOUS
<1>3. ReplacedGlobal(u, e, r) BY <1>1, AddglobOldIs
<1>4. /\ u \in TableType /\ u.ent \in [0 .. NSYMBOLS - 1 -> EntryType] /\ u.nbot \in Nat
      /\ u.ntop \in Nat /\ u.nbot <= u.ntop /\ u.globs \in 0 .. NSYMBOLS /\ NSYMBOLS \in Nat
  BY Fields DEF Good, Apart
<1>5. old \in 0 .. NSYMBOLS - 1 /\ u.ent[old].name = e.name BY <1>2, <1>4, FindglobFinds DEF Globals
<1>6. PICK new \in EntryType :
         /\ r.ent = [u.ent EXCEPT ![old] = new] /\ new.name = e.name /\ new.at = u.ent[old].at
         /\ new.sig = IF u.ent[old].type = "function" THEN u.ent[old].sig ELSE e.sig
  BY <1>2, <1>3 DEF ReplacedGlobal
<1>7. \A i \in 0 .. NSYMBOLS - 1 : r.ent[i].name = u.ent[i].name /\ r.ent[i].at = u.ent[i].at
  BY <1>4, <1>5, <1>6
<1>8. /\ r.globs = u.globs /\ r.locs = u.locs /\ r.ntop = u.ntop /\ r.nbot = u.nbot
      /\ r \in TableType
  BY <1>3 DEF ReplacedGlobal
<1>9. Apart(r) BY <1>4, <1>7, <1>8, SameNames
<1>10. SigsApart(r)
  <2>1. ASSUME NEW i \in Globals(r) PROVE Kept(u, r, i)
    <3>1. i \in Globals(u) /\ i \in 0 .. NSYMBOLS - 1 BY <1>4, <1>8, <2>1 DEF Globals
    <3>2. r.ent[i].sig[1] => u.ent[i].sig = r.ent[i].sig
      <4>1. CASE i = old
        <5>1. r.ent[i] = new BY <1>4, <1>5, <1>6, <4>1
        <5>2. u.ent[old].type = "function" => r.ent[i].sig = u.ent[i].sig BY <1>6, <4>1, <5>1
        <5>3. u.ent[old].type # "function" => r.ent[i].sig = NoSig BY <1>6, <5>1
        <5>4. QED BY <5>2, <5>3, NoneSigned
      <4>2. CASE i # old BY <1>4, <1>6, <3>1, <4>2
      <4>3. QED BY <4>1, <4>2
    <3>3. QED BY <1>7, <3>1, <3>2 DEF Kept
  <2>2. u.nbot <= r.nbot BY <1>4, <1>8
  <2>3. QED BY <1>8, <2>1, <2>2, SigsKept
<1>11. QED BY <1>1, <1>8, <1>9, <1>10 DEF Good

LEMMA AddglobApart ==
    ASSUME NEW u, Good(u), NEW e \in EntryType, e.sig = NoSig PROVE Good(addglob(u, e))
BY AddglobNew, AddglobOld

\* A local takes an entry and its bytes, or ends the compiler.
AddedLocal(u, e, r) ==
    /\ u.locs - 1 > u.globs /\ u.nbot + Width[e.name] < u.ntop
    /\ r.globs = u.globs /\ r.locs = u.locs - 1 /\ r.nbot = u.nbot /\ r.ntop = u.ntop - Width[e.name]
    /\ r.ent = [u.ent EXCEPT ![u.locs - 1] = [e EXCEPT !.at = u.ntop - Width[e.name]]]
    /\ r.fatal = u.fatal /\ r \in TableType
LEMMA AddlocIs ==
    ASSUME NEW u, Good(u), NEW e \in EntryType
    PROVE  addloc(u, e) = fatal(u) \/ AddedLocal(u, e, addloc(u, e))
<1> DEFINE W == Width[e.name]
           named == [e EXCEPT !.at = u.ntop - W]
<1>1. /\ u \in TableType /\ u.globs \in Nat /\ u.locs \in Nat /\ u.nbot \in Nat /\ u.ntop \in Nat
      /\ u.locs <= NSYMBOLS /\ u.ntop <= POOLSIZE /\ NSYMBOLS \in Nat /\ POOLSIZE \in Nat
      /\ W \in Nat \ {0}
  BY Fields, WidthOf DEF Good
<1>2. CASE newloc(u).fatal \/ locname(newloc(u), W).fatal
  <2>1. addloc(u, e) = fatal(u) BY <1>2 DEF addloc
  <2>2. QED BY <2>1
<1>3. CASE ~(newloc(u).fatal \/ locname(newloc(u), W).fatal)
  <2>1. u.locs - 1 > u.globs
    <3>1. ~(u.locs - 1 <= u.globs) BY <1>1, <1>3 DEF newloc, fatal, TableType
    <3>2. QED BY <1>1, <3>1
  <2>2. newloc(u) = [u EXCEPT !.locs = @ - 1] BY <1>1, <2>1 DEF newloc
  <2>3. newloc(u).nbot = u.nbot /\ newloc(u).ntop = u.ntop /\ newloc(u).locs = u.locs - 1
    BY <1>1, <2>2 DEF TableType
  <2>4. u.nbot + W < u.ntop
    <3>1. ~(u.nbot + W >= u.ntop) BY <1>1, <1>3, <2>2, <2>3 DEF locname, fatal, TableType
    <3>2. QED BY <1>1, <3>1
  <2>5. locname(newloc(u), W) = [u EXCEPT !.locs = @ - 1, !.ntop = @ - W]
    BY <1>1, <2>2, <2>3, <2>4 DEF locname, TableType
  <2>6. locname(newloc(u), W).ntop = u.ntop - W BY <1>1, <2>5 DEF TableType
  <2> DEFINE again == findloc(u, e.name) # 0
             r == [[u EXCEPT !.locs = @ - 1, !.ntop = @ - W] EXCEPT
                      !.ent[u.locs - 1] = named, !.y = u.locs - 1, !.err = again]
  <2>7. addloc(u, e) = r BY <1>3, <2>3, <2>5, <2>6 DEF addloc
  <2>8. /\ r.globs = u.globs /\ r.locs = u.locs - 1 /\ r.ntop = u.ntop - W /\ r.nbot = u.nbot
        /\ r.ent = [u.ent EXCEPT ![u.locs - 1] = named] /\ r.y = u.locs - 1
        /\ r.err = again /\ r.fatal = u.fatal
    <3> HIDE DEF again
    <3>1. QED BY <1>1 DEF TableType
  <2>9. again \in BOOLEAN OBVIOUS
  <2>10. named \in EntryType /\ named.name = e.name /\ named.at = u.ntop - W
    <3>1. u.ntop - W \in Nat BY <1>1, <2>4
    <3>2. QED BY <3>1, EntryTyped
  <2>11. r \in TableType
    <3>1. r.locs \in 0 .. NSYMBOLS /\ r.ntop \in 0 .. POOLSIZE /\ r.y \in 0 .. NSYMBOLS - 1
      BY <1>1, <2>1, <2>4, <2>8
    <3>2. r.ent \in [0 .. NSYMBOLS - 1 -> EntryType]
      <4> HIDE DEF named, r
      <4>1. QED BY <1>1, <2>10, <2>8, Fields, UpdateTyped
    <3> HIDE DEF named, again
    <3>3. QED BY <1>1, <3>1, <3>2, <2>8, <2>9 DEF TableType
  <2>12. AddedLocal(u, e, r)
    <3> HIDE DEF r, again
    <3>1. QED BY <2>1, <2>4, <2>8, <2>11 DEF AddedLocal
  <2>13. QED BY <2>7, <2>12
<1>4. QED BY <1>2, <1>3

LEMMA AddlocApart == ASSUME NEW u, Good(u), NEW e \in EntryType PROVE Good(addloc(u, e))
<1>1. PICK r : r = addloc(u, e) OBVIOUS
<1>2. CASE r = fatal(u) BY <1>1, <1>2, FatalGood
<1>3. CASE r # fatal(u)
  <2> DEFINE named == [e EXCEPT !.at = u.ntop - Width[e.name]]
  <2>1. /\ u.locs - 1 > u.globs /\ u.nbot + Width[e.name] < u.ntop
        /\ r.globs = u.globs /\ r.locs = u.locs - 1 /\ r.nbot = u.nbot
        /\ r.ntop = u.ntop - Width[e.name] /\ r.ent = [u.ent EXCEPT ![u.locs - 1] = named]
        /\ r \in TableType
    BY <1>1, <1>3, AddlocIs DEF AddedLocal
  <2>2. u.ntop \in Nat /\ u.nbot \in Nat /\ Width[e.name] \in Nat BY Fields, WidthOf DEF Good
  <2>3. u.ntop - Width[e.name] \in Nat BY <2>1, <2>2
  <2>4. named \in EntryType /\ named.name = e.name /\ named.at = u.ntop - Width[e.name]
    BY <2>3, EntryTyped
  <2> HIDE DEF named
  <2>5. Apart(r) BY <2>1, <2>4, OneMoreLocal
  <2>6. SigsApart(r)
    <3>1. /\ u.globs \in Nat /\ u.locs \in 0 .. NSYMBOLS /\ u \in TableType
          /\ u.ent \in [0 .. NSYMBOLS - 1 -> EntryType] /\ NSYMBOLS \in Nat
      BY Fields DEF Good
    <3>2. ASSUME NEW i \in Globals(r) PROVE Kept(u, r, i)
      <4>1. i \in Globals(u) BY <2>1, <3>2 DEF Globals
      <4>2. i \in 0 .. NSYMBOLS - 1 /\ i # u.locs - 1 BY <2>1, <3>1, <4>1 DEF Globals
      <4>3. r.ent[i] = u.ent[i] BY <2>1, <3>1, <4>2
      <4>4. QED BY <4>1, <4>3 DEF Kept
    <3>3. u.nbot <= r.nbot BY <2>1, <2>2
    <3>4. QED BY <2>1, <3>2, <3>3, SigsKept
  <2>7. QED BY <1>1, <2>1, <2>5, <2>6 DEF Good
<1>4. QED BY <1>2, <1>3

LEMMA ClrlocsApart == ASSUME NEW u, Good(u) PROVE Good(clrlocs(u))
<1> DEFINE r == clrlocs(u)
<1>1. u \in TableType /\ u.nbot <= POOLSIZE /\ u.globs <= NSYMBOLS /\ NSYMBOLS \in Nat \ {0} /\ POOLSIZE \in Nat
  BY Fields DEF Good
<1>2. /\ r.globs = u.globs /\ r.nbot = u.nbot /\ r.ent = u.ent
      /\ r.locs = NSYMBOLS /\ r.ntop = POOLSIZE
  BY <1>1 DEF clrlocs, TableType
<1>3. r \in TableType
  <2>1. NSYMBOLS \in 0 .. NSYMBOLS /\ POOLSIZE \in 0 .. POOLSIZE BY <1>1
  <2>2. QED BY <1>1, <2>1 DEF clrlocs, TableType
<1>4. Globals(r) = Globals(u) BY <1>2 DEF Globals
<1>5. Locals(r) = {} BY <1>1, <1>2 DEF Locals
<1> HIDE DEF r
<1>6. Apart(r) BY <1>1, <1>2, <1>4, <1>5 DEF Good, Apart
<1>7. SigsApart(r) BY <1>2, <1>4, Zenon DEF Good, SigsApart
<1>8. QED BY <1>3, <1>6, <1>7 DEF Good, r

\* A signature is written once, or there are too many types, or no room.
Signature(u, fn, types, r) ==
    /\ r.globs = u.globs /\ r.locs = u.locs /\ r.ntop = u.ntop
    /\ u.nbot <= r.nbot /\ r.nbot <= r.ntop
    /\ r.fatal = u.fatal /\ r \in TableType
    /\ u.ent[fn].sig[1] => r.ent = u.ent
    /\ ~u.ent[fn].sig[1] =>
          /\ r.ent = [u.ent EXCEPT ![fn] = [@ EXCEPT !.sig = <<TRUE, types, u.nbot>>]]
          /\ r.nbot = u.nbot + SigBytes(types)
TooMany(u) == [u EXCEPT !.err = TRUE]
LEMMA SignatureIs ==
    ASSUME NEW u, Good(u), NEW fn \in 0 .. NSYMBOLS - 1, NEW types \in Seq(Types)
    PROVE  \/ signature(u, fn, types) \in {fatal(u), TooMany(u)}
           \/ Signature(u, fn, types, signature(u, fn, types))
<1> DEFINE k == SigBytes(types)
           had == u.ent[fn].sig
           many == Len(types) > MAXFNARGS
<1>1. /\ u \in TableType /\ u.nbot \in Nat /\ u.ntop \in Nat /\ u.ntop <= POOLSIZE /\ POOLSIZE \in Nat
      /\ u.ent \in [0 .. NSYMBOLS - 1 -> EntryType] /\ u.nbot <= u.ntop /\ k \in Nat
  BY Fields, LenProperties DEF Good, Apart, SigBytes
<1> HIDE DEF many
<1>6. CASE many
  <2>1. signature(u, fn, types) = TooMany(u) BY <1>6 DEF signature, many, TooMany
  <2>2. QED BY <2>1
<1>2. CASE ~many /\ had[1]
  <2> DEFINE differs == had[2] # types
             r == [u EXCEPT !.err = differs]
  <2>1. signature(u, fn, types) = r BY <1>2 DEF signature, many
  <2>2. differs \in BOOLEAN OBVIOUS
  <2> HIDE DEF differs, had
  <2>3. r \in TableType BY <1>1, <2>2 DEF TableType
  <2>4. /\ r.globs = u.globs /\ r.locs = u.locs /\ r.ntop = u.ntop /\ r.nbot = u.nbot /\ r.ent = u.ent
    BY <1>1 DEF TableType
  <2>5. r.fatal = u.fatal BY <1>1 DEF TableType
  <2>6. Signature(u, fn, types, r)
    <3> HIDE DEF r
    <3>1. QED BY <1>1, <1>2, <2>3, <2>4, <2>5 DEF Signature, had
  <2>7. QED BY <2>1, <2>6
<1>3. CASE ~many /\ ~had[1] /\ galloc(u, k).fatal
  <2>1. signature(u, fn, types) = fatal(u) BY <1>3 DEF signature, many
  <2>2. QED BY <2>1
<1>4. CASE ~many /\ ~had[1] /\ ~galloc(u, k).fatal
  <2> HIDE DEF k
  <2>1. u.nbot + k < u.ntop
    <3>1. ~(u.nbot + k >= u.ntop) BY <1>1, <1>4 DEF galloc, fatal, TableType
    <3>2. QED BY <1>1, <3>1
  <2>2. galloc(u, k) = [u EXCEPT !.nbot = @ + k] BY <1>1, <2>1 DEF galloc
  <2> DEFINE signed == [u.ent[fn] EXCEPT !.sig = <<TRUE, types, u.nbot>>]
             r == [[u EXCEPT !.nbot = @ + k] EXCEPT !.ent[fn].sig = <<TRUE, types, u.nbot>>, !.err = FALSE]
  <2>3. signature(u, fn, types) = r BY <1>4, <2>2 DEF signature, many, k
  <2>4. /\ r.globs = u.globs /\ r.locs = u.locs /\ r.ntop = u.ntop /\ r.nbot = u.nbot + k
        /\ r.ent = [u.ent EXCEPT ![fn] = signed] /\ r.err = FALSE /\ r.fatal = u.fatal /\ r.y = u.y
    BY <1>1 DEF TableType
  <2>5. u.ent[fn] \in EntryType BY <1>1
  <2>6. signed \in EntryType /\ signed.name = u.ent[fn].name /\ signed.at = u.ent[fn].at
    BY <1>1, <2>5 DEF EntryType
  <2>7. r \in TableType
    <3>1. r.ent \in [0 .. NSYMBOLS - 1 -> EntryType]
      <4> HIDE DEF signed, r
      <4>1. QED BY <1>1, <2>4, <2>6, UpdateTyped
    <3>2. r.nbot \in 0 .. POOLSIZE BY <1>1, <2>1, <2>4
    <3>3. QED BY <1>1, <2>4, <3>1, <3>2 DEF TableType
  <2>8. u.nbot <= r.nbot /\ r.nbot <= r.ntop BY <1>1, <2>1, <2>4
  <2>9. Signature(u, fn, types, r)
    <3> HIDE DEF r
    <3>1. QED BY <1>4, <2>4, <2>7, <2>8 DEF Signature, k
  <2>10. QED BY <2>3, <2>9
<1>5. QED BY <1>2, <1>3, <1>4, <1>6

LEMMA SignatureApart ==
    ASSUME NEW u, Good(u), NEW fn \in 0 .. NSYMBOLS - 1, NEW types \in Seq(Types)
    PROVE  Good(signature(u, fn, types))
<1>1. PICK r : r = signature(u, fn, types) OBVIOUS
<1>2. CASE r = fatal(u) BY <1>1, <1>2, FatalGood
<1>5. CASE r = TooMany(u)
  <2>1. /\ r.ent = u.ent /\ r.globs = u.globs /\ r.locs = u.locs /\ r.nbot = u.nbot /\ r.ntop = u.ntop
        /\ r \in TableType
    BY <1>5 DEF TooMany, Good, TableType
  <2>2. Apart(r) BY <2>1 DEF Good, Apart, Globals, Locals
  <2>3. SigsApart(r) BY <2>1 DEF Good, SigsApart, Globals
  <2>4. QED BY <1>1, <2>1, <2>2, <2>3 DEF Good
<1>3. CASE r # fatal(u) /\ r # TooMany(u)
  <2>1. Signature(u, fn, types, r) BY <1>1, <1>3, SignatureIs
  <2>2. u.ent \in [0 .. NSYMBOLS - 1 -> EntryType] BY Fields DEF Good
  <2>3. \A i \in 0 .. NSYMBOLS - 1 : r.ent[i].name = u.ent[i].name /\ r.ent[i].at = u.ent[i].at
    <3>1. CASE u.ent[fn].sig[1] BY <2>1, <3>1 DEF Signature
    <3>2. CASE ~u.ent[fn].sig[1]
      <4> DEFINE signed == [u.ent[fn] EXCEPT !.sig = <<TRUE, types, u.nbot>>]
      <4>1. r.ent = [u.ent EXCEPT ![fn] = signed] BY <2>1, <3>2 DEF Signature
      <4>2. signed.name = u.ent[fn].name /\ signed.at = u.ent[fn].at BY <2>2 DEF EntryType
      <4> HIDE DEF signed
      <4>3. QED BY <2>2, <4>1, <4>2
    <3>3. QED BY <3>1, <3>2
  <2>4. Apart(r) BY <2>1, <2>3, SameNames DEF Signature
  <2>5. Globals(r) = Globals(u) BY <2>1 DEF Signature, Globals
  <2>6. Globals(u) \subseteq 0 .. NSYMBOLS - 1 /\ u \in TableType /\ r \in TableType /\ u.nbot <= r.nbot
    BY <2>1, Fields DEF Good, Globals, Signature
  <2>7. CASE u.ent[fn].sig[1]
    <3>1. r.ent = u.ent BY <2>1, <2>7 DEF Signature
    <3>2. \A i \in Globals(r) : Kept(u, r, i) BY <2>5, <3>1 DEF Kept
    <3>3. SigsApart(r) BY <2>6, <3>2, SigsKept
    <3>4. QED BY <1>1, <2>4, <2>6, <3>3 DEF Good
  <2>8. CASE ~u.ent[fn].sig[1]
    <3> DEFINE signed == [u.ent[fn] EXCEPT !.sig = <<TRUE, types, u.nbot>>]
    <3>1. r.ent = [u.ent EXCEPT ![fn] = signed] /\ r.nbot = u.nbot + SigBytes(types)
      BY <2>1, <2>8 DEF Signature
    <3>2. u.ent[fn] \in EntryType BY <2>2
    <3>3. signed.name = u.ent[fn].name /\ signed.at = u.ent[fn].at /\ signed.sig = <<TRUE, types, u.nbot>>
      BY <3>2 DEF EntryType
    <3> HIDE DEF signed
    <3>4. r.ent[fn] = signed /\ \A i \in 0 .. NSYMBOLS - 1 : i # fn => r.ent[i] = u.ent[i]
      BY <2>2, <3>1
    <3>5. \A i \in Globals(r) : i = fn \/ Kept(u, r, i) BY <2>5, <2>6, <3>4 DEF Kept
    <3>6. SigsApart(r) BY <2>5, <2>6, <3>1, <3>3, <3>4, <3>5, SigsNewSig
    <3>7. QED BY <1>1, <2>4, <2>6, <3>6 DEF Good
  <2>9. QED BY <2>7, <2>8
<1>4. QED BY <1>2, <1>3, <1>5

LEMMA GallocApart == ASSUME NEW u, Good(u), NEW k \in Nat PROVE Good(galloc(u, k))
<1>1. /\ u \in TableType /\ u.nbot \in Nat /\ u.ntop \in Nat /\ u.ntop <= POOLSIZE /\ POOLSIZE \in Nat
  BY Fields DEF Good
<1>2. CASE u.nbot + k >= u.ntop
  <2>1. galloc(u, k) = fatal(u) BY <1>2 DEF galloc
  <2>2. QED BY <2>1, FatalGood
<1>3. CASE ~(u.nbot + k >= u.ntop)
  <2> DEFINE r == [u EXCEPT !.nbot = @ + k]
  <2>1. galloc(u, k) = r BY <1>3 DEF galloc
  <2>2. /\ r.globs = u.globs /\ r.locs = u.locs /\ r.ntop = u.ntop /\ r.nbot = u.nbot + k
        /\ r.ent = u.ent
    BY <1>1 DEF TableType
  <2>3. r.nbot \in 0 .. POOLSIZE /\ u.nbot <= r.nbot /\ r.nbot <= r.ntop BY <1>1, <1>3, <2>2
  <2>4. r \in TableType BY <1>1, <2>3 DEF TableType
  <2> HIDE DEF r
  <2>5. Apart(r) BY <1>1, <2>2, <2>3, <2>4, SameNames
  <2>6. \A i \in Globals(r) : Kept(u, r, i) BY <2>2 DEF Kept, Globals
  <2>7. SigsApart(r) BY <2>3, <2>4, <2>6, SigsKept
  <2>8. QED BY <2>1, <2>4, <2>5, <2>7 DEF Good
<1>4. QED BY <1>2, <1>3
-----------------------------------------------------------------------------
(* The declarations of a program. *)

LEMMA Entries ==
    ASSUME NEW n \in DOMAIN Width, NEW prim \in Types, NEW type \in {"", "macro", "variable", "function"},
           NEW stcls \in {"", "public", "extern", "static", "sproto", "auto"}
    PROVE  /\ Entry(n, prim, type, stcls, 0, 0) \in EntryType
           /\ Entry(n, prim, type, stcls, 0, 0).sig = NoSig
<1>1. NoSig \in BOOLEAN \X Seq(Types) \X Nat
  <2>1. <<>> \in Seq(Types) BY EmptySeq
  <2>2. QED BY <2>1 DEF NoSig
<1>2. QED BY <1>1 DEF Entry, EntryType

LEMMA MacroTyped ==
    ASSUME NEW n \in {"", "__SUBC__", "__dos"} PROVE Macro(n) \in EntryType /\ Macro(n).sig = NoSig
<1>1. n \in DOMAIN Width BY NamesAssumption
<1>2. PVOID \in Types BY DEF Types
<1>3. QED BY <1>1, <1>2, Entries DEF Macro

LEMMA BareGood == Good(Bare) /\ NoEntry \in EntryType /\ NoEntry.sig = NoSig
<1>1. NoEntry \in EntryType /\ NoEntry.sig = NoSig
  <2>1. "" \in DOMAIN Width /\ PVOID \in Types BY NamesAssumption DEF Types
  <2>2. QED BY <2>1, Entries DEF NoEntry
<1>2. /\ NSYMBOLS \in Nat \ {0} /\ POOLSIZE \in Nat /\ NSYMBOLS \in 0 .. NSYMBOLS
      /\ POOLSIZE \in 0 .. POOLSIZE /\ 0 \in 0 .. NSYMBOLS /\ 0 \in 0 .. POOLSIZE
      /\ 0 \in 0 .. NSYMBOLS - 1
  BY SizesAssumption
<1>3. Bare \in TableType BY <1>1, <1>2 DEF Bare, TableType
<1>4. Bare.globs = 0 /\ Bare.locs = NSYMBOLS /\ Bare.nbot = 0 /\ Bare.ntop = POOLSIZE BY DEF Bare
<1>5. Globals(Bare) = {} /\ Locals(Bare) = {} BY <1>2, <1>4 DEF Globals, Locals
<1>6. Apart(Bare) /\ SigsApart(Bare) BY <1>2, <1>4, <1>5 DEF Apart, SigsApart
<1>7. QED BY <1>1, <1>3, <1>6 DEF Good

LEMMA PredeclaredGood == Good(Predeclared)
<1>1. \A u, n : Good(u) /\ n \in {"", "__SUBC__", "__dos"} => Good(Predefined(u, n))
  BY GallocApart, AddglobApart, MacroTyped DEF Predefined
<1>2. Good(addglob(Bare, NoEntry)) BY BareGood, AddglobApart
<1>3. QED BY <1>1, <1>2 DEF Predeclared

LEMMA ParametersTyped == ASSUME NEW u \in TableType PROVE Parameters(u) \in Seq(Types)
<1>1. /\ u.locs \in 0 .. NSYMBOLS /\ NSYMBOLS \in Nat
      /\ u.ent \in [0 .. NSYMBOLS - 1 -> EntryType]
  BY Fields
<1>2. NSYMBOLS - u.locs \in Nat BY <1>1
<1>3. \A i \in 1 .. NSYMBOLS - u.locs : u.ent[NSYMBOLS - i].prim \in Types
  <2>1. TAKE i \in 1 .. NSYMBOLS - u.locs
  <2>2. NSYMBOLS - i \in 0 .. NSYMBOLS - 1 BY <1>1
  <2>3. u.ent[NSYMBOLS - i] \in EntryType BY <1>1, <2>2
  <2>4. QED BY <2>3 DEF EntryType
<1>4. QED BY <1>2, <1>3 DEF Parameters

LEMMA SignedGood == ASSUME NEW d, Good(d) PROVE Good(Signed(d))
<1>1. d \in TableType /\ d.y \in 0 .. NSYMBOLS - 1 BY DEF Good, TableType
<1>2. Parameters(d) \in Seq(Types) BY <1>1, ParametersTyped
<1>3. QED BY <1>1, <1>2, SignatureApart DEF Signed

Inv == TypeOK /\ TablesApart

LEMMA InvGood == Inv => Good(t)
BY DEF Inv, TypeOK, TablesApart, Good

LEMMA GoodNext == Good(t') => t' \in TableType /\ TablesApart'
BY DEF Good, TablesApart

LEMMA InitInv == Init => Inv
<1>1. ASSUME Init PROVE Inv
  <2>1. Good(t) BY <1>1, PredeclaredGood DEF Init
  <2>2. PVOID \in Types BY DEF Types
  <2>3. own \in Seq([name : Names, prim : Prims])
    <3>1. own = <<>> BY <1>1 DEF Init
    <3>2. QED BY <3>1, EmptySeq
  <2>4. outer \in 0 .. MAXINCLUDES /\ at = "outside" BY <1>1, BoundsAssumption DEF Init
  <2>5. head \in [name : Names \cup {""}, prim : Types, stcls : {"", "public", "static"}]
    BY <1>1, <2>2 DEF Init, Nobody
  <2>6. QED BY <2>1, <2>3, <2>4, <2>5 DEF Inv, TypeOK, TablesApart, Good
<1>2. QED BY <1>1

\* The steps that declare something.
LEMMA ObjectInv ==
    ASSUME Inv, NEW n \in Names, NEW prim \in Prims, NEW stcls \in {"public", "extern", "static"},
           Object(n, prim, stcls)
    PROVE  Inv'
<1>1. /\ Entry(n, prim, "variable", stcls, 0, 0) \in EntryType
      /\ Entry(n, prim, "variable", stcls, 0, 0).sig = NoSig
  <2>1. n \in DOMAIN Width /\ prim \in Types BY NamesAssumption DEF Types
  <2>2. QED BY <2>1, Entries
<1>2. Good(t') BY <1>1, InvGood, AddglobApart DEF Object
<1>3. QED BY <1>2, GoodNext DEF Object, Inv, TypeOK

LEMMA LocalInv ==
    ASSUME Inv, NEW n \in Names, NEW prim \in Prims, Parameter(n, prim) \/ Local(n, prim)
    PROVE  Inv'
<1>1. Entry(n, prim, "variable", "auto", 0, 0) \in EntryType BY NamesAssumption, Entries DEF Types
<1>2. Good(t') BY <1>1, InvGood, AddlocApart DEF Parameter, Local
<1>3. own' \in Seq([name : Names, prim : Prims])
  <2> DEFINE E == [name : Names, prim : Prims]
             e == [name |-> n, prim |-> prim]
  <2>1. e \in E /\ own \in Seq(E) /\ own' = Append(own, e) BY DEF Parameter, Local, Inv, TypeOK
  <2> HIDE DEF E, e
  <2>2. own' \in Seq(E) BY <2>1
  <2>3. QED BY <2>2 DEF E
<1>4. UNCHANGED <<at, head, outer>> BY DEF Parameter, Local
<1>5. QED BY <1>2, <1>3, <1>4, GoodNext DEF Inv, TypeOK

LEMMA FunctionInv == ASSUME Inv, Declare \/ Define PROVE Inv'
<1>1. /\ head.name \in DOMAIN Width /\ head.prim \in Types
      /\ Prototype \in {"sproto", "extern"} /\ head.stcls \in {"", "public", "static"}
  BY NamesAssumption DEF Inv, TypeOK, Prototype
<1>2. /\ Entry(head.name, head.prim, "function", Prototype, 0, 0) \in EntryType
      /\ Entry(head.name, head.prim, "function", head.stcls, 0, 0) \in EntryType
      /\ Entry(head.name, head.prim, "function", Prototype, 0, 0).sig = NoSig
      /\ Entry(head.name, head.prim, "function", head.stcls, 0, 0).sig = NoSig
  <2>1. Prototype \in {"", "public", "extern", "static", "sproto", "auto"} BY <1>1
  <2>2. head.stcls \in {"", "public", "extern", "static", "sproto", "auto"} BY <1>1
  <2>3. QED BY <1>1, <2>1, <2>2, Entries
<1>3. Good(t') BY <1>2, InvGood, AddglobApart, SignedGood DEF Declare, Define
<1>4. UNCHANGED <<head, outer, own>> /\ at' \in {"declared", "body"} BY DEF Declare, Define
<1>5. QED BY <1>3, <1>4, GoodNext DEF Inv, TypeOK

LEMMA StepInv == Inv /\ [Next]_vars => Inv'
<1>1. ASSUME Inv, [Next]_vars PROVE Inv'
  <2>1. ASSUME NEW n \in Names, NEW prim \in Prims, NEW stcls \in {"public", "extern", "static"},
               stcls # "extern", OpenFunction(n, prim, stcls)
        PROVE  Inv'
    <3>1. Good(t') BY <1>1, <2>1, InvGood DEF OpenFunction
    <3>2. own' = <<>> /\ own' \in Seq([name : Names, prim : Prims]) BY <2>1, EmptySeq DEF OpenFunction
    <3>3. head' \in [name : Names \cup {""}, prim : Types, stcls : {"", "public", "static"}]
      BY <2>1 DEF OpenFunction, Types
    <3>4. UNCHANGED outer /\ at' = "parameters" BY <2>1 DEF OpenFunction
    <3>5. QED BY <1>1, <3>1, <3>2, <3>3, <3>4, GoodNext DEF Inv, TypeOK
  <2>2. CASE Forget
    <3>1. Good(t') BY <1>1, <2>2, InvGood, ClrlocsApart DEF Forget
    <3>2. UNCHANGED <<head, outer>> /\ at' = "outside" /\ own' = <<>> BY <2>2 DEF Forget
    <3>3. own' \in Seq([name : Names, prim : Prims]) BY <3>2, EmptySeq
    <3>4. QED BY <1>1, <3>1, <3>2, <3>3, GoodNext DEF Inv, TypeOK
  <2>3. CASE Behind \/ Include \/ EndInclude \/ Ended \/ UNCHANGED vars
    <3>1. t' = t /\ head' = head BY <2>3 DEF Behind, Include, EndInclude, Ended, vars
    <3>2. Good(t') BY <1>1, <3>1, InvGood
    <3>3. own' = own \/ own' = <<>> BY <2>3 DEF Behind, Include, EndInclude, Ended, vars
    <3>4. own' \in Seq([name : Names, prim : Prims]) BY <1>1, <3>3, EmptySeq DEF Inv, TypeOK
    <3>5. outer' \in 0 .. MAXINCLUDES /\ at' \in {"outside", "parameters", "declared", "body", "behind"}
      <4>1. /\ outer \in 0 .. MAXINCLUDES /\ MAXINCLUDES \in Nat
            /\ at \in {"outside", "parameters", "declared", "body", "behind"}
        BY <1>1, BoundsAssumption DEF Inv, TypeOK
      <4>2. CASE Behind BY <4>1, <4>2 DEF Behind
      <4>3. CASE Include BY <4>1, <4>3 DEF Include
      <4>4. CASE EndInclude BY <4>1, <4>4 DEF EndInclude
      <4>5. CASE Ended \/ UNCHANGED vars BY <4>1, <4>5 DEF Ended, vars
      <4>6. QED BY <2>3, <4>2, <4>3, <4>4, <4>5
    <3>6. QED BY <1>1, <3>1, <3>2, <3>4, <3>5, GoodNext DEF Inv, TypeOK
  <2>4. QED BY <1>1, <2>1, <2>2, <2>3, ObjectInv, LocalInv, FunctionInv DEF Next
<1>2. QED BY <1>1

\* The types of the table, the parser's place in a declaration and what it has
\* declared there: sym.c, decl.c.
THEOREM TypeCorrect == Spec => []TypeOK
<1>1. Inv => TypeOK BY DEF Inv
<1>2. QED BY <1>1, InitInv, StepInv, PTL DEF Spec

\* newglob(), newloc(), galloc() and locname() of sym.c keep the two ends of the
\* table and of the list of names apart, and no name or signature over another,
\* for every size, every length of names and every sequence of declarations.
THEOREM EndsNeverMeet == Spec => []TablesApart
<1>1. Inv => TablesApart BY DEF Inv
<1>2. QED BY <1>1, InitInv, StepInv, PTL DEF Spec
-----------------------------------------------------------------------------
(* The scopes: what the lookups find of a table in which no two globals     *)
(* have one name, and what addglob() leaves of it.                          *)

IsGlobal(u, i, n) == i \in Globals(u) /\ u.ent[i].type # "macro" /\ u.ent[i].name = n
Tabled(u) ==
    /\ IsGlobal(u, 0, "")
    /\ \A i, j \in Globals(u) :
          /\ u.ent[i].type # "macro" /\ u.ent[j].type # "macro"
          /\ u.ent[i].name = u.ent[j].name
          => i = j

LEMMA FirstIs ==
    ASSUME NEW S \in SUBSET Nat, NEW i \in S, \A j \in S : i <= j
    PROVE  First(S) = i
<1>1. First(S) = CHOOSE x \in S : \A j \in S : x <= j BY DEF First
<1>2. First(S) \in S /\ \A j \in S : First(S) <= j BY <1>1
<1>3. First(S) <= i /\ i <= First(S) /\ First(S) \in Nat /\ i \in Nat BY <1>2
<1>4. QED BY <1>3

\* What findglob() runs through: the globals of that name that are no macros.
LEMMA FindglobSet ==
    ASSUME NEW u \in TableType, NEW n
    PROVE  /\ findglob(u, n) = First({i \in Globals(u) : IsGlobal(u, i, n)})
           /\ {i \in Globals(u) : IsGlobal(u, i, n)} \in SUBSET Nat
           /\ Globals(u) \subseteq 0 .. NSYMBOLS - 1
<1>1. /\ u.globs \in 0 .. NSYMBOLS /\ NSYMBOLS \in Nat
      /\ u.ent \in [0 .. NSYMBOLS - 1 -> EntryType]
  BY Fields
<1>2. Globals(u) \subseteq 0 .. NSYMBOLS - 1 /\ Globals(u) \subseteq Nat BY <1>1 DEF Globals
<1>3. \A i \in Globals(u) : u.ent[i].stcls # "member"
  <2>1. TAKE i \in Globals(u)
  <2>2. u.ent[i] \in EntryType BY <1>1, <1>2
  <2>3. u.ent[i].stcls \in {"", "public", "extern", "static", "sproto", "auto"} BY <2>2 DEF EntryType
  <2>4. QED BY <2>3
<1>4. {i \in Globals(u) : /\ u.ent[i].type # "macro" /\ u.ent[i].stcls # "member"
                          /\ u.ent[i].name = n}
      = {i \in Globals(u) : IsGlobal(u, i, n)}
  BY <1>3 DEF IsGlobal
<1>5. QED BY <1>2, <1>4 DEF findglob

LEMMA FindglobIs ==
    ASSUME NEW u \in TableType, Tabled(u), NEW n, NEW k, IsGlobal(u, k, n)
    PROVE  findglob(u, n) = k
<1> DEFINE S == {i \in Globals(u) : IsGlobal(u, i, n)}
<1>1. findglob(u, n) = First(S) /\ S \in SUBSET Nat BY FindglobSet
<1>2. k \in S /\ \A j \in S : j = k BY DEF IsGlobal, Tabled
<1> HIDE DEF S
<1>3. \A j \in S : k <= j BY <1>1, <1>2
<1>4. QED BY <1>1, <1>2, <1>3, FirstIs

LEMMA FindglobNone ==
    ASSUME NEW u \in TableType, NEW n, \A i \in Globals(u) : ~IsGlobal(u, i, n)
    PROVE  findglob(u, n) = 0
<1>1. {i \in Globals(u) : IsGlobal(u, i, n)} = {} OBVIOUS
<1>2. QED BY <1>1, FindglobSet DEF First

LEMMA FindglobAny ==
    ASSUME NEW u \in TableType, Tabled(u), NEW n
    PROVE  /\ findglob(u, n) = 0 /\ n # "" => \A i \in Globals(u) : ~IsGlobal(u, i, n)
           /\ findglob(u, n) # 0 => IsGlobal(u, findglob(u, n), n)
<1>1. ASSUME findglob(u, n) = 0, n # "", NEW i \in Globals(u), IsGlobal(u, i, n) PROVE FALSE
  <2>1. i = 0 BY <1>1, FindglobIs
  <2>2. u.ent[0].name = "" /\ u.ent[0].name = n BY <1>1, <2>1 DEF Tabled, IsGlobal
  <2>3. QED BY <1>1, <2>2
<1>2. ASSUME findglob(u, n) # 0 PROVE IsGlobal(u, findglob(u, n), n)
  <2> DEFINE S == {i \in Globals(u) : IsGlobal(u, i, n)}
  <2>1. findglob(u, n) = First(S) /\ S \in SUBSET Nat BY FindglobSet
  <2>2. S # {} BY <1>2, <2>1 DEF First
  <2>3. First(S) \in S BY <2>1, <2>2, FirstIsIn
  <2>4. QED BY <2>1, <2>3
<1>3. QED BY <1>1, <1>2

\* What addglob() leaves: e at entry k, found under its name, and the rest as it was.
Placed(u, e, r, k) ==
    /\ IsGlobal(r, k, e.name) /\ k # 0 /\ r.y = k
    /\ r.ent[k].prim = e.prim /\ r.ent[k].type = e.type
    /\ Globals(r) = Globals(u) \cup {k} /\ \A i \in Globals(u) : i # k => r.ent[i] = u.ent[i]
    /\ k \in Globals(u) => IsGlobal(u, k, e.name)
    /\ \A i \in Globals(u) : IsGlobal(u, i, e.name) => i = k
    /\ k \in Globals(u) /\ u.ent[k].type = "function" =>
          r.ent[k].sig = u.ent[k].sig /\ (~r.err => e.type = "function")
    /\ ~(k \in Globals(u) /\ u.ent[k].type = "function") => r.ent[k].sig = e.sig
    /\ r.locs = u.locs /\ \A i \in Locals(u) : r.ent[i] = u.ent[i]

Named(e) == e.name # "" /\ e.type # "macro"
LEMMA AddglobPlaces ==
    ASSUME NEW u, Good(u), Tabled(u), NEW e \in EntryType, Named(e),
           addglob(u, e) # fatal(u)
    PROVE  \E k \in 0 .. NSYMBOLS - 1 : Placed(u, e, addglob(u, e), k)
<1>1. PICK r : r = addglob(u, e) OBVIOUS
<1>2. /\ u \in TableType /\ u.globs \in 0 .. NSYMBOLS /\ u.locs \in 0 .. NSYMBOLS /\ NSYMBOLS \in Nat
      /\ u.ent \in [0 .. NSYMBOLS - 1 -> EntryType] /\ u.globs <= u.locs /\ u.nbot \in Nat
  BY Fields DEF Good, Apart
<1>3. /\ Globals(u) \subseteq 0 .. NSYMBOLS - 1 /\ Locals(u) \subseteq 0 .. NSYMBOLS - 1
      /\ 0 \in Globals(u) /\ \A i \in Locals(u) : i \notin Globals(u) /\ i >= u.locs
  <2>1. 0 \in Globals(u) BY DEF Tabled, IsGlobal
  <2>2. u.globs \in Nat /\ u.locs \in Nat /\ u.globs <= NSYMBOLS BY <1>2
  <2>3. \A i \in Locals(u) : i \notin Globals(u) /\ i >= u.locs BY <1>2, <2>2 DEF Globals, Locals
  <2>4. Globals(u) \subseteq 0 .. NSYMBOLS - 1 BY <1>2, <2>2 DEF Globals
  <2>5. Locals(u) \subseteq 0 .. NSYMBOLS - 1 BY <1>2, <2>2 DEF Locals
  <2>6. QED BY <2>1, <2>3, <2>4, <2>5
<1>4. r # fatal(u) BY <1>1
<1>5. CASE findglob(u, e.name) = 0
  <2> DEFINE k == u.globs
             new == [e EXCEPT !.at = u.nbot]
  <2>1. AddedGlobal(u, e, r) BY <1>1, <1>4, <1>5, AddglobNewIs
  <2>2. /\ u.globs < u.locs /\ r.globs = u.globs + 1 /\ r.locs = u.locs
        /\ r.ent = [u.ent EXCEPT ![k] = new] /\ r.y = k
    BY <2>1 DEF AddedGlobal
  <2>3. new.name = e.name /\ new.prim = e.prim /\ new.type = e.type /\ new.sig = e.sig
    BY <1>2 DEF EntryType
  <2>4. Globals(r) = Globals(u) \cup {k} /\ k \notin Globals(u) /\ k \notin Locals(u) /\ k \in 0 .. NSYMBOLS - 1
    <3>1. u.globs \in Nat /\ u.locs \in Nat /\ u.locs <= NSYMBOLS BY <1>2
    <3>2. Globals(r) = Globals(u) \cup {k} BY <2>2, <3>1 DEF Globals
    <3>3. k \notin Globals(u) /\ k \in 0 .. NSYMBOLS - 1 BY <1>2, <2>2, <3>1 DEF Globals
    <3>4. k \notin Locals(u) BY <1>2, <2>2, <3>1 DEF Locals
    <3>5. QED BY <3>2, <3>3, <3>4
  <2>5. k # 0 BY <1>3, <2>4
  <2>6. \A i \in Globals(u) : ~IsGlobal(u, i, e.name)
    <3>1. u \in TableType BY <1>2
    <3>2. e.name # "" BY Zenon DEF Named
    <3>3. QED BY <1>5, <3>1, <3>2, FindglobAny, Zenon
  <2> HIDE DEF k, new
  <2>7. r.ent[k] = new /\ \A i \in 0 .. NSYMBOLS - 1 : i # k => r.ent[i] = u.ent[i]
    BY <1>2, <2>2, <2>4
  <2>8. \A i \in Globals(u) \cup Locals(u) : i # k /\ r.ent[i] = u.ent[i]
    BY <1>3, <2>4, <2>7
  <2>9. IsGlobal(r, k, e.name) BY <2>3, <2>4, <2>7 DEF IsGlobal, Named
  <2>10. Placed(u, e, r, k) BY <2>2, <2>3, <2>4, <2>5, <2>6, <2>7, <2>8, <2>9 DEF Placed
  <2>11. QED BY <1>1, <2>4, <2>10
<1>6. CASE findglob(u, e.name) # 0
  <2>1. PICK k : k = findglob(u, e.name) OBVIOUS
  <2>2. ReplacedGlobal(u, e, r) BY <1>1, <1>6, AddglobOldIs
  <2>3. IsGlobal(u, k, e.name) /\ k # 0 BY <1>2, <1>6, <2>1, FindglobAny
  <2>4. k \in Globals(u) /\ k \in 0 .. NSYMBOLS - 1 BY <1>3, <2>3 DEF IsGlobal
  <2>5. PICK new \in EntryType :
          /\ r.ent = [u.ent EXCEPT ![k] = new]
          /\ new.name = e.name /\ new.prim = e.prim /\ new.type = e.type
          /\ new.sig = IF u.ent[k].type = "function" THEN u.ent[k].sig ELSE e.sig
    BY <2>1, <2>2 DEF ReplacedGlobal
  <2>6. r.ent[k] = new /\ \A i \in 0 .. NSYMBOLS - 1 : i # k => r.ent[i] = u.ent[i]
    BY <1>2, <2>4, <2>5
  <2>7. /\ r.globs = u.globs /\ r.locs = u.locs /\ r.y = k
        /\ (~r.err /\ u.ent[k].type = "function" => e.type = "function")
    BY <2>1, <2>2 DEF ReplacedGlobal
  <2>8. Globals(r) = Globals(u) \cup {k} BY <2>4, <2>7 DEF Globals
  <2>9. /\ \A i \in Globals(u) : i # k => r.ent[i] = u.ent[i]
        /\ \A i \in Locals(u) : r.ent[i] = u.ent[i]
    BY <1>3, <2>4, <2>6
  <2>10. \A i \in Globals(u) : IsGlobal(u, i, e.name) => i = k BY <2>3 DEF Tabled, IsGlobal
  <2>11. IsGlobal(r, k, e.name) BY <2>4, <2>5, <2>6, <2>8 DEF IsGlobal, Named
  <2>12. Placed(u, e, r, k) BY <2>3, <2>4, <2>5, <2>6, <2>7, <2>8, <2>9, <2>10, <2>11 DEF Placed
  <2>13. QED BY <1>1, <2>4, <2>12
<1>7. QED BY <1>5, <1>6

LEMMA PlacedTabled ==
    ASSUME NEW u, Tabled(u), NEW e, e.name # "", NEW r, NEW k, Placed(u, e, r, k)
    PROVE  Tabled(r)
<1>1. IsGlobal(r, 0, "") BY DEF Tabled, IsGlobal, Placed
<1>2. ASSUME NEW i \in Globals(r), NEW j \in Globals(r), i # j,
             r.ent[i].type # "macro", r.ent[j].type # "macro", r.ent[i].name = r.ent[j].name
      PROVE  FALSE
  <2>1. CASE i # k /\ j # k
    <3>1. i \in Globals(u) /\ j \in Globals(u) BY <2>1 DEF Placed
    <3>2. r.ent[i] = u.ent[i] /\ r.ent[j] = u.ent[j] BY <2>1, <3>1 DEF Placed
    <3>3. QED BY <1>2, <3>1, <3>2 DEF Tabled
  <2>2. CASE i = k
    <3>1. j \in Globals(u) /\ r.ent[j] = u.ent[j] BY <1>2, <2>2 DEF Placed
    <3>2. IsGlobal(u, j, e.name) BY <1>2, <2>2, <3>1 DEF Placed, IsGlobal
    <3>3. QED BY <1>2, <2>2, <3>1, <3>2 DEF Placed
  <2>3. CASE j = k
    <3>1. i \in Globals(u) /\ r.ent[i] = u.ent[i] BY <1>2, <2>3 DEF Placed
    <3>2. IsGlobal(u, i, e.name) BY <1>2, <2>3, <3>1 DEF Placed, IsGlobal
    <3>3. QED BY <1>2, <2>3, <3>1, <3>2 DEF Placed
  <2>4. QED BY <2>1, <2>2, <2>3
<1>3. QED BY <1>1, <1>2 DEF Tabled
-----------------------------------------------------------------------------
(* What the program has declared, and what the table holds of it.            *)

\* kn: global |-> its type.
Knows(u, kn) ==
    \A n \in Names :
       IF n \in DOMAIN kn THEN \E i \in Globals(u) : IsGlobal(u, i, n) /\ u.ent[i].prim = kn[n]
       ELSE \A i \in Globals(u) : ~IsGlobal(u, i, n)
\* fi: function |-> what it was first declared with.
SignedAs(s, f) == s[1] /\ (~f.stale => s[2] = f.types)
Signs(u, fi) ==
    /\ \A n \in DOMAIN fi :
          /\ n \in Names
          /\ \E i \in Globals(u) : /\ IsGlobal(u, i, n) /\ u.ent[i].type = "function"
                                   /\ SignedAs(u.ent[i].sig, fi[n])
    /\ \A i \in Globals(u) : u.ent[i].type = "function" => u.ent[i].name \in DOMAIN fi
\* ow: the parameters and locals of the function.
Holds(u, ow) ==
    /\ NSYMBOLS - u.locs = Len(ow)
    /\ \A i \in DOMAIN ow : /\ u.ent[NSYMBOLS - i].name = ow[i].name
                            /\ u.ent[NSYMBOLS - i].prim = ow[i].prim

LEMMA PlacedKnows ==
    ASSUME NEW u, NEW kn, Knows(u, kn), NEW e, e.name \in Names, NEW r, NEW k, Placed(u, e, r, k)
    PROVE  Knows(r, With(kn, e.name, e.prim))
<1> DEFINE kr == With(kn, e.name, e.prim)
<1>1. DOMAIN kr = DOMAIN kn \cup {e.name} /\ kr[e.name] = e.prim
  BY DEF With
<1>2. \A n \in DOMAIN kn : n # e.name => kr[n] = kn[n] BY DEF With
<1> HIDE DEF kr
<1>3. ASSUME NEW n \in Names
      PROVE  IF n \in DOMAIN kr THEN \E i \in Globals(r) : IsGlobal(r, i, n) /\ r.ent[i].prim = kr[n]
             ELSE \A i \in Globals(r) : ~IsGlobal(r, i, n)
  <2>1. CASE n = e.name BY <1>1, <2>1 DEF Placed, IsGlobal
  <2>2. CASE n # e.name /\ n \in DOMAIN kn
    <3>1. PICK i \in Globals(u) : IsGlobal(u, i, n) /\ u.ent[i].prim = kn[n] BY <2>2 DEF Knows
    <3>2. i # k /\ i \in Globals(r) /\ r.ent[i] = u.ent[i] BY <2>2, <3>1 DEF Placed, IsGlobal
    <3>3. IsGlobal(r, i, n) /\ r.ent[i].prim = kr[n] BY <1>2, <2>2, <3>1, <3>2 DEF IsGlobal
    <3>4. QED BY <1>1, <2>2, <3>2, <3>3
  <2>3. CASE n # e.name /\ n \notin DOMAIN kn
    <3>1. ASSUME NEW i \in Globals(r), IsGlobal(r, i, n) PROVE FALSE
      <4>1. i # k BY <2>3, <3>1 DEF Placed, IsGlobal
      <4>2. i \in Globals(u) /\ r.ent[i] = u.ent[i] BY <3>1, <4>1 DEF Placed
      <4>3. IsGlobal(u, i, n) BY <3>1, <4>2 DEF IsGlobal
      <4>4. QED BY <2>3, <4>2, <4>3 DEF Knows
    <3>2. QED BY <1>1, <2>3, <3>1
  <2>4. QED BY <2>1, <2>2, <2>3
<1>4. Knows(r, kr) BY <1>3 DEF Knows
<1>5. QED BY <1>4 DEF kr

\* A declaration that is no error leaves the signatures, a function's if it is
\* declared again.
LEMMA PlacedSigns ==
    ASSUME NEW u, NEW fi, Signs(u, fi), NEW e, NEW r, NEW k, Placed(u, e, r, k), ~r.err,
           e.type = "function" => e.name \in DOMAIN fi
    PROVE  Signs(r, fi)
<1>1. ASSUME NEW n \in DOMAIN fi
      PROVE  /\ n \in Names
             /\ \E i \in Globals(r) : /\ IsGlobal(r, i, n) /\ r.ent[i].type = "function"
                                      /\ SignedAs(r.ent[i].sig, fi[n])
  <2>1. PICK i \in Globals(u) : /\ IsGlobal(u, i, n) /\ u.ent[i].type = "function"
                                /\ SignedAs(u.ent[i].sig, fi[n])
    BY DEF Signs
  <2>2. n \in Names BY DEF Signs
  <2>3. CASE i = k
    <3>1. n = e.name BY <2>1, <2>3 DEF Placed, IsGlobal
    <3>2. r.ent[k].sig = u.ent[k].sig /\ r.ent[k].type = "function" BY <2>1, <2>3 DEF Placed
    <3>3. k \in Globals(r) /\ IsGlobal(r, k, n) BY <3>1 DEF Placed
    <3>4. QED BY <2>1, <2>2, <2>3, <3>2, <3>3
  <2>4. CASE i # k
    <3>1. i \in Globals(r) /\ r.ent[i] = u.ent[i] BY <2>4 DEF Placed
    <3>2. QED BY <2>1, <2>2, <3>1 DEF IsGlobal
  <2>5. QED BY <2>3, <2>4
<1>2. ASSUME NEW i \in Globals(r), r.ent[i].type = "function" PROVE r.ent[i].name \in DOMAIN fi
  <2>1. CASE i = k BY <1>2, <2>1 DEF Placed, IsGlobal
  <2>2. CASE i # k
    <3>1. i \in Globals(u) /\ r.ent[i] = u.ent[i] BY <2>2 DEF Placed
    <3>2. QED BY <1>2, <3>1 DEF Signs
  <2>3. QED BY <2>1, <2>2
<1>3. QED BY <1>1, <1>2 DEF Signs

\* An entry's signature is written, and nothing else of the table's names and types.
Told(u, fn, types, r) ==
    /\ Globals(r) = Globals(u) /\ r.locs = u.locs
    /\ \A i \in 0 .. NSYMBOLS - 1 :
          /\ r.ent[i].name = u.ent[i].name /\ r.ent[i].type = u.ent[i].type
          /\ r.ent[i].prim = u.ent[i].prim
    /\ \A i \in Globals(u) : i # fn \/ u.ent[fn].sig[1] => r.ent[i] = u.ent[i]
    /\ ~u.ent[fn].sig[1] => r.ent[fn].sig = <<TRUE, types, u.nbot>>
LEMMA SignatureTells ==
    ASSUME NEW u \in TableType, NEW fn \in Globals(u), NEW types, NEW r, Signature(u, fn, types, r)
    PROVE  Told(u, fn, types, r)
<1>1. u.ent \in [0 .. NSYMBOLS - 1 -> EntryType] /\ Globals(u) \subseteq 0 .. NSYMBOLS - 1
  BY Fields, FindglobSet
<1>2. fn \in 0 .. NSYMBOLS - 1 BY <1>1
<1>3. Globals(r) = Globals(u) /\ r.locs = u.locs BY DEF Signature, Globals
<1>4. CASE u.ent[fn].sig[1]
  <2>1. r.ent = u.ent BY <1>4 DEF Signature
  <2>2. QED BY <1>3, <1>4, <2>1 DEF Told
<1>5. CASE ~u.ent[fn].sig[1]
  <2> DEFINE signed == [u.ent[fn] EXCEPT !.sig = <<TRUE, types, u.nbot>>]
  <2>1. r.ent = [u.ent EXCEPT ![fn] = signed] BY <1>5 DEF Signature
  <2>2. u.ent[fn] \in EntryType BY <1>1, <1>2
  <2>3. /\ signed.name = u.ent[fn].name /\ signed.type = u.ent[fn].type
        /\ signed.prim = u.ent[fn].prim /\ signed.sig = <<TRUE, types, u.nbot>>
    BY <2>2 DEF EntryType
  <2> HIDE DEF signed
  <2>4. r.ent[fn] = signed /\ \A i \in 0 .. NSYMBOLS - 1 : i # fn => r.ent[i] = u.ent[i]
    BY <1>1, <1>2, <2>1
  <2>5. \A i \in 0 .. NSYMBOLS - 1 :
           /\ r.ent[i].name = u.ent[i].name /\ r.ent[i].type = u.ent[i].type
           /\ r.ent[i].prim = u.ent[i].prim
    BY <2>3, <2>4
  <2>6. \A i \in Globals(u) : i # fn => r.ent[i] = u.ent[i] BY <1>1, <2>4
  <2>7. QED BY <1>3, <1>5, <2>3, <2>4, <2>5, <2>6 DEF Told
<1>6. QED BY <1>4, <1>5

\* The locals' entries are none of addglob()'s.
LEMMA PlacedHolds ==
    ASSUME NEW u, Good(u), NEW ow \in Seq([name : Names, prim : Prims]), Holds(u, ow),
           NEW e, NEW r, NEW k, Placed(u, e, r, k)
    PROVE  Holds(r, ow)
<1>1. r.locs = u.locs /\ \A i \in Locals(u) : r.ent[i] = u.ent[i] BY DEF Placed
<1>2. u.locs \in Nat /\ NSYMBOLS \in Nat /\ u.locs <= NSYMBOLS BY Fields DEF Good
<1>3. Len(ow) \in Nat /\ DOMAIN ow = 1 .. Len(ow) /\ NSYMBOLS - u.locs = Len(ow)
  BY LenProperties DEF Holds
<1>4. \A i \in DOMAIN ow : NSYMBOLS - i \in Locals(u) BY <1>2, <1>3 DEF Locals
<1>5. QED BY <1>1, <1>4 DEF Holds

LEMMA AddlocHolds ==
    ASSUME NEW u, Good(u), NEW ow \in Seq([name : Names, prim : Prims]), Holds(u, ow),
           NEW e \in EntryType, NEW b \in [name : Names, prim : Prims],
           b.name = e.name, b.prim = e.prim, NEW r, AddedLocal(u, e, r)
    PROVE  Holds(r, Append(ow, b))
<1> DEFINE new == [e EXCEPT !.at = u.ntop - Width[e.name]]
<1>1. /\ u.locs \in Nat /\ NSYMBOLS \in Nat /\ u.locs <= NSYMBOLS /\ u.globs \in Nat
      /\ u.ent \in [0 .. NSYMBOLS - 1 -> EntryType]
  BY Fields DEF Good
<1>2. Len(ow) \in Nat /\ DOMAIN ow = 1 .. Len(ow) /\ NSYMBOLS - u.locs = Len(ow)
  BY LenProperties DEF Holds
<1>3. /\ r.locs = u.locs - 1 /\ r.ent = [u.ent EXCEPT ![u.locs - 1] = new] /\ u.locs - 1 > u.globs
  BY DEF AddedLocal
<1>4. new.name = e.name /\ new.prim = e.prim BY DEF EntryType
<1> HIDE DEF new
<1>5. /\ u.locs - 1 \in 0 .. NSYMBOLS - 1 /\ r.ent[u.locs - 1] = new
      /\ \A i \in 0 .. NSYMBOLS - 1 : i # u.locs - 1 => r.ent[i] = u.ent[i]
  BY <1>1, <1>3
<1> DEFINE ox == Append(ow, b)
<1>6. /\ Len(ox) = Len(ow) + 1 /\ DOMAIN ox = 1 .. Len(ow) + 1 /\ ox[Len(ow) + 1] = b
      /\ \A i \in 1 .. Len(ow) : ox[i] = ow[i]
  BY AppendProperties
<1> HIDE DEF ox
<1>7. NSYMBOLS - r.locs = Len(ox) BY <1>1, <1>2, <1>3, <1>6
<1>8. ASSUME NEW i \in DOMAIN ox
      PROVE  r.ent[NSYMBOLS - i].name = ox[i].name /\ r.ent[NSYMBOLS - i].prim = ox[i].prim
  <2>1. CASE i = Len(ow) + 1
    <3>1. NSYMBOLS - i = u.locs - 1
      <4>1. NSYMBOLS \in Nat /\ u.locs \in Nat /\ i = (NSYMBOLS - u.locs) + 1 BY <1>1, <1>2, <2>1
      <4>2. QED BY <4>1
    <3>2. QED BY <1>4, <1>5, <1>6, <2>1, <3>1
  <2>2. CASE i # Len(ow) + 1
    <3>1. i \in 1 .. Len(ow) BY <1>2, <1>6, <2>2
    <3>2. NSYMBOLS - i \in 0 .. NSYMBOLS - 1 /\ NSYMBOLS - i # u.locs - 1 BY <1>1, <1>2, <3>1
    <3>3. r.ent[NSYMBOLS - i] = u.ent[NSYMBOLS - i] BY <1>5, <3>2
    <3>4. QED BY <1>2, <1>6, <3>1, <3>3 DEF Holds
  <2>3. QED BY <2>1, <2>2
<1>9. Holds(r, ox) BY <1>7, <1>8 DEF Holds
<1>10. QED BY <1>9 DEF ox

\* The globals of a table to which a local is added.
LEMMA AddlocGlobals ==
    ASSUME NEW u, Good(u), NEW e, NEW r, AddedLocal(u, e, r)
    PROVE  Globals(r) = Globals(u) /\ \A i \in Globals(u) : r.ent[i] = u.ent[i]
<1>1. /\ u.locs \in Nat /\ NSYMBOLS \in Nat /\ u.locs <= NSYMBOLS /\ u.globs \in Nat
      /\ u.ent \in [0 .. NSYMBOLS - 1 -> EntryType]
  BY Fields DEF Good
<1>2. u.locs - 1 > u.globs /\ r.globs = u.globs BY DEF AddedLocal
<1>3. \A i \in Globals(u) : i \in 0 .. NSYMBOLS - 1 /\ i # u.locs - 1 BY <1>1, <1>2 DEF Globals
<1>4. Globals(r) = Globals(u) BY <1>2 DEF Globals
<1>5. \A i \in 0 .. NSYMBOLS - 1 : i # u.locs - 1 => r.ent[i] = u.ent[i]
  BY <1>1 DEF AddedLocal
<1>6. QED BY <1>3, <1>4, <1>5

\* Tables with the same globals know and sign the same.
LEMMA SameGlobals ==
    ASSUME NEW u, NEW r, Globals(r) = Globals(u), \A i \in Globals(u) : r.ent[i] = u.ent[i],
           NEW kn, NEW fi
    PROVE  /\ Tabled(u) => Tabled(r)
           /\ Knows(u, kn) => Knows(r, kn)
           /\ Signs(u, fi) => Signs(r, fi)
<1>1. \A i, n : IsGlobal(r, i, n) <=> IsGlobal(u, i, n) BY DEF IsGlobal
<1>2. Tabled(u) => Tabled(r) BY <1>1 DEF Tabled
<1>3. Knows(u, kn) => Knows(r, kn) BY <1>1 DEF Knows
<1>4. Signs(u, fi) => Signs(r, fi) BY <1>1 DEF Signs
<1>5. QED BY <1>2, <1>3, <1>4
-----------------------------------------------------------------------------
(* The table init() leaves. *)

\* Nothing but the empty name and macros.
Blank(u) ==
    /\ Good(u) /\ u.locs = NSYMBOLS
    /\ ~u.fatal => /\ IsGlobal(u, 0, "") /\ u.ent[0].type # "function"
                   /\ \A i \in Globals(u) : i = 0 \/ u.ent[i].type = "macro"

LEMMA FatalBlank == ASSUME NEW u, Good(u), u.locs = NSYMBOLS PROVE Blank(fatal(u))
<1>1. fatal(u).fatal /\ fatal(u).locs = NSYMBOLS BY DEF fatal, Good, TableType
<1>2. QED BY <1>1, FatalGood DEF Blank

LEMMA GallocBlank == ASSUME NEW u, Blank(u), NEW k \in Nat PROVE Blank(galloc(u, k))
<1>1. Good(u) /\ u.locs = NSYMBOLS BY DEF Blank
<1>2. CASE u.nbot + k >= u.ntop BY <1>1, <1>2, FatalBlank DEF galloc
<1>3. CASE ~(u.nbot + k >= u.ntop)
  <2> DEFINE r == [u EXCEPT !.nbot = @ + k]
  <2>1. galloc(u, k) = r BY <1>3 DEF galloc
  <2>2. r.locs = u.locs /\ r.globs = u.globs /\ r.ent = u.ent /\ r.fatal = u.fatal
    BY <1>1 DEF Good, TableType
  <2>3. Good(r) BY <1>1, <2>1, GallocApart
  <2> HIDE DEF r
  <2>4. Globals(r) = Globals(u) BY <2>2 DEF Globals
  <2>5. \A n : IsGlobal(r, 0, n) <=> IsGlobal(u, 0, n) BY <2>2, <2>4 DEF IsGlobal
  <2>6. QED BY <2>1, <2>2, <2>3, <2>4, <2>5, Zenon DEF Blank
<1>4. QED BY <1>2, <1>3

LEMMA MacroBlank ==
    ASSUME NEW u, Blank(u), NEW n \in {"__SUBC__", "__dos"}
    PROVE  Blank(addglob(u, Macro(n)))
<1> DEFINE e == Macro(n)
<1>1. PICK r : r = addglob(u, e) OBVIOUS
<1>2. e \in EntryType /\ e.sig = NoSig BY MacroTyped
<1>3. e.name = n /\ e.type = "macro" BY DEF Macro, Entry
<1> HIDE DEF e
<1>4. Good(u) /\ u.locs = NSYMBOLS /\ u \in TableType BY DEF Blank, Good
<1>5. Good(r) BY <1>1, <1>2, <1>4, AddglobApart
<1>6. CASE r = fatal(u) BY <1>1, <1>4, <1>6, FatalBlank DEF e
<1>7. CASE r # fatal(u)
  <2>1. r.locs = u.locs /\ r.fatal = u.fatal
    <3>1. CASE findglob(u, n) = 0 BY <1>1, <1>2, <1>3, <1>4, <1>7, <3>1, AddglobNewIs DEF AddedGlobal
    <3>2. CASE findglob(u, n) # 0 BY <1>1, <1>2, <1>3, <1>4, <3>2, AddglobOldIs DEF ReplacedGlobal
    <3>3. QED BY <3>1, <3>2
  <2>2. CASE u.fatal BY <1>1, <1>4, <1>5, <2>1, <2>2 DEF Blank, e
  <2>3. CASE ~u.fatal
    <3>1. n # "" OBVIOUS
    <3>2. \A i \in Globals(u) : ~IsGlobal(u, i, n) BY <2>3, <3>1, Zenon DEF Blank, IsGlobal
    <3>3. AddedGlobal(u, e, r) BY <1>1, <1>2, <1>3, <1>4, <1>7, <3>2, FindglobNone, AddglobNewIs
    <3> DEFINE new == [e EXCEPT !.at = u.nbot]
    <3>4. r.globs = u.globs + 1 /\ r.ent = [u.ent EXCEPT ![u.globs] = new] /\ u.globs < u.locs
      BY <3>3 DEF AddedGlobal
    <3>5. new.type = "macro" BY <1>2, <1>3 DEF EntryType
    <3> HIDE DEF new
    <3>6. /\ u.globs \in Nat /\ u.globs < NSYMBOLS /\ NSYMBOLS \in Nat
          /\ u.ent \in [0 .. NSYMBOLS - 1 -> EntryType]
      BY <1>4, <3>4, Fields
    <3>7. Globals(r) = Globals(u) \cup {u.globs} /\ u.globs \notin Globals(u)
          /\ Globals(u) \subseteq 0 .. NSYMBOLS - 1 /\ u.globs \in 0 .. NSYMBOLS - 1
      BY <3>4, <3>6 DEF Globals
    <3>8. r.ent[u.globs] = new /\ \A i \in Globals(u) : r.ent[i] = u.ent[i]
      BY <3>4, <3>6, <3>7
    <3>9. 0 \in Globals(u) BY <2>3 DEF Blank, IsGlobal
    <3>10. IsGlobal(u, 0, "") /\ u.ent[0].type # "function" BY <2>3, Zenon DEF Blank
    <3>11. IsGlobal(r, 0, "") /\ r.ent[0].type # "function"
      BY <3>7, <3>8, <3>9, <3>10, Zenon DEF IsGlobal
    <3>12. \A i \in Globals(r) : i = 0 \/ r.ent[i].type = "macro"
      <4>1. \A i \in Globals(u) : i = 0 \/ u.ent[i].type = "macro" BY <2>3, Zenon DEF Blank
      <4>2. QED BY <3>5, <3>7, <3>8, <4>1
    <3>13. r.locs = NSYMBOLS BY <1>4, <2>1
    <3>14. Blank(r) BY <1>5, <3>11, <3>12, <3>13, Zenon DEF Blank
    <3>15. QED BY <1>1, <3>14 DEF e
  <2>4. QED BY <2>2, <2>3
<1>8. QED BY <1>6, <1>7

LEMMA PredeclaredBlank == Blank(Predeclared)
<1>1. Good(Bare) /\ NoEntry \in EntryType BY BareGood
<1>2. Bare.locs = NSYMBOLS /\ Globals(Bare) = {} BY DEF Bare, Globals
<1> DEFINE r == addglob(Bare, NoEntry)
<1>3. Blank(r)
  <2>1. CASE r = fatal(Bare) BY <1>1, <1>2, <2>1, FatalBlank
  <2>2. CASE r # fatal(Bare)
    <3>1. findglob(Bare, NoEntry.name) = 0 BY <1>1, <1>2, FindglobNone DEF Good
    <3>2. AddedGlobal(Bare, NoEntry, r) BY <1>1, <2>2, <3>1, AddglobNewIs
    <3> DEFINE new == [NoEntry EXCEPT !.at = Bare.nbot]
    <3>3. r.globs = Bare.globs + 1 /\ r.ent = [Bare.ent EXCEPT ![Bare.globs] = new] /\ r.locs = Bare.locs
      BY <3>2 DEF AddedGlobal
    <3>4. Bare.globs = 0 /\ Bare.ent \in [0 .. NSYMBOLS - 1 -> EntryType] /\ NSYMBOLS \in Nat \ {0}
      BY <1>1, Fields DEF Good, Bare
    <3>5. new.type = "" /\ new.name = "" BY Zenon DEF NoEntry, Entry
    <3> HIDE DEF new, r
    <3>6. r.ent[0] = new /\ Globals(r) = {0} BY <3>3, <3>4 DEF Globals
    <3>7. r.ent[0].type # "function" /\ r.ent[0].type # "macro" /\ r.ent[0].name = ""
      BY <3>5, <3>6, Zenon
    <3>8. IsGlobal(r, 0, "") BY <3>6, <3>7, Zenon DEF IsGlobal
    <3>9. \A i \in Globals(r) : i = 0 BY <3>6
    <3>10. Good(r) BY <1>1, BareGood, AddglobApart DEF r
    <3>11. QED BY <1>2, <3>3, <3>7, <3>8, <3>9, <3>10, Zenon DEF Blank
  <2>3. QED BY <2>1, <2>2
<1>4. \A u : Blank(u) => Blank(Predefined(u, "__SUBC__")) /\ Blank(Predefined(u, "__dos"))
  BY GallocBlank, MacroBlank DEF Predefined
<1>5. QED BY <1>3, <1>4 DEF Predeclared
-----------------------------------------------------------------------------
(* Every step keeps the scopes. *)

Known(n, prim) == n \in DOMAIN known /\ known[n] = prim
Place ==
    /\ stale \in BOOLEAN
    /\ at = "outside" => own = <<>>
    /\ at \in {"parameters", "declared", "body"} => head.name \in Names
    /\ at = "declared" => head.name \in DOMAIN first /\ Known(head.name, head.prim)
Scoped ==
    ~Rejected =>
       /\ Tabled(t) /\ Knows(t, known) /\ Signs(t, first)
       /\ ~stale /\ at # "behind" => Holds(t, own)
ScopesInv == Inv /\ Place /\ Scoped

Accepted(u) == ~u.fatal /\ ~u.err

\* A global that the program declares, and that is no error.
LEMMA AddglobStep ==
    ASSUME NEW u, Good(u), Tabled(u), NEW kn, Knows(u, kn), NEW fi, Signs(u, fi),
           NEW e \in EntryType, Named(e), e.name \in Names,
           e.type = "function" => e.name \in DOMAIN fi,
           Accepted(addglob(u, e))
    PROVE  /\ Tabled(addglob(u, e)) /\ Knows(addglob(u, e), With(kn, e.name, e.prim))
           /\ Signs(addglob(u, e), fi)
           /\ \A ow \in Seq([name : Names, prim : Prims]) : Holds(u, ow) => Holds(addglob(u, e), ow)
<1>1. PICK r : r = addglob(u, e) OBVIOUS
<1>2. r # fatal(u) BY <1>1 DEF Accepted, fatal, Good, TableType
<1>3. PICK k \in 0 .. NSYMBOLS - 1 : Placed(u, e, r, k) BY <1>1, <1>2, AddglobPlaces
<1>4. Tabled(r) BY <1>3, PlacedTabled, Zenon DEF Named
<1>5. Knows(r, With(kn, e.name, e.prim)) BY <1>3, PlacedKnows
<1>6. ~r.err BY <1>1 DEF Accepted
<1>7. Signs(r, fi) BY <1>3, <1>6, PlacedSigns
<1>8. \A ow \in Seq([name : Names, prim : Prims]) : Holds(u, ow) => Holds(r, ow)
  BY <1>3, PlacedHolds
<1>9. QED BY <1>1, <1>4, <1>5, <1>7, <1>8

DeclaredAs(e, n, prim, type) ==
    /\ e \in EntryType /\ Named(e) /\ e.name = n /\ e.prim = prim /\ e.type = type
    /\ e.sig = NoSig
LEMMA DeclaredEntry ==
    ASSUME NEW n \in Names, NEW prim \in Types, NEW type \in {"variable", "function"},
           NEW stcls \in {"", "public", "extern", "static", "sproto", "auto"}
    PROVE  DeclaredAs(Entry(n, prim, type, stcls, 0, 0), n, prim, type)
<1> DEFINE e == Entry(n, prim, type, stcls, 0, 0)
<1>1. n \in DOMAIN Width /\ n # "" BY NamesAssumption, Zenon
<1>2. type \in {"", "macro", "variable", "function"} /\ type # "macro" OBVIOUS
<1>3. e \in EntryType BY <1>1, <1>2, Entries
<1>4. e.name = n /\ e.prim = prim /\ e.type = type /\ e.sig = NoSig BY DEF Entry
<1>5. Named(e) BY <1>1, <1>2, <1>4, Zenon DEF Named
<1> HIDE DEF e
<1>6. DeclaredAs(e, n, prim, type) BY <1>3, <1>4, <1>5 DEF DeclaredAs
<1>7. QED BY <1>6 DEF e

\* A function that the program declares: its signature is written the first time.
LEMMA DeclareStep ==
    ASSUME NEW u, Good(u), Tabled(u), NEW kn, Knows(u, kn), NEW fi, Signs(u, fi),
           NEW e \in EntryType, Named(e), e.name \in Names, e.type = "function", e.sig = NoSig,
           NEW f, ~f.stale => f.types = Parameters(u),
           NEW fx, fx = IF e.name \in DOMAIN fi THEN fi ELSE With(fi, e.name, f),
           NEW r, r = Signed(addglob(u, e)), Accepted(r)
    PROVE  /\ Tabled(r) /\ Knows(r, With(kn, e.name, e.prim)) /\ Signs(r, fx)
           /\ \A ow \in Seq([name : Names, prim : Prims]) : Holds(u, ow) => Holds(r, ow)
<1>1. PICK d : d = addglob(u, e) OBVIOUS
<1>2. PICK kx : kx = With(kn, e.name, e.prim) OBVIOUS
<1>3. Accepted(d) BY <1>1 DEF Accepted, Signed
<1>4. d # fatal(u) BY <1>3 DEF Accepted, fatal, Good, TableType
<1>5. PICK k \in 0 .. NSYMBOLS - 1 : Placed(u, e, d, k) BY <1>1, <1>4, AddglobPlaces
<1>6. Good(d) /\ d \in TableType BY <1>1, AddglobApart DEF Good
<1>7. Tabled(d) BY <1>5, PlacedTabled, Zenon DEF Named
<1>8. Knows(d, kx) BY <1>2, <1>5, PlacedKnows
<1>9. \A ow \in Seq([name : Names, prim : Prims]) : Holds(u, ow) => Holds(d, ow) BY <1>5, PlacedHolds
<1>10. d.y = k /\ k \in Globals(d) /\ IsGlobal(d, k, e.name) /\ d.ent[k].type = "function"
  BY <1>5 DEF Placed
<1>11. PICK types : types = Parameters(d) OBVIOUS
<1>12. types \in Seq(Types) BY <1>6, <1>11, ParametersTyped
<1>13. r = signature(d, k, types) BY <1>1, <1>3, <1>10, <1>11 DEF Signed, Accepted
<1>14. Signature(d, k, types, r)
  <2>1. r # fatal(d) /\ r # TooMany(d) BY <1>3, <1>6 DEF Accepted, fatal, TooMany, TableType
  <2>2. QED BY <1>6, <1>12, <1>13, <2>1, SignatureIs
<1>15. /\ Globals(r) = Globals(d) /\ r.locs = d.locs
       /\ \A i \in 0 .. NSYMBOLS - 1 :
             /\ r.ent[i].name = d.ent[i].name /\ r.ent[i].type = d.ent[i].type
             /\ r.ent[i].prim = d.ent[i].prim
       /\ \A i \in Globals(d) : i # k \/ d.ent[k].sig[1] => r.ent[i] = d.ent[i]
       /\ ~d.ent[k].sig[1] => r.ent[k].sig = <<TRUE, types, d.nbot>>
  <2>1. Told(d, k, types, r) BY <1>6, <1>10, <1>14, SignatureTells
  <2>2. QED BY <2>1 DEF Told
<1>16. Globals(d) \subseteq 0 .. NSYMBOLS - 1 BY <1>6, FindglobSet
<1>17. \A i, n : IsGlobal(r, i, n) <=> IsGlobal(d, i, n) BY <1>15, <1>16 DEF IsGlobal
<1>18. Tabled(r)
  <2>1. IsGlobal(r, 0, "") BY <1>7, <1>17, Zenon DEF Tabled
  <2>2. ASSUME NEW i \in Globals(r), NEW j \in Globals(r), i # j,
               r.ent[i].type # "macro", r.ent[j].type # "macro", r.ent[i].name = r.ent[j].name
        PROVE  FALSE
    <3>1. i \in Globals(d) /\ j \in Globals(d) /\ i \in 0 .. NSYMBOLS - 1 /\ j \in 0 .. NSYMBOLS - 1
      BY <1>15, <1>16
    <3>2. /\ d.ent[i].type # "macro" /\ d.ent[j].type # "macro" /\ d.ent[i].name = d.ent[j].name
      BY <1>15, <2>2, <3>1
    <3>3. QED BY <1>7, <2>2, <3>1, <3>2 DEF Tabled
  <2>3. QED BY <2>1, <2>2, Zenon DEF Tabled
<1>19. Knows(r, kx)
  <2>1. \A i \in Globals(d) : r.ent[i].prim = d.ent[i].prim BY <1>15, <1>16
  <2>2. QED BY <1>8, <1>15, <1>17, <2>1 DEF Knows
<1>20. ASSUME NEW ow \in Seq([name : Names, prim : Prims]), Holds(u, ow) PROVE Holds(r, ow)
  <2>1. Holds(d, ow) BY <1>9, <1>20
  <2>2. Len(ow) \in Nat /\ DOMAIN ow = 1 .. Len(ow) /\ NSYMBOLS - d.locs = Len(ow)
    BY <2>1, LenProperties DEF Holds
  <2>3. d.locs \in Nat /\ NSYMBOLS \in Nat BY <1>6, Fields
  <2>4. \A i \in DOMAIN ow : NSYMBOLS - i \in 0 .. NSYMBOLS - 1 BY <2>2, <2>3
  <2>5. QED BY <1>15, <2>1, <2>4 DEF Holds
<1>21. types = Parameters(u)
  <2>1. d.locs = u.locs /\ \A i \in Locals(u) : d.ent[i] = u.ent[i] BY <1>5 DEF Placed
  <2>2. u.locs \in Nat /\ NSYMBOLS \in Nat BY Fields DEF Good
  <2>3. \A i \in 1 .. NSYMBOLS - u.locs : NSYMBOLS - i \in Locals(u) BY <2>2 DEF Locals
  <2>4. QED BY <1>11, <2>1, <2>3 DEF Parameters
<1>22. CASE e.name \in DOMAIN fi
  <2>1. ~d.err BY <1>3 DEF Accepted
  <2>2. Signs(d, fi) BY <1>5, <1>22, <2>1, PlacedSigns
  <2>3. PICK i \in Globals(d) : IsGlobal(d, i, e.name) /\ SignedAs(d.ent[i].sig, fi[e.name])
    BY <1>22, <2>2 DEF Signs
  <2>4. i = k BY <1>6, <1>7, <1>10, <2>3, FindglobIs
  <2>5. d.ent[k].sig[1] BY <2>3, <2>4 DEF SignedAs
  <2>6. Signs(r, fi) BY <1>15, <2>2, <2>5, SameGlobals
  <2>7. QED BY <1>2, <1>18, <1>19, <1>20, <1>22, <2>6
<1>23. CASE e.name \notin DOMAIN fi
  <2>1. fx = With(fi, e.name, f) BY <1>23
  <2>2. /\ DOMAIN fx = DOMAIN fi \cup {e.name} /\ fx[e.name] = f
        /\ \A n \in DOMAIN fi : fx[n] = fi[n]
    BY <1>23, <2>1 DEF With
  <2>3. ~(k \in Globals(u) /\ u.ent[k].type = "function")
    <3>1. ASSUME k \in Globals(u), u.ent[k].type = "function" PROVE FALSE
      <4>1. u.ent[k].name = e.name BY <1>5, <3>1 DEF Placed, IsGlobal
      <4>2. QED BY <1>23, <3>1, <4>1 DEF Signs
    <3>2. QED BY <3>1
  <2>4. d.ent[k].sig = NoSig BY <1>5, <2>3 DEF Placed
  <2>5. ~d.ent[k].sig[1] BY <2>4 DEF NoSig
  <2>6. r.ent[k].sig = <<TRUE, types, d.nbot>> BY <1>15, <2>5
  <2>7. SignedAs(r.ent[k].sig, f) BY <1>21, <2>6 DEF SignedAs
  <2>8. ASSUME NEW n \in DOMAIN fx
        PROVE  /\ n \in Names
               /\ \E i \in Globals(r) : /\ IsGlobal(r, i, n) /\ r.ent[i].type = "function"
                                        /\ SignedAs(r.ent[i].sig, fx[n])
    <3>1. CASE n = e.name
      <4>1. k \in Globals(r) /\ IsGlobal(r, k, n) /\ r.ent[k].type = "function"
        BY <1>10, <1>15, <1>17, <3>1
      <4>2. QED BY <2>2, <2>7, <3>1, <4>1
    <3>2. CASE n \in DOMAIN fi
      <4>1. PICK i \in Globals(u) : /\ IsGlobal(u, i, n) /\ u.ent[i].type = "function"
                                    /\ SignedAs(u.ent[i].sig, fi[n])
        BY <3>2 DEF Signs
      <4>2. i # k BY <2>3, <4>1
      <4>3. i \in Globals(d) /\ d.ent[i] = u.ent[i] BY <1>5, <4>2 DEF Placed
      <4>4. i \in Globals(r) /\ r.ent[i] = u.ent[i] BY <1>15, <4>2, <4>3
      <4>5. IsGlobal(r, i, n) BY <4>1, <4>4 DEF IsGlobal
      <4>6. n \in Names BY <3>2 DEF Signs
      <4>7. QED BY <2>2, <3>2, <4>1, <4>4, <4>5, <4>6
    <3>3. QED BY <2>2, <3>1, <3>2
  <2>9. ASSUME NEW i \in Globals(r), r.ent[i].type = "function" PROVE r.ent[i].name \in DOMAIN fx
    <3>1. CASE i = k BY <1>10, <1>17, <2>2, <3>1 DEF IsGlobal
    <3>2. CASE i # k
      <4>1. i \in Globals(d) /\ r.ent[i] = d.ent[i] BY <1>15, <3>2
      <4>2. i \in Globals(u) /\ d.ent[i] = u.ent[i] BY <1>5, <3>2, <4>1 DEF Placed
      <4>3. QED BY <2>2, <2>9, <4>1, <4>2 DEF Signs
    <3>3. QED BY <3>1, <3>2
  <2>10. Signs(r, fx) BY <2>8, <2>9 DEF Signs
  <2>11. QED BY <1>2, <1>18, <1>19, <1>20, <2>10
<1>24. QED BY <1>22, <1>23

LEMMA InitScopes == Init => ScopesInv
<1>1. ASSUME Init PROVE ScopesInv
  <2>1. Inv BY <1>1, InitInv
  <2>2. /\ t = Predeclared /\ at = "outside" /\ own = <<>> /\ stale = FALSE
        /\ DOMAIN first = {} /\ DOMAIN known = {}
    BY <1>1 DEF Init
  <2>3. Place BY <2>2 DEF Place
  <2>4. Scoped
    <3>1. Blank(t) BY <2>2, PredeclaredBlank
    <3>2. SUFFICES ASSUME ~t.fatal
                   PROVE  Tabled(t) /\ Knows(t, known) /\ Signs(t, first) /\ Holds(t, own)
      BY Zenon DEF Scoped, Rejected
    <3>3. /\ IsGlobal(t, 0, "") /\ t.ent[0].type # "function"
          /\ \A i \in Globals(t) : i = 0 \/ t.ent[i].type = "macro"
      BY <3>1, <3>2, Zenon DEF Blank
    <3>4. Tabled(t) BY <3>3, Zenon DEF Tabled
    <3>5. ASSUME NEW n \in Names, NEW i \in Globals(t), IsGlobal(t, i, n) PROVE FALSE
      <4>1. i = 0 BY <3>3, <3>5, Zenon DEF IsGlobal
      <4>2. n = "" BY <3>3, <3>5, <4>1, Zenon DEF IsGlobal
      <4>3. QED BY <4>2, NamesAssumption, Zenon
    <3>6. Knows(t, known) BY <2>2, <3>5, Zenon DEF Knows
    <3>7. \A i \in Globals(t) : t.ent[i].type # "function"
      <4>1. TAKE i \in Globals(t)
      <4>2. CASE i = 0 BY <3>3, <4>2, Zenon
      <4>3. CASE t.ent[i].type = "macro" BY <4>3
      <4>4. QED BY <3>3, <4>2, <4>3, Zenon
    <3>8. Signs(t, first) BY <2>2, <3>7 DEF Signs
    <3>9. Holds(t, own)
      <4>1. t.locs = NSYMBOLS /\ NSYMBOLS \in Nat BY <3>1, SizesAssumption, Zenon DEF Blank
      <4>2. own = <<>> /\ Len(own) = 0 /\ DOMAIN own = {} BY <2>2
      <4>3. QED BY <4>1, <4>2 DEF Holds
    <3>10. QED BY <3>4, <3>6, <3>8, <3>9
  <2>5. QED BY <2>1, <2>3, <2>4 DEF ScopesInv
<1>2. QED BY <1>1

\* What a step that keeps the table keeps.
LEMMA ScopedHere ==
    ASSUME ScopesInv, ~Rejected
    PROVE  /\ Good(t) /\ Tabled(t) /\ Knows(t, known) /\ Signs(t, first)
           /\ own \in Seq([name : Names, prim : Prims])
           /\ ~stale /\ at # "behind" => Holds(t, own)
BY InvGood DEF ScopesInv, Scoped, Inv, TypeOK

\* Scoped' in terms of the new table.
LEMMA ScopedNext ==
    ASSUME NEW u, u = t', NEW kn, kn = known', NEW fi, fi = first', NEW ow, ow = own',
           Accepted(u) => /\ Tabled(u) /\ Knows(u, kn) /\ Signs(u, fi)
                          /\ ~stale' /\ at' # "behind" => Holds(u, ow)
    PROVE  Scoped'
<1>1. Tabled(u) <=> Tabled(t)' BY DEF Tabled, IsGlobal, Globals
<1>2. Knows(u, kn) <=> Knows(t, known)' BY DEF Knows, IsGlobal, Globals
<1>3. Signs(u, fi) <=> Signs(t, first)' BY DEF Signs, IsGlobal, Globals
<1>4. Holds(u, ow) <=> Holds(t, own)' BY DEF Holds
<1>5. Rejected' <=> ~Accepted(u) BY DEF Rejected, Accepted
<1>6. QED BY <1>1, <1>2, <1>3, <1>4, <1>5, Zenon DEF Scoped

LEMMA ObjectScopes ==
    ASSUME ScopesInv, NEW n \in Names, NEW prim \in Prims, NEW stcls \in {"public", "extern", "static"},
           Object(n, prim, stcls)
    PROVE  Scoped' /\ Place'
<1> DEFINE e == Entry(n, prim, "variable", stcls, 0, 0)
<1>1. ~Rejected /\ at = "outside" /\ at' = at /\ own' = own /\ stale' = stale /\ head' = head
      /\ first' = first
  BY DEF Object, Here
<1>2. /\ Good(t) /\ Tabled(t) /\ Knows(t, known) /\ Signs(t, first)
      /\ own \in Seq([name : Names, prim : Prims]) /\ (~stale => Holds(t, own))
  BY <1>1, ScopedHere
<1>3. /\ e \in EntryType /\ Named(e) /\ e.name = n /\ e.prim = prim /\ e.type = "variable"
  <2>1. /\ prim \in Types /\ "variable" \in {"variable", "function"}
        /\ stcls \in {"", "public", "extern", "static", "sproto", "auto"}
    BY Zenon DEF Types
  <2>2. DeclaredAs(e, n, prim, "variable") BY <2>1, DeclaredEntry, Zenon
  <2> HIDE DEF e
  <2>3. QED BY <2>2 DEF DeclaredAs
<1>4. PICK u : u = t' OBVIOUS
<1>5. PICK kn : kn = known' OBVIOUS
<1>6. u = addglob(t, e) /\ kn = With(known, n, prim) BY <1>4, <1>5 DEF Object
<1> HIDE DEF e
<1>7. e.type # "function" BY <1>3
<1>8. ASSUME Accepted(u)
      PROVE  Tabled(u) /\ Knows(u, kn) /\ Signs(u, first) /\ (~stale => Holds(u, own))
  BY <1>2, <1>3, <1>6, <1>7, <1>8, AddglobStep
<1>9. Scoped' BY <1>1, <1>4, <1>5, <1>8, ScopedNext
<1>10. Place' BY <1>1 DEF Place, ScopesInv
<1>11. QED BY <1>9, <1>10

LEMMA LocalScopes ==
    ASSUME ScopesInv, NEW n \in Names, NEW prim \in Prims, Parameter(n, prim) \/ Local(n, prim)
    PROVE  Scoped' /\ Place'
<1> DEFINE e == Entry(n, prim, "variable", "auto", 0, 0)
           b == [name |-> n, prim |-> prim]
<1>1. /\ ~Rejected /\ at \in {"parameters", "body"} /\ at' = at /\ stale' = stale /\ head' = head
      /\ first' = first /\ known' = known
  BY DEF Parameter, Local, Here
<1>2. /\ Good(t) /\ Tabled(t) /\ Knows(t, known) /\ Signs(t, first)
      /\ own \in Seq([name : Names, prim : Prims]) /\ (~stale => Holds(t, own))
  BY <1>1, ScopedHere
<1>3. /\ e \in EntryType /\ e.name = n /\ e.prim = prim
  <2>1. /\ prim \in Types /\ "variable" \in {"variable", "function"}
        /\ "auto" \in {"", "public", "extern", "static", "sproto", "auto"}
    BY Zenon DEF Types
  <2>2. DeclaredAs(e, n, prim, "variable") BY <2>1, DeclaredEntry, Zenon
  <2> HIDE DEF e
  <2>3. QED BY <2>2 DEF DeclaredAs
<1>4. b \in [name : Names, prim : Prims] /\ b.name = e.name /\ b.prim = e.prim BY <1>3
<1>5. PICK u : u = t' OBVIOUS
<1>6. PICK ow : ow = own' OBVIOUS
<1>7. u = addloc(t, e) /\ ow = Append(own, b) BY <1>5, <1>6 DEF Parameter, Local
<1> HIDE DEF e, b
<1>8. ASSUME Accepted(u)
      PROVE  Tabled(u) /\ Knows(u, known) /\ Signs(u, first) /\ (~stale => Holds(u, ow))
  <2>1. u # fatal(t) BY <1>2, <1>8 DEF Accepted, fatal, Good, TableType
  <2>2. AddedLocal(t, e, u) BY <1>2, <1>3, <1>7, <2>1, AddlocIs
  <2>3. Globals(u) = Globals(t) /\ \A i \in Globals(t) : u.ent[i] = t.ent[i]
    BY <1>2, <2>2, AddlocGlobals
  <2>4. Tabled(u) /\ Knows(u, known) /\ Signs(u, first) BY <1>2, <2>3, SameGlobals
  <2>5. ~stale => Holds(u, ow) BY <1>2, <1>3, <1>4, <1>7, <2>2, AddlocHolds
  <2>6. QED BY <2>4, <2>5
<1>9. Scoped' BY <1>1, <1>5, <1>6, <1>8, ScopedNext
<1>10. Place' BY <1>1 DEF Place, ScopesInv, Known
<1>11. QED BY <1>9, <1>10

LEMMA DefineScopes == ASSUME ScopesInv, Define PROVE Scoped' /\ Place'
<1> DEFINE e == Entry(head.name, head.prim, "function", head.stcls, 0, 0)
<1>1. /\ ~Rejected /\ at = "declared" /\ at' = "body" /\ stale' = stale /\ head' = head
      /\ first' = first /\ known' = known /\ own' = own
  BY DEF Define, Here
<1>2. /\ Good(t) /\ Tabled(t) /\ Knows(t, known) /\ Signs(t, first)
      /\ own \in Seq([name : Names, prim : Prims]) /\ (~stale => Holds(t, own))
  BY <1>1, ScopedHere
<1>3. head.name \in Names /\ head.name \in DOMAIN first /\ Known(head.name, head.prim) /\ stale \in BOOLEAN
  BY <1>1 DEF ScopesInv, Place
<1>4. e \in EntryType /\ Named(e) /\ e.name = head.name /\ e.prim = head.prim
  <2>1. head.prim \in Types /\ head.stcls \in {"", "public", "extern", "static", "sproto", "auto"}
    BY DEF ScopesInv, Inv, TypeOK
  <2>2. "function" \in {"variable", "function"} OBVIOUS
  <2>3. DeclaredAs(e, head.name, head.prim, "function") BY <1>3, <2>1, <2>2, DeclaredEntry, Zenon
  <2> HIDE DEF e
  <2>4. QED BY <2>3 DEF DeclaredAs
<1>5. PICK u : u = t' OBVIOUS
<1>6. u = addglob(t, e) BY <1>5 DEF Define
<1> HIDE DEF e
<1>7. ASSUME Accepted(u)
      PROVE  Tabled(u) /\ Knows(u, known) /\ Signs(u, first) /\ (~stale => Holds(u, own))
  <2>1. PICK kn : kn = With(known, e.name, e.prim) OBVIOUS
  <2>2. Tabled(u) /\ Knows(u, kn) /\ Signs(u, first) /\ (~stale => Holds(u, own))
    BY <1>2, <1>3, <1>4, <1>6, <1>7, <2>1, AddglobStep
  <2>3. DOMAIN kn = DOMAIN known /\ \A n \in DOMAIN known : kn[n] = known[n]
    BY <1>3, <1>4, <2>1 DEF With, Known
  <2>4. Knows(u, known) BY <2>2, <2>3 DEF Knows
  <2>5. QED BY <2>2, <2>4
<1>8. Scoped' BY <1>1, <1>5, <1>7, ScopedNext
<1>9. Place' BY <1>1, <1>3 DEF Place
<1>10. QED BY <1>8, <1>9

LEMMA DeclareScopes == ASSUME ScopesInv, Declare PROVE Scoped' /\ Place'
<1> DEFINE e == Entry(head.name, head.prim, "function", Prototype, 0, 0)
           f == [types |-> OwnTypes, stale |-> stale]
<1>1. /\ ~Rejected /\ at = "parameters" /\ at' = "declared" /\ stale' = stale /\ head' = head
      /\ own' = own
  BY DEF Declare, Here
<1>2. /\ Good(t) /\ Tabled(t) /\ Knows(t, known) /\ Signs(t, first)
      /\ own \in Seq([name : Names, prim : Prims]) /\ (~stale => Holds(t, own))
  BY <1>1, ScopedHere
<1>3. head.name \in Names /\ stale \in BOOLEAN BY <1>1 DEF ScopesInv, Place
<1>4. /\ e \in EntryType /\ Named(e) /\ e.name = head.name /\ e.prim = head.prim
      /\ e.type = "function" /\ e.sig = NoSig
  <2>1. head.prim \in Types /\ Prototype \in {"", "public", "extern", "static", "sproto", "auto"}
    BY DEF ScopesInv, Inv, TypeOK, Prototype
  <2>2. "function" \in {"variable", "function"} OBVIOUS
  <2>3. DeclaredAs(e, head.name, head.prim, "function") BY <1>3, <2>1, <2>2, DeclaredEntry, Zenon
  <2> HIDE DEF e
  <2>4. QED BY <2>3 DEF DeclaredAs
<1>5. PICK u : u = t' OBVIOUS
<1>6. PICK kn : kn = known' OBVIOUS
<1>7. PICK fi : fi = first' OBVIOUS
<1>8. /\ u = Signed(addglob(t, e)) /\ kn = With(known, head.name, head.prim)
      /\ fi = IF head.name \in DOMAIN first THEN first ELSE With(first, head.name, f)
  BY <1>5, <1>6, <1>7 DEF Declare
<1>9. ~f.stale => f.types = Parameters(t)
  <2>1. f.stale = stale /\ f.types = OwnTypes OBVIOUS
  <2> HIDE DEF f, e
  <2>2. ASSUME ~stale PROVE OwnTypes = Parameters(t)
    <3>1. NSYMBOLS - t.locs = Len(own) /\ \A i \in DOMAIN own : t.ent[NSYMBOLS - i].prim = own[i].prim
      BY <1>2, <2>2 DEF Holds
    <3>2. DOMAIN own = 1 .. Len(own) BY <1>2, LenProperties
    <3>3. QED BY <3>1, <3>2 DEF OwnTypes, Parameters
  <2>3. QED BY <2>1, <2>2
<1> HIDE DEF e, f
<1>10. fi = IF e.name \in DOMAIN first THEN first ELSE With(first, e.name, f) BY <1>4, <1>8
<1>11. ASSUME Accepted(u)
       PROVE  Tabled(u) /\ Knows(u, kn) /\ Signs(u, fi) /\ (~stale => Holds(u, own))
  BY <1>2, <1>3, <1>4, <1>8, <1>9, <1>10, <1>11, DeclareStep
<1>12. Scoped' BY <1>1, <1>5, <1>6, <1>7, <1>11, ScopedNext
<1>13. head.name \in DOMAIN fi /\ head.name \in DOMAIN kn /\ kn[head.name] = head.prim
  BY <1>8 DEF With
<1>14. Place' BY <1>1, <1>3, <1>6, <1>7, <1>13 DEF Place, Known
<1>15. QED BY <1>12, <1>14

\* decl() returns, and an #include in front of that.
LEMMA ForgetScopes == ASSUME ScopesInv, Forget PROVE Scoped' /\ Place'
<1>1. /\ ~Rejected /\ at' = "outside" /\ own' = <<>> /\ stale' = FALSE
      /\ known' = known /\ first' = first /\ t' = clrlocs(t)
  BY DEF Forget, Here
<1>2. Good(t) /\ Tabled(t) /\ Knows(t, known) /\ Signs(t, first) BY <1>1, ScopedHere
<1>3. PICK u : u = t' OBVIOUS
<1>4. u.globs = t.globs /\ u.ent = t.ent /\ u.locs = NSYMBOLS
  BY <1>1, <1>2, <1>3 DEF clrlocs, Good, TableType
<1>5. Globals(u) = Globals(t) /\ \A i \in Globals(t) : u.ent[i] = t.ent[i]
  BY <1>4 DEF Globals
<1>6. Tabled(u) /\ Knows(u, known) /\ Signs(u, first) BY <1>2, <1>5, SameGlobals
<1>7. Holds(u, <<>>) BY <1>4, SizesAssumption DEF Holds
<1>8. Scoped' BY <1>1, <1>3, <1>6, <1>7, ScopedNext
<1>9. Place' BY <1>1 DEF Place
<1>10. QED BY <1>8, <1>9

LEMMA OtherScopes ==
    ASSUME ScopesInv,
           \/ \E n \in Names, prim \in Prims, stcls \in {"public", "extern", "static"} : OpenFunction(n, prim, stcls)
           \/ Behind \/ Include \/ EndInclude \/ Ended \/ UNCHANGED vars
    PROVE  Scoped' /\ Place'
<1>1. PICK u : u = t' OBVIOUS
<1>2. t' = t /\ known' = known /\ first' = first
  BY DEF OpenFunction, Behind, Include, EndInclude, Ended, vars
<1>3. ~Rejected => /\ Tabled(t) /\ Knows(t, known) /\ Signs(t, first)
                   /\ ~stale /\ at # "behind" => Holds(t, own)
  BY ScopedHere
<1>4. Place BY DEF ScopesInv
<1>5. /\ Place'
      /\ ~Rejected /\ ~stale' /\ at' # "behind" => ~stale /\ at # "behind" /\ own' = own
  <2>1. CASE \E n \in Names, prim \in Prims, stcls \in {"public", "extern", "static"} : OpenFunction(n, prim, stcls)
    <3>1. /\ at = "outside" /\ at' = "parameters" /\ head'.name \in Names /\ own' = <<>> /\ stale' = stale
      BY <2>1 DEF OpenFunction, Here
    <3>2. QED BY <1>4, <3>1 DEF Place
  <2>2. CASE Behind BY <1>4, <2>2 DEF Behind, Here, Place
  <2>3. CASE Include BY <1>4, <2>3 DEF Include, Here, Place
  <2>4. CASE EndInclude BY <1>4, <2>4 DEF EndInclude, Here, Place
  <2>5. CASE Ended \/ UNCHANGED vars BY <1>4, <2>5 DEF Ended, vars, Place, Known
  <2>6. QED BY <2>1, <2>2, <2>3, <2>4, <2>5
<1>6. Accepted(u) => ~Rejected BY <1>1, <1>2 DEF Accepted, Rejected
<1>7. Scoped' BY <1>1, <1>2, <1>3, <1>5, <1>6, ScopedNext
<1>8. QED BY <1>5, <1>7

LEMMA StepScopes == ScopesInv /\ [Next]_vars => ScopesInv'
<1>1. ASSUME ScopesInv, [Next]_vars PROVE ScopesInv'
  <2>1. Inv' BY <1>1, StepInv DEF ScopesInv
  <2>2. Scoped' /\ Place'
    BY <1>1, ObjectScopes, LocalScopes, DefineScopes, DeclareScopes, ForgetScopes, OtherScopes DEF Next
  <2>3. QED BY <2>1, <2>2 DEF ScopesInv
<1>2. QED BY <1>1

\* The table holds what the program has declared, at every step: decl() of decl.c.
THEOREM TableIsRight == Spec => []ScopesInv
BY InitScopes, StepScopes, PTL DEF Spec

-----------------------------------------------------------------------------
(* What is found. *)

\* The locals grow downwards: the newest of a name is the first that findloc() meets.
LEMMA FindlocNewest ==
    ASSUME NEW u, Good(u), Tabled(u), NEW ow \in Seq([name : Names, prim : Prims]), Holds(u, ow),
           NEW n \in Names
    PROVE  /\ findloc(u, n) = 0 <=> \A i \in DOMAIN ow : ow[i].name # n
           /\ findloc(u, n) # 0 =>
                 /\ NSYMBOLS - findloc(u, n) \in DOMAIN ow
                 /\ ow[NSYMBOLS - findloc(u, n)].name = n
                 /\ u.ent[findloc(u, n)].prim = ow[NSYMBOLS - findloc(u, n)].prim
                 /\ \A j \in DOMAIN ow : ow[j].name = n => j <= NSYMBOLS - findloc(u, n)
<1> DEFINE S == {i \in Locals(u) : u.ent[i].stcls # "member" /\ u.ent[i].name = n}
<1>1. findloc(u, n) = First(S) BY DEF findloc
<1>2. /\ u \in TableType /\ u.globs \in Nat /\ u.locs \in Nat /\ u.locs <= NSYMBOLS /\ NSYMBOLS \in Nat
      /\ u.ent \in [0 .. NSYMBOLS - 1 -> EntryType] /\ u.globs <= u.locs
  BY Fields DEF Good, Apart
<1>3. 0 \in Globals(u) BY Zenon DEF Tabled, IsGlobal
<1>4. u.locs > 0 BY <1>2, <1>3 DEF Globals
<1>5. Len(ow) \in Nat /\ DOMAIN ow = 1 .. Len(ow) /\ NSYMBOLS - u.locs = Len(ow)
  BY LenProperties DEF Holds
<1>6. /\ \A i \in Locals(u) : i \in Nat /\ i # 0 /\ i \in 0 .. NSYMBOLS - 1 /\ NSYMBOLS - i \in DOMAIN ow
                               /\ NSYMBOLS - (NSYMBOLS - i) = i
      /\ \A i \in DOMAIN ow : NSYMBOLS - i \in Locals(u) /\ i \in Nat
  <2>1. ASSUME NEW i \in Locals(u)
        PROVE  i \in Nat /\ i # 0 /\ i \in 0 .. NSYMBOLS - 1 /\ NSYMBOLS - i \in DOMAIN ow
               /\ NSYMBOLS - (NSYMBOLS - i) = i
    BY <1>2, <1>4, <1>5 DEF Locals
  <2>2. ASSUME NEW i \in DOMAIN ow PROVE NSYMBOLS - i \in Locals(u) /\ i \in Nat
    BY <1>2, <1>5 DEF Locals
  <2>3. QED BY <2>1, <2>2
<1>7. \A i \in Locals(u) : i \in S <=> ow[NSYMBOLS - i].name = n
  <2>1. TAKE i \in Locals(u)
  <2>2. u.ent[i] \in EntryType BY <1>2, <1>6
  <2>3. u.ent[i].stcls # "member"
    <3>1. u.ent[i].stcls \in {"", "public", "extern", "static", "sproto", "auto"}
      BY <2>2, Zenon DEF EntryType
    <3>2. QED BY <3>1
  <2>4. u.ent[i].name = ow[NSYMBOLS - i].name
    <3>1. NSYMBOLS - i \in DOMAIN ow /\ NSYMBOLS - (NSYMBOLS - i) = i BY <1>6
    <3>2. u.ent[NSYMBOLS - (NSYMBOLS - i)].name = ow[NSYMBOLS - i].name BY <3>1 DEF Holds
    <3>3. QED BY <3>1, <3>2
  <2>5. QED BY <2>3, <2>4
<1>8. S \subseteq Locals(u) /\ S \in SUBSET Nat BY <1>6
<1> HIDE DEF S
<1>9. CASE S = {}
  <2>1. findloc(u, n) = 0 BY <1>1, <1>9 DEF First
  <2>2. ASSUME NEW i \in DOMAIN ow, ow[i].name = n PROVE FALSE
    <3>1. NSYMBOLS - i \in Locals(u) /\ NSYMBOLS - (NSYMBOLS - i) = i
      BY <1>2, <1>6, <2>2
    <3>2. QED BY <1>7, <1>9, <2>2, <3>1
  <2>3. QED BY <2>1, <2>2
<1>10. CASE S # {}
  <2>1. PICK k : k = First(S) OBVIOUS
  <2>2. k \in S BY <1>8, <1>10, <2>1, FirstIsIn
  <2>3. k \in Locals(u) /\ k \in Nat /\ k # 0 /\ NSYMBOLS - k \in DOMAIN ow
        /\ NSYMBOLS - (NSYMBOLS - k) = k
    BY <1>6, <1>8, <2>2
  <2>4. ow[NSYMBOLS - k].name = n BY <1>7, <2>2, <2>3
  <2>5. u.ent[k].prim = ow[NSYMBOLS - k].prim
    <3>1. u.ent[NSYMBOLS - (NSYMBOLS - k)].prim = ow[NSYMBOLS - k].prim BY <2>3 DEF Holds
    <3>2. QED BY <2>3, <3>1
  <2>6. ASSUME NEW j \in DOMAIN ow, ow[j].name = n PROVE j <= NSYMBOLS - k
    <3>1. NSYMBOLS - j \in Locals(u) /\ NSYMBOLS - (NSYMBOLS - j) = j /\ j \in Nat
      BY <1>2, <1>6
    <3>2. NSYMBOLS - j \in S BY <1>7, <2>6, <3>1
    <3>3. k <= NSYMBOLS - j BY <1>8, <2>1, <3>2, FirstIsIn
    <3>4. QED BY <1>2, <2>3, <3>1, <3>3
  <2>7. findloc(u, n) = k BY <1>1, <2>1
  <2>8. QED BY <2>3, <2>4, <2>5, <2>6, <2>7
<1>11. QED BY <1>9, <1>10

LEMMA ScopesHold == ScopesInv => ScopesRight
<1>1. SUFFICES ASSUME ScopesInv, ~stale, ~Rejected, at # "behind", NEW n \in Names
               PROVE  CASE DeclaredIn(n) -> Found(n, own[Newest(n)].prim)
                        [] ~DeclaredIn(n) /\ n \in DOMAIN known -> Found(n, known[n])
                        [] OTHER -> findsym(t, n) = 0
  BY Zenon DEF ScopesRight
<1>2. /\ Good(t) /\ Tabled(t) /\ Knows(t, known) /\ t \in TableType
      /\ own \in Seq([name : Names, prim : Prims]) /\ Holds(t, own)
  BY <1>1, ScopedHere DEF Good
<1>3. /\ findloc(t, n) = 0 <=> ~DeclaredIn(n)
      /\ findloc(t, n) # 0 =>
            /\ NSYMBOLS - findloc(t, n) \in DOMAIN own
            /\ own[NSYMBOLS - findloc(t, n)].name = n
            /\ t.ent[findloc(t, n)].prim = own[NSYMBOLS - findloc(t, n)].prim
            /\ \A j \in DOMAIN own : own[j].name = n => j <= NSYMBOLS - findloc(t, n)
  <2>1. /\ findloc(t, n) = 0 <=> \A i \in DOMAIN own : own[i].name # n
        /\ findloc(t, n) # 0 =>
              /\ NSYMBOLS - findloc(t, n) \in DOMAIN own
              /\ own[NSYMBOLS - findloc(t, n)].name = n
              /\ t.ent[findloc(t, n)].prim = own[NSYMBOLS - findloc(t, n)].prim
              /\ \A j \in DOMAIN own : own[j].name = n => j <= NSYMBOLS - findloc(t, n)
    BY Zenon, <1>2, FindlocNewest
  <2>2. (\A i \in DOMAIN own : own[i].name # n) <=> ~DeclaredIn(n) BY Zenon DEF DeclaredIn
  <2>3. QED BY Zenon, <2>1, <2>2
<1>4. CASE DeclaredIn(n)
  <2>1. PICK k : k = findloc(t, n) OBVIOUS
  <2>2. PICK i : i = NSYMBOLS - k OBVIOUS
  <2>3. /\ k # 0 /\ i \in DOMAIN own /\ own[i].name = n /\ t.ent[k].prim = own[i].prim
        /\ \A j \in DOMAIN own : own[j].name = n => j <= i
    BY <1>3, <1>4, <2>1, <2>2
  <2>4. DOMAIN own \subseteq Nat BY <1>2, LenProperties
  <2>5. Newest(n) = i
    <3>1. /\ Newest(n) \in DOMAIN own /\ own[Newest(n)].name = n
          /\ \A j \in DOMAIN own : own[j].name = n => j <= Newest(n)
      BY <2>3 DEF Newest
    <3>2. i <= Newest(n) /\ Newest(n) <= i /\ i \in Nat /\ Newest(n) \in Nat
      BY <2>3, <2>4, <3>1
    <3>3. QED BY <3>2
  <2>6. findsym(t, n) = k BY <2>1, <2>3 DEF findsym
  <2>7. Found(n, own[Newest(n)].prim) BY <2>3, <2>5, <2>6 DEF Found
  <2>8. QED BY <1>4, <2>7
<1>5. CASE ~DeclaredIn(n) /\ n \in DOMAIN known
  <2>1. findsym(t, n) = findglob(t, n) BY <1>3, <1>5 DEF findsym
  <2>2. PICK i \in Globals(t) : IsGlobal(t, i, n) /\ t.ent[i].prim = known[n]
    BY <1>2, <1>5 DEF Knows
  <2>3. findglob(t, n) = i BY <1>2, <2>2, FindglobIs
  <2>4. i # 0
    <3>1. ASSUME i = 0 PROVE FALSE
      <4>1. n = "" BY <1>2, <2>2, <3>1, Zenon DEF Tabled, IsGlobal
      <4>2. QED BY <4>1, NamesAssumption, Zenon
    <3>2. QED BY <3>1
  <2>5. Found(n, known[n]) BY <2>1, <2>2, <2>3, <2>4 DEF Found
  <2>6. QED BY <1>5, <2>5
<1>6. CASE ~DeclaredIn(n) /\ n \notin DOMAIN known
  <2>1. findsym(t, n) = findglob(t, n) BY <1>3, <1>6 DEF findsym
  <2>2. \A i \in Globals(t) : ~IsGlobal(t, i, n) BY <1>2, <1>6 DEF Knows
  <2>3. findglob(t, n) = 0 BY <1>2, <2>2, FindglobNone
  <2>4. QED BY <1>6, <2>1, <2>3
<1>7. QED BY <1>4, <1>5, <1>6

LEMMA SignaturesHold == ScopesInv => SignaturesOwn
<1>1. SUFFICES ASSUME ScopesInv, ~Rejected, NEW n \in DOMAIN first, ~first[n].stale
               PROVE  t.ent[findglob(t, n)].sig[1] /\ t.ent[findglob(t, n)].sig[2] = first[n].types
  BY Zenon DEF SignaturesOwn
<1>2. Good(t) /\ t \in TableType /\ Tabled(t) /\ Signs(t, first) BY <1>1, ScopedHere DEF Good
<1>3. PICK i \in Globals(t) : IsGlobal(t, i, n) /\ SignedAs(t.ent[i].sig, first[n])
  BY <1>2 DEF Signs
<1>4. findglob(t, n) = i BY <1>2, <1>3, FindglobIs
<1>5. QED BY <1>1, <1>3, <1>4 DEF SignedAs

\* What findsym() of sym.c finds is the newest declaration of a name in its scope,
\* and nothing where there is none, for every program and every size of the table:
\* decl() of decl.c forgets what it has to.
THEOREM ScopesAreRight == Spec => []ScopesRight
<1>1. QED BY TableIsRight, ScopesHold, PTL

\* A function keeps the types of its parameters, as its first declaration gave them
\* outside a header that still sees another function's locals, through every later
\* declaration, definition and header: signature() of decl.c, addglob() of sym.c.
\* That nothing is written over them is EndsNeverMeet.
THEOREM SignaturesAreOwn == Spec => []SignaturesOwn
<1>1. QED BY TableIsRight, SignaturesHold, PTL
=============================================================================
