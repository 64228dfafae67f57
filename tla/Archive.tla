------------------------------- MODULE Archive --------------------------------
(*************************************************************************)
(* Libraries, from src/ar/ar.c, which makes and lists them, to           *)
(* add_library() and add_file() of src/ld/ld.c, which put what they hold *)
(* into the slots the linker works on (Linker's job.files).              *)
(*                                                                       *)
(* A file is a sequence of cells.  A cell is the header of a member, the *)
(* header of an object, or data; the reader cannot tell which but by the *)
(* signature, so that a wrong offset finds what happens to be there.     *)
(*************************************************************************)
EXTENDS Integers, SequencesExt

CONSTANTS
    Jobs,       \* [puts: the files of each call of ar -a, libs: how often the
                \*  library is given to ld, objs: the objects behind it, room: how
                \*  many of their names there is room for in _names]
    Files,      \* what is in the files, by name
    FILES_MAX,
    WRAP        \* a size is kept modulo WRAP, 2^16 bytes

Signature == {"member", "text", "object", "data"}
Cell == [sig : Signature, size : Nat, name : DOMAIN Files]

\* An object, which says itself how long it is.
IsObject(c) == c # <<>> /\ c[1].sig = "object"

ASSUME ArchiveAssumption ==
    /\ \A f \in DOMAIN Files : /\ Files[f] \in Seq(Cell)
                               /\ IsObject(Files[f]) => Files[f][1].size = Len(Files[f])
    /\ \A j \in Jobs : /\ j.puts \in Seq(Seq(DOMAIN Files)) /\ j.puts # <<>>
                       /\ j.libs \in Nat /\ Len(j.objs) \in Nat /\ j.room \in Nat
    /\ FILES_MAX \in Nat /\ WRAP \in Nat \ {0}

VARIABLES
    job,
    pc,         \* "ar", "append", "list", "lib", "objs" or "failed"
    call,       \* which call of ar this is
    arc,        \* the library
    buffer,     \* the signature that is in ar's buffer
    pos,        \* where the library is read
    read,       \* the members whose headers were read in this pass; ar -l prints them
    slots,      \* _files[], up to the first free one
    left,       \* how many libraries and objects ld has still to load
    starts      \* auxiliary: where the headers of the members are

vars == <<job, pc, call, arc, buffer, pos, read, slots, left, starts>>

Init ==
    /\ job \in Jobs
    /\ pc = "ar" /\ call = 1 /\ arc = <<>> /\ buffer = "data" /\ pos = 0
    /\ read = <<>> /\ slots = <<>> /\ left = 0 /\ starts = <<>>

Put == job.puts[call]
-----------------------------------------------------------------------------
(* ar -a *)

\* fopen("wb+"): what was there is gone.  The buffer is not initialised.
Open ==
    /\ pc = "ar"
    /\ arc' = <<>> /\ starts' = <<>>
    /\ buffer' \in {"object", "data"}
    /\ pc' = "append"
    /\ UNCHANGED <<job, call, pos, read, slots, left>>

\* The signature of an empty file is what the file before it left in the buffer,
\* where the block that was read last started anywhere in that file.
SigOf(f) == IF Files[f] = <<>> THEN buffer ELSE Files[f][1].sig
Header(f) == [sig |-> IF SigOf(f) = "object" THEN "member" ELSE "text",
              size |-> Len(Files[f]) % WRAP, name |-> f]

AddMember ==
    /\ pc = "append" /\ Len(starts) < Len(Put)
    /\ LET f == Put[Len(starts) + 1] IN
          /\ buffer' \in {SigOf(f)} \cup {c.sig : c \in ToSet(Files[f])}
          /\ arc' = Append(arc, Header(f)) \o Files[f]
          /\ starts' = Append(starts, Len(arc))
    /\ UNCHANGED <<job, pc, call, pos, read, slots, left>>

Close ==
    /\ pc = "append" /\ Len(starts) = Len(Put)
    /\ \/ call < Len(job.puts) /\ call' = call + 1 /\ pc' = "ar"
       \/ call = Len(job.puts) /\ pc' = "list" /\ UNCHANGED call
    /\ UNCHANGED <<job, arc, buffer, pos, read, slots, left, starts>>
-----------------------------------------------------------------------------
(* Reading a library, as ar -l and as add_library(). *)

AtMember == pos < Len(arc) /\ arc[pos + 1].sig \in {"member", "text"}

NextMemberNoHeader == pos + arc[pos + 1].size
NextMember == pos + 1 + arc[pos + 1].size
PassMember ==
    /\ AtMember
    /\ pos' = NextMember
    /\ read' = Append(read, arc[pos + 1].name)

List ==
    /\ pc = "list" /\ PassMember
    /\ UNCHANGED <<job, pc, call, arc, buffer, slots, left, starts>>

ListEnds ==
    /\ pc = "list" /\ ~AtMember
    /\ pc' = "lib" /\ left' = job.libs /\ pos' = 0 /\ read' = <<>>
    /\ UNCHANGED <<job, call, arc, buffer, slots, starts>>

Free == Len(slots) < FILES_MAX
Slot(cells, at) == [cells |-> cells, at |-> at]
Nothing == Slot(<<>>, 0)
MemberSlotAtHeader == Slot(arc, pos)
MemberSlot == Slot(arc, pos + 1)

\* A member of add_library(): a text takes a slot as well.  The names of FILES_MAX
\* members, of at most 60 bytes each, always fit into _names.
Load ==
    /\ pc = "lib" /\ left > 0 /\ Free /\ PassMember
    /\ slots' = Append(slots, IF arc[pos + 1].sig = "member" THEN MemberSlot ELSE Nothing)
    /\ UNCHANGED <<job, pc, call, arc, buffer, left, starts>>

\* Its end takes one more; or the slots are all taken.
LoadEnds ==
    /\ pc = "lib" /\ left > 0 /\ ~(Free /\ AtMember)
    /\ slots' = IF Free THEN Append(slots, Nothing) ELSE slots
    /\ left' = left - 1 /\ pos' = 0 /\ read' = <<>>
    /\ UNCHANGED <<job, pc, call, arc, buffer, starts>>

LibrariesDone ==
    /\ pc = "lib" /\ left = 0
    /\ pc' = "objs" /\ left' = Len(job.objs)
    /\ UNCHANGED <<job, call, arc, buffer, pos, read, slots, starts>>

\* add_file(), which says nothing when there is no slot.
AddFile ==
    /\ pc = "objs" /\ left > 0
    /\ LET k == Len(job.objs) - left + 1
           f == job.objs[k]
       IN
          \/ /\ Free /\ f \in DOMAIN Files /\ k <= job.room
             /\ slots' = Append(slots, Slot(Files[f], 0)) /\ left' = left - 1 /\ pc' = pc
          \/ /\ Free /\ (f \notin DOMAIN Files \/ k > job.room)
             /\ pc' = "failed" /\ UNCHANGED <<slots, left>>
          \/ /\ ~Free
             /\ left' = left - 1 /\ UNCHANGED <<slots, pc>>
    /\ UNCHANGED <<job, call, arc, buffer, pos, read, starts>>

Loaded == pc = "objs" /\ left = 0
Done == (Loaded \/ pc = "failed") /\ UNCHANGED vars

Next == \/ Open \/ AddMember \/ Close \/ List \/ ListEnds
        \/ Load \/ LoadEnds \/ LibrariesDone \/ AddFile \/ Done
Spec == Init /\ [][Next]_vars
-----------------------------------------------------------------------------
(* What is put in can be taken out. *)

TypeOK ==
    /\ job \in Jobs
    /\ pc \in {"ar", "append", "list", "lib", "objs", "failed"}
    /\ call \in DOMAIN job.puts
    /\ arc \in Seq(Cell)
    /\ buffer \in Signature
    /\ pos \in Nat /\ read \in Seq(DOMAIN Files)
    /\ slots \in Seq([cells : Seq(Cell), at : Nat])
    /\ left \in Nat
    /\ starts \in Seq(Nat)

\* The first n members are all short enough for the size in their headers.
Fits(f) == Len(Files[f]) < WRAP
AllFit(n) == \A k \in 1 .. n : k <= Len(Put) => Fits(Put[k])

\* ar -l and ld read the headers of the members that were put in, in their order
\* and all of them, whatever is in the members, even if it looks like a header;
\* behind a member whose size does not fit they read what they happen to find
\* (ar.c 60-84, 88-103; ld.c 78-101).
ReadsMembers ==
    pc \in {"list", "lib"} =>
        /\ \A k \in DOMAIN read : AllFit(k - 1) => k <= Len(Put) /\ read[k] = Put[k]
        /\ ~AtMember /\ AllFit(Len(Put)) => read = Put

Rest(x) == SubSeq(x.cells, x.at + 1, Len(x.cells))
Contents(x) == SubSeq(Rest(x), 1, Rest(x)[1].size)

\* What the linker sees in a slot that was taken for f, and of what is no object.
Holds(x, f) == IF IsObject(f) THEN IsObject(Rest(x)) /\ Contents(x) = f
               ELSE ~IsObject(Rest(x))

\* A pass over a library takes a slot for each member and one for its end.
PassLen == Len(Put) + 1
Member(p) == IF p <= Len(Put) THEN Files[Put[p]] ELSE <<>>
Offered == job.libs * PassLen + Len(job.objs)

\* The linker gets the objects of its libraries, as often as they are given, and then
\* those it was given, each whole and in its place; the rest is missing, silently, only
\* when all slots are taken, of which every text and the end of every library takes one
\* (ld.c 47-102).
LoadsInOrder ==
    Loaded /\ AllFit(Len(Put)) =>
        /\ Len(slots) = IF Offered <= FILES_MAX THEN Offered ELSE FILES_MAX
        /\ \A q \in 0 .. job.libs - 1, p \in 1 .. PassLen :
              q * PassLen + p <= FILES_MAX => Holds(slots[q * PassLen + p], Member(p))
        /\ \A p \in 1 .. Len(job.objs) :
              job.libs * PassLen + p <= FILES_MAX =>
                  Holds(slots[job.libs * PassLen + p], Files[job.objs[p]])
=============================================================================
