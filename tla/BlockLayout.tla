---------------------------- MODULE BlockLayout ----------------------------
(***************************************************************************)
(* Working out where the members of a data block live (plc/db_layout.py).  *)
(*                                                                         *)
(* The code reads the declaration into a tree and then walks the tree.     *)
(* The walk visits the nodes in declaration order, so the two passes are   *)
(* one here: an action per declared line, a cursor, the structures that    *)
(* are open, and the depth of those the walk does not descend into.  A     *)
(* TIA export differs only in that its structures always end.              *)
(***************************************************************************)
EXTENDS S7Types, Sequences

CONSTANTS
    Declarations,   \* the declared types a line may carry
    Names,          \* the names a line may carry
    MaxMembers,     \* 20000 in the code
    MaxNesting,     \* 16 in the code
    MaxLines        \* bound of the model on the length of a source

ASSUME BlockLayoutAssumption ==
    /\ \A d \in Declarations : MapDeclared(d) \in TypeInfo
    /\ MaxMembers \in Nat \ {0} /\ MaxNesting \in Nat /\ MaxLines \in Nat

VARIABLES
    phase,      \* what has become of the source
    lines,      \* the number of lines read
    cursor,     \* the current byte and bit
    members,    \* the members placed so far, in declaration order
    open,       \* the structures being walked, outermost first
    muted,      \* open structures that are not walked, inside the last of those
    warned,     \* has the layout any warning?
    total       \* total_bytes

layoutVars == <<phase, lines, cursor, members, open, muted, warned, total>>

Phases == {"reading", "laid", "refused"}

(***************************************************************************)
(* The cursor.                                                             *)
(***************************************************************************)
CloseByte(c) == IF c.bit > 0 THEN [byte |-> c.byte + 1, bit |-> 0] ELSE c

\* Mutant: a byte that bits have begun is not closed first.
AlignOpen(c, alignment) ==
    IF alignment >= 2 /\ c.byte % 2 = 1
      THEN [byte |-> c.byte + 1, bit |-> 0]
      ELSE [c EXCEPT !.bit = 0]

Align(c, alignment) ==
    LET closed == CloseByte(c)
    IN  IF alignment >= 2 /\ closed.byte % 2 = 1
          THEN [closed EXCEPT !.byte = @ + 1]
          ELSE closed

TakeBit(c) ==
    IF c.bit = 7 THEN [byte |-> c.byte + 1, bit |-> 0]
                 ELSE [c EXCEPT !.bit = @ + 1]

TakeBytes(c, size, alignment) ==
    [byte |-> Align(c, alignment).byte + size, bit |-> 0]

(***************************************************************************)
(* A member: its path, where it is, how long, what reads it, and the       *)
(* structures it is in.  unit is the granularity of its place, in bits.    *)
(***************************************************************************)
Member == [path : Seq(Names), byte : Nat, bit : 0 .. 7, size : Nat, bits : Nat,
           data_type : DataTypes \cup {Unsupported}, length : Nat \ {0},
           unit : {1, 8, 16}, within : SUBSET Nat]

Inside == {open[i] : i \in 1 .. Len(open)}

\* The path of the structure being walked, which its members' paths start with.
Prefix == IF open = <<>> THEN <<>> ELSE members[open[Len(open)]].path

Scalarly(name, info, at, alignment) ==
    [path |-> Append(Prefix, name), byte |-> at.byte, bit |-> at.bit, size |-> info.size,
     bits |-> IF info.alignment = 0 THEN 1 ELSE 8 * info.size,
     data_type |-> info.data_type, length |-> info.length,
     unit |-> CASE alignment = 0 -> 1 [] alignment = 1 -> 8 [] OTHER -> 16,
     within |-> Inside]

Container(name, at) ==
    [path |-> Append(Prefix, name), byte |-> at.byte, bit |-> 0, size |-> 0, bits |-> 0,
     data_type |-> Unsupported, length |-> 1, unit |-> 16, within |-> Inside]

Sized(m, end) == [m EXCEPT !.size = end - m.byte, !.bits = 8 * (end - m.byte)]

LayoutInit ==
    /\ phase = "reading" /\ lines = 0 /\ cursor = [byte |-> 0, bit |-> 0]
    /\ members = <<>> /\ open = <<>> /\ muted = 0
    /\ warned = FALSE /\ total = 0

(***************************************************************************)
(* One line of the declaration.  A node is walked unless a structure above *)
(* it is not, the nesting is too deep or the block has too many members;   *)
(* the last two leave a warning.                                           *)
(***************************************************************************)
ReadsLine == phase = "reading" /\ lines < MaxLines /\ lines' = lines + 1

Listed == muted = 0 /\ Len(open) <= MaxNesting /\ Len(members) < MaxMembers

Declare(name, d) ==
    LET info      == MapDeclared(d)
        alignment == IF d.array THEN 2 ELSE info.alignment
        isBit     == ~d.array /\ info.alignment = 0
    IN  /\ ReadsLine
        /\ IF Listed
             THEN /\ members' = Append(members, Scalarly(name, info,
                        IF isBit THEN cursor ELSE Align(cursor, alignment), alignment))
                  /\ cursor' = IF isBit THEN TakeBit(cursor)
                               ELSE TakeBytes(cursor, info.size, alignment)
                  /\ warned' = (warned \/ (~d.array /\ ~info.known))
             ELSE warned' = TRUE /\ UNCHANGED <<members, cursor>>
        /\ UNCHANGED <<phase, open, muted, total>>

\* The structure is listed before its children, its size still unknown.
OpenStruct(name) ==
    /\ ReadsLine
    /\ IF Listed
         THEN /\ cursor' = Align(cursor, 2)
              /\ members' = Append(members, Container(name, Align(cursor, 2)))
              /\ open' = Append(open, Len(members) + 1)
              /\ warned' = (warned \/ Len(open) + 1 > MaxNesting)
              /\ UNCHANGED muted
         ELSE /\ muted' = muted + 1 /\ warned' = TRUE
              /\ UNCHANGED <<cursor, members, open>>
    /\ UNCHANGED <<phase, total>>

\* END_STRUCT closes the innermost structure; one too many is ignored.
EndStruct ==
    /\ ReadsLine
    /\ \/ muted > 0 /\ muted' = muted - 1 /\ UNCHANGED <<cursor, members, open>>
       \/ /\ muted = 0 /\ open # <<>>
          /\ LET last == open[Len(open)]
                 end  == Align(cursor, 2)
             IN  /\ cursor' = end
                 /\ members' = [members EXCEPT ![last] = Sized(@, end.byte)]
                 /\ open' = SubSeq(open, 1, Len(open) - 1)
          /\ UNCHANGED muted
       \/ muted = 0 /\ open = <<>> /\ UNCHANGED <<cursor, members, open, muted>>
    /\ UNCHANGED <<phase, warned, total>>

\* The end of the declaration closes what is still open and rounds the block
\* up to a whole word; a block without members is refused.
EndOfBlock ==
    /\ phase = "reading"
    /\ LET end == Align(cursor, 2)
       IN  /\ cursor' = end
           /\ total' = end.byte
           /\ members' = [i \in DOMAIN members |->
                            IF i \in Inside THEN Sized(members[i], end.byte)
                                            ELSE members[i]]
    /\ phase' = IF members = <<>> THEN "refused" ELSE "laid"
    /\ open' = <<>> /\ muted' = 0
    /\ UNCHANGED <<lines, warned>>

\* A block with optimized access has no offsets: both readers raise.
Optimized ==
    /\ phase = "reading" /\ lines = 0 /\ phase' = "refused"
    /\ UNCHANGED <<lines, cursor, members, open, muted, warned, total>>

LayoutStep ==
    \/ \E name \in Names, d \in Declarations : Declare(name, d)
    \/ \E name \in Names : OpenStruct(name)
    \/ EndStruct \/ EndOfBlock \/ Optimized

LayoutSpec == LayoutInit /\ [][LayoutStep]_layoutVars

(***************************************************************************)
(* What the layout rules promise.                                          *)
(***************************************************************************)
Start(j) == 8 * members[j].byte + members[j].bit
End(j)   == Start(j) + members[j].bits

\* What member j may not start before: the end of an earlier member, or the
\* start of a structure it is in.
Edge(i, j) == IF i \in members[j].within THEN Start(i) ELSE End(i)

LayoutTypeOK ==
    /\ phase \in Phases /\ lines \in 0 .. MaxLines /\ muted \in Nat
    /\ cursor \in [byte : Nat, bit : 0 .. 7] /\ total \in Nat
    /\ members \in Seq(Member) /\ open \in Seq(1 .. Len(members))
    /\ warned \in BOOLEAN

\* Every member starts at the first bit, byte or word of its granularity that
\* is behind everything declared before it, so no two members share a bit and
\* no offset drifts, whatever structures were opened and closed in between
\* (the rules of db_layout.py's docstring, compute_layout).
Placed ==
    \A j \in DOMAIN members :
        /\ Start(j) % members[j].unit = 0
        /\ \A i \in 1 .. j - 1 : Edge(i, j) <= Start(j)
        /\ \/ Start(j) < members[j].unit
           \/ \E i \in 1 .. j - 1 : Start(j) < Edge(i, j) + members[j].unit

\* A structure that is closed holds its members to the last byte and is a
\* whole number of words, and the block holds everything.
Enclosed ==
    /\ \A j \in DOMAIN members : \A i \in members[j].within \ Inside :
           End(j) <= End(i) /\ End(i) % 16 = 0
    /\ phase = "laid" => \A j \in DOMAIN members : End(j) <= 8 * total

LaidOut == Placed /\ Enclosed

\* Why the offsets do not drift.  The cursor is behind everything placed and
\* while the source is read right behind something: a member that is finished, or the start of a
\* structure that is still open.  Open structures are nested in one another,
\* hold all that was placed after them, and have no size yet.
At == 8 * cursor.byte + cursor.bit

Behind(i) == IF i \in Inside THEN Start(i) ELSE End(i)

CursorInv ==
    /\ \A j \in DOMAIN members : End(j) <= At
    /\ phase = "reading" => At = 0 \/ \E i \in DOMAIN members : At = Behind(i)

NestingInv ==
    /\ \A i, j \in DOMAIN open : i < j => open[i] < open[j]
    /\ \A i \in Inside : \A j \in i + 1 .. Len(members) : i \in members[j].within
    /\ \A j \in DOMAIN members : members[j].within \subseteq 1 .. j - 1
    /\ \A j \in Inside : members[j].within \subseteq Inside
    /\ \A j \in Inside : members[j].bit = 0 /\ members[j].bits = 0

\* A member with a value of its own is no structure that is still to be closed,
\* and is as long as one value of its type.
ValueInv ==
    \A j \in DOMAIN members : members[j].data_type # Unsupported =>
        /\ j \notin Inside
        /\ members[j].size = SizeOf(members[j].data_type, members[j].length)

LayoutInv ==
    /\ LayoutTypeOK /\ Placed /\ Enclosed /\ CursorInv /\ NestingInv
    /\ phase = "laid" => At = 8 * total
=============================================================================
