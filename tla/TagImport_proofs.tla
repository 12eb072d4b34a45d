-------------------------- MODULE TagImport_proofs --------------------------
(***************************************************************************)
(* The layout of a data block, proved for every declaration, nesting limit *)
(* and size of block: the offsets never drift.                             *)
(***************************************************************************)
EXTENDS TagImport, FiniteSetTheorems, SequenceTheorems, WellFoundedInduction, TLAPS

Cursor == [byte : Nat, bit : 0 .. 7]
Pos(c) == 8 * c.byte + c.bit

-----------------------------------------------------------------------------
\* What the cursor's operations do to its position.

LEMMA Closes ==
    ASSUME NEW c \in Cursor
    PROVE  /\ CloseByte(c) \in Cursor /\ CloseByte(c).bit = 0
           /\ Pos(c) <= 8 * CloseByte(c).byte /\ 8 * CloseByte(c).byte < Pos(c) + 8
  <1>1. CASE c.bit > 0
    BY <1>1 DEF CloseByte, Cursor, Pos
  <1>2. CASE c.bit = 0
    BY <1>2 DEF CloseByte, Cursor, Pos
  <1> QED BY <1>1, <1>2 DEF Cursor

LEMMA Aligns ==
    ASSUME NEW c \in Cursor, NEW a \in 0 .. 2
    PROVE  /\ Align(c, a) \in Cursor /\ Align(c, a).bit = 0
           /\ Pos(c) <= 8 * Align(c, a).byte
           /\ a # 2 => 8 * Align(c, a).byte < Pos(c) + 8
           /\ a = 2 => /\ Align(c, a).byte % 2 = 0
                       /\ 8 * Align(c, a).byte < Pos(c) + 16
           /\ Pos(c) = 0 => Align(c, a).byte = 0
  <1> DEFINE d == CloseByte(c)
  <1>1. /\ d \in Cursor /\ d.bit = 0
        /\ Pos(c) <= 8 * d.byte /\ 8 * d.byte < Pos(c) + 8
    BY Closes
  <1>2. Pos(c) \in Nat
    BY DEF Pos, Cursor
  <1>3. Align(c, a) = IF a >= 2 /\ d.byte % 2 = 1 THEN [d EXCEPT !.byte = @ + 1] ELSE d
    BY DEF Align
  <1> HIDE DEF d
  <1>4. CASE a >= 2 /\ d.byte % 2 = 1
    <2>1. /\ Align(c, a) \in Cursor /\ Align(c, a).bit = 0
          /\ Align(c, a).byte = d.byte + 1
      BY <1>1, <1>3, <1>4 DEF Cursor
    <2>2. d.byte \in Nat
      BY <1>1 DEF Cursor
    <2> QED BY <1>1, <1>2, <1>4, <2>1, <2>2
  <1>5. CASE ~(a >= 2 /\ d.byte % 2 = 1)
    <2>1. Align(c, a) = d
      BY <1>3, <1>5
    <2>2. d.byte \in Nat
      BY <1>1 DEF Cursor
    <2> QED BY <1>1, <1>2, <1>5, <2>1, <2>2
  <1> QED BY <1>4, <1>5

LEMMA TakesBit ==
    ASSUME NEW c \in Cursor
    PROVE  TakeBit(c) \in Cursor /\ Pos(TakeBit(c)) = Pos(c) + 1
  <1>1. CASE c.bit = 7
    BY <1>1 DEF TakeBit, Cursor, Pos
  <1>2. CASE c.bit # 7
    <2>1. TakeBit(c) \in Cursor /\ TakeBit(c).bit = c.bit + 1 /\ TakeBit(c).byte = c.byte
      BY <1>2 DEF TakeBit, Cursor
    <2> QED BY <2>1 DEF Cursor, Pos
  <1> QED BY <1>1, <1>2

LEMMA TakesBytes ==
    ASSUME NEW c \in Cursor, NEW a \in 0 .. 2, NEW size \in Nat
    PROVE  /\ TakeBytes(c, size, a) \in Cursor
           /\ Pos(TakeBytes(c, size, a)) = 8 * Align(c, a).byte + 8 * size
  <1>1. Align(c, a).byte \in Nat
    BY Aligns DEF Cursor
  <1> QED BY <1>1 DEF TakeBytes, Cursor, Pos

-----------------------------------------------------------------------------
\* Where members are.

LEMMA MemberFields ==
    ASSUME NEW m \in Member
    PROVE  /\ m.byte \in Nat /\ m.bit \in 0 .. 7 /\ m.bits \in Nat
           /\ m.unit \in {1, 8, 16} /\ m.within \in SUBSET Nat
  BY DEF Member

LEMMA Sums ==
    ASSUME NEW byte \in Nat, NEW bit \in 0 .. 7, NEW bits \in Nat
    PROVE  /\ 8 * byte + bit \in Nat /\ 8 * byte + bit + bits \in Nat
           /\ 8 * byte + bit <= 8 * byte + bit + bits
  OBVIOUS

LEMMA Places ==
    ASSUME members \in Seq(Member)
    PROVE  /\ Len(members) \in Nat /\ DOMAIN members = 1 .. Len(members)
           /\ \A j \in DOMAIN members :
                 /\ members[j] \in Member
                 /\ Start(j) \in Nat /\ End(j) \in Nat /\ Start(j) <= End(j)
  <1>1. Len(members) \in Nat /\ DOMAIN members = 1 .. Len(members)
    OBVIOUS
  <1>2. ASSUME NEW j \in DOMAIN members
        PROVE  /\ members[j] \in Member
               /\ Start(j) \in Nat /\ End(j) \in Nat /\ Start(j) <= End(j)
    <2>1. members[j] \in Member
      BY <1>2
    <2>2. members[j].byte \in Nat /\ members[j].bit \in 0 .. 7 /\ members[j].bits \in Nat
      BY <2>1, MemberFields
    <2>3. Start(j) \in Nat /\ End(j) \in Nat /\ Start(j) <= End(j)
      BY <2>2, Sums, Zenon DEF Start, End
    <2> QED BY <2>1, <2>3
  <1> QED BY <1>1, <1>2, Zenon

\* An open structure is a member.
LEMMA InsideAreMembers ==
    ASSUME LayoutTypeOK
    PROVE  Inside \subseteq DOMAIN members
  BY Places DEF LayoutTypeOK, Inside

-----------------------------------------------------------------------------
\* A member placed at the first fitting spot behind the cursor.

LEMMA Appends ==
    ASSUME members \in Seq(Member), NEW m \in Member, members' = Append(members, m)
    PROVE  /\ members' \in Seq(Member) /\ Len(members') = Len(members) + 1
           /\ DOMAIN members' = 1 .. Len(members) + 1
           /\ members'[Len(members) + 1] = m
           /\ \A j \in DOMAIN members : /\ j \in DOMAIN members' /\ members'[j] = members[j]
                                        /\ Start(j)' = Start(j) /\ End(j)' = End(j)
  <1>1. Len(members) \in Nat /\ DOMAIN members = 1 .. Len(members)
    OBVIOUS
  <1>2. /\ members' \in Seq(Member) /\ Len(members') = Len(members) + 1
        /\ DOMAIN members' = 1 .. Len(members) + 1
        /\ members'[Len(members) + 1] = m
    OBVIOUS
  <1>3. \A j \in DOMAIN members : j \in DOMAIN members' /\ members'[j] = members[j]
    OBVIOUS
  <1>4. \A j \in DOMAIN members : Start(j)' = Start(j) /\ End(j)' = End(j)
    BY <1>3, Zenon DEF Start, End
  <1> QED BY <1>2, <1>3, <1>4, Zenon

LEMMA Grows ==
    ASSUME LayoutInv, phase = "reading",
           NEW s \in Nat, NEW u \in {1, 8, 16}, NEW n, n = Len(members) + 1,
           DOMAIN members' = 1 .. n,
           \A j \in DOMAIN members : /\ members'[j] = members[j]
                                    /\ Start(j)' = Start(j) /\ End(j)' = End(j),
           Start(n)' = s, members'[n].unit = u, members'[n].within = Inside,
           At <= s, s % u = 0, s < At + u, At = 0 => s = 0
    PROVE  Placed'
  <1>1. Placed /\ CursorInv /\ members \in Seq(Member) /\ cursor \in [byte : Nat, bit : 0 .. 7]
    BY DEF LayoutInv, LayoutTypeOK
  <1>2. /\ Len(members) \in Nat /\ DOMAIN members = 1 .. Len(members)
        /\ \A j \in DOMAIN members :
              Start(j) \in Nat /\ End(j) \in Nat /\ Start(j) <= End(j)
    BY <1>1, Places, Zenon
  <1>3. At \in Nat
    BY <1>1, Sums, Zenon DEF At
  <1>6. ASSUME NEW i \in DOMAIN members
        PROVE  Edge(i, n)' = Behind(i) /\ Edge(i, n)' \in Nat /\ Edge(i, n)' <= At
    <2>1. Edge(i, n)' = IF i \in Inside THEN Start(i) ELSE End(i)
      BY <1>6, Zenon DEF Edge
    <2>2. End(i) <= At
      BY <1>1, <1>6 DEF CursorInv
    <2>3. Start(i) \in Nat /\ End(i) \in Nat /\ Start(i) <= End(i)
      BY <1>2, <1>6
    <2> QED BY <1>3, <2>1, <2>2, <2>3 DEF Behind
  <1>7. \A i \in 1 .. n - 1 : i \in DOMAIN members
    BY <1>2
  <1> SUFFICES ASSUME NEW j \in 1 .. n
               PROVE  /\ Start(j)' % members'[j].unit = 0
                      /\ \A i \in 1 .. j - 1 : Edge(i, j)' <= Start(j)'
                      /\ \/ Start(j)' < members'[j].unit
                         \/ \E i \in 1 .. j - 1 : Start(j)' < Edge(i, j)' + members'[j].unit
    BY Zenon DEF Placed
  <1>8. CASE j = n
    <2>1. \A i \in 1 .. n - 1 : Edge(i, n)' <= s
      BY <1>2, <1>3, <1>6
    <2>2. s < u \/ \E i \in 1 .. n - 1 : s < Edge(i, n)' + u
      <3>1. CASE At = 0
        BY <3>1
      <3>2. CASE At # 0
        <4>1. PICK i \in DOMAIN members : At = Behind(i)
          BY <1>1, <3>2 DEF CursorInv
        <4>2. Edge(i, n)' = At /\ i \in 1 .. n - 1
          BY <1>2, <1>6, <4>1
        <4> QED BY <4>2
      <3> QED BY <3>1, <3>2
    <2> QED BY <1>8, <2>1, <2>2, Zenon
  <1>9. CASE j # n
    <2>1. j \in DOMAIN members /\ \A i \in 1 .. j - 1 : i \in DOMAIN members
      BY <1>2, <1>9
    <2>2. \A i \in 1 .. j - 1 : Edge(i, j)' = Edge(i, j)
      BY <2>1, Zenon DEF Edge
    <2>3. Start(j)' = Start(j) /\ members'[j].unit = members[j].unit
      BY <2>1, Zenon
    <2>4. /\ Start(j) % members[j].unit = 0
          /\ \A i \in 1 .. j - 1 : Edge(i, j) <= Start(j)
          /\ \/ Start(j) < members[j].unit
             \/ \E i \in 1 .. j - 1 : Start(j) < Edge(i, j) + members[j].unit
      BY <1>1, <2>1, Zenon DEF Placed
    <2> QED BY <2>2, <2>3, <2>4, Zenon
  <1> QED BY <1>8, <1>9

\* With the cursor right behind it, and perhaps a structure that is now open.
LEMMA Pushes ==
    ASSUME LayoutInv, phase' = "reading", NEW n, n = Len(members) + 1,
           DOMAIN members' = 1 .. n, Len(members') = n,
           \A j \in DOMAIN members : /\ members'[j] = members[j]
                                    /\ Start(j)' = Start(j) /\ End(j)' = End(j),
           members'[n].within = Inside,
           \/ Inside' = Inside
           \/ /\ Inside' = Inside \cup {n} /\ Start(n)' = End(n)'
              /\ members'[n].bit = 0 /\ members'[n].bits = 0,
           \A i, j \in DOMAIN open' : i < j => open'[i] < open'[j],
           End(n)' = At', At <= At', At' \in Nat
    PROVE  Enclosed' /\ CursorInv' /\ NestingInv'
  <1>1. /\ Enclosed /\ CursorInv /\ NestingInv /\ LayoutTypeOK
        /\ members \in Seq(Member) /\ cursor \in [byte : Nat, bit : 0 .. 7]
    BY DEF LayoutInv, LayoutTypeOK
  <1>2. /\ Len(members) \in Nat /\ DOMAIN members = 1 .. Len(members)
        /\ \A j \in DOMAIN members :
              Start(j) \in Nat /\ End(j) \in Nat /\ Start(j) <= End(j)
    BY <1>1, Places, Zenon
  <1>3. Inside \subseteq DOMAIN members /\ n \notin Inside
    <2>1. Inside \subseteq DOMAIN members
      BY <1>1, InsideAreMembers
    <2> QED BY <1>2, <2>1
  <1>4. Inside \subseteq Inside' /\ Inside' \subseteq Inside \cup {n}
    OBVIOUS
  <1>5. \A j \in 1 .. n : j = n \/ j \in DOMAIN members
    BY <1>2
  <1>6. Enclosed'
    <2> SUFFICES ASSUME NEW j \in 1 .. n, NEW i \in members'[j].within \ Inside'
                 PROVE  End(j)' <= End(i)' /\ End(i)' % 16 = 0
      BY Zenon DEF Enclosed
    <2>1. j # n
      BY <1>4
    <2>2. j \in DOMAIN members /\ i \in members[j].within /\ i \notin Inside
      BY <1>4, <1>5, <2>1, Zenon
    <2>3. End(j) <= End(i) /\ End(i) % 16 = 0
      BY <1>1, <2>2, Zenon DEF Enclosed
    <2>4. i \in DOMAIN members
      <3>1. i \in 1 .. j - 1
        BY <1>1, <2>2, Zenon DEF NestingInv
      <3> QED BY <1>2, <2>2, <3>1
    <2> QED BY <2>2, <2>3, <2>4, Zenon
  <1>7. CursorInv'
    <2>1. \A j \in 1 .. n : End(j)' <= At'
      <3> TAKE j \in 1 .. n
      <3>1. CASE j = n
        BY <3>1
      <3>2. CASE j # n
        <4>1. j \in DOMAIN members
          BY <1>5, <3>2
        <4>2. End(j) <= At /\ End(j) \in Nat /\ End(j)' = End(j)
          BY <1>1, <1>2, <4>1, Zenon DEF CursorInv
        <4>3. At \in Nat
          BY <1>1, Sums, Zenon DEF At
        <4> QED BY <4>2, <4>3
      <3> QED BY <3>1, <3>2
    <2>2. n \in 1 .. n
      BY <1>2
    <2>3. Behind(n)' = At'
      BY <1>3, Zenon DEF Behind
    <2> QED BY <2>1, <2>2, <2>3, Zenon DEF CursorInv
  <1>8. NestingInv'
    <2>1. \A i \in Inside' : \A j \in i + 1 .. n : i \in members'[j].within
      <3> TAKE i \in Inside'
      <3> TAKE j \in i + 1 .. n
      <3>1. i # n
        BY <1>2
      <3>2. i \in Inside /\ i \in DOMAIN members
        BY <1>3, <1>4, <3>1
      <3>3. CASE j = n
        BY <3>2, <3>3
      <3>4. CASE j # n
        <4>1. j \in DOMAIN members /\ j \in i + 1 .. Len(members)
          BY <1>2, <3>2, <3>4
        <4>2. i \in members[j].within
          BY <1>1, <3>2, <4>1, Zenon DEF NestingInv
        <4> QED BY <4>1, <4>2, Zenon
      <3> QED BY <3>3, <3>4
    <2>2. \A j \in 1 .. n : members'[j].within \subseteq 1 .. j - 1
      <3> TAKE j \in 1 .. n
      <3>1. CASE j = n
        <4>1. 1 .. Len(members) = 1 .. j - 1
          BY <1>2, <3>1
        <4> QED BY <1>2, <1>3, <3>1, <4>1, Zenon
      <3>2. CASE j # n
        <4>1. j \in DOMAIN members
          BY <1>5, <3>2
        <4>2. members[j].within \subseteq 1 .. j - 1
          BY <1>1, <4>1, Zenon DEF NestingInv
        <4> QED BY <4>1, <4>2, Zenon
      <3> QED BY <3>1, <3>2
    <2>3. \A j \in Inside' : members'[j].within \subseteq Inside'
      <3> TAKE j \in Inside'
      <3>1. CASE j = n
        BY <1>4, <3>1, Zenon
      <3>2. CASE j # n
        <4>1. j \in Inside /\ j \in DOMAIN members
          BY <1>3, <1>4, <3>2
        <4>2. members[j].within \subseteq Inside
          BY <1>1, <4>1, Zenon DEF NestingInv
        <4> QED BY <1>4, <4>1, <4>2, Zenon
      <3> QED BY <3>1, <3>2
    <2>4. \A j \in Inside' : members'[j].bit = 0 /\ members'[j].bits = 0
      <3> TAKE j \in Inside'
      <3>1. CASE j \in Inside
        <4>1. members[j].bit = 0 /\ members[j].bits = 0
          BY <1>1, <3>1, Zenon DEF NestingInv
        <4> QED BY <1>3, <3>1, <4>1, Zenon
      <3>2. CASE j \notin Inside
        BY <3>2, Zenon
      <3> QED BY <3>1, <3>2
    <2> QED BY <2>1, <2>2, <2>3, <2>4, Zenon DEF NestingInv
  <1> QED BY <1>6, <1>7, <1>8

\* A line that places nothing.
LEMMA Ignores ==
    ASSUME LayoutInv, UNCHANGED <<cursor, members, open, total>>,
           phase' \in Phases, phase' = phase \/ phase' = "refused",
           lines' \in 0 .. MaxLines, muted' \in Nat, warned' \in BOOLEAN
    PROVE  LayoutInv'
  <1>1. Inside' = Inside /\ At' = At
    BY Zenon DEF Inside, At
  <1>2. \A j : Start(j)' = Start(j) /\ End(j)' = End(j)
    BY Zenon DEF Start, End
  <1>3. \A i, j : Edge(i, j)' = Edge(i, j) /\ Behind(i)' = Behind(i)
    BY <1>1, <1>2, Zenon DEF Edge, Behind
  <1>4. LayoutTypeOK'
    BY DEF LayoutInv, LayoutTypeOK
  <1>5. Placed'
    BY <1>2, <1>3, Zenon DEF LayoutInv, Placed
  <1>6. Enclosed'
    BY <1>1, <1>2, Zenon DEF LayoutInv, Enclosed
  <1>7. CursorInv'
    BY <1>1, <1>2, <1>3, Zenon DEF LayoutInv, CursorInv
  <1>8. NestingInv'
    BY <1>1, Zenon DEF LayoutInv, NestingInv
  <1> QED BY <1>1, <1>4, <1>5, <1>6, <1>7, <1>8, Zenon DEF LayoutInv

-----------------------------------------------------------------------------
\* The lines of a declaration.

LEMMA DeclaredTypes ==
    ASSUME NEW d \in Declarations
    PROVE  /\ MapDeclared(d) \in TypeInfo
           /\ MapDeclared(d).size \in Nat /\ MapDeclared(d).alignment \in 0 .. 2
           /\ d.array => MapDeclared(d).alignment # 0
  <1>1. MapDeclared(d) \in TypeInfo
    BY BlockLayoutAssumption
  <1>2. MapDeclared(d).size \in Nat /\ MapDeclared(d).alignment \in 0 .. 2
    BY <1>1 DEF TypeInfo
  <1>3. d.array => MapDeclared(d).alignment # 0
    <2> SUFFICES ASSUME d.array PROVE MapDeclared(d).alignment # 0
      OBVIOUS
    <2>1. CASE d.count <= 0
      BY <2>1 DEF MapDeclared, No
    <2>2. CASE ~(d.count <= 0)
      BY <2>2 DEF MapDeclared, No
    <2> QED BY <2>1, <2>2
  <1> QED BY <1>1, <1>2, <1>3

LEMMA PrefixIsPath ==
    ASSUME LayoutTypeOK, NEW name \in Names
    PROVE  Append(Prefix, name) \in Seq(Names)
  <1>1. CASE open = <<>>
    BY <1>1 DEF Prefix
  <1>2. CASE open # <<>>
    <2>1. open \in Seq(1 .. Len(members)) /\ members \in Seq(Member)
      BY DEF LayoutTypeOK
    <2>2. Len(open) \in DOMAIN open
      BY <1>2, <2>1
    <2>3. open[Len(open)] \in DOMAIN members
      BY <2>1, <2>2
    <2>4. members[open[Len(open)]] \in Member
      BY <2>1, <2>3
    <2>5. members[open[Len(open)]].path \in Seq(Names)
      BY <2>4 DEF Member
    <2> QED BY <1>2, <2>5 DEF Prefix
  <1> QED BY <1>1, <1>2

LEMMA ScalarlyIsMember ==
    ASSUME LayoutTypeOK, NEW name \in Names, NEW info \in TypeInfo,
           NEW at \in Cursor, NEW a \in 0 .. 2
    PROVE  Scalarly(name, info, at, a) \in Member
  <1>1. /\ at.byte \in Nat /\ at.bit \in 0 .. 7
        /\ info.size \in Nat /\ info.data_type \in DataTypes \cup {Unsupported}
        /\ info.length \in Nat \ {0}
    BY DEF Cursor, TypeInfo
  <1>2. Inside \in SUBSET Nat
    BY InsideAreMembers, Places DEF LayoutTypeOK
  <1>3. (IF info.alignment = 0 THEN 1 ELSE 8 * info.size) \in Nat
    BY <1>1
  <1>4. (CASE a = 0 -> 1 [] a = 1 -> 8 [] OTHER -> 16) \in {1, 8, 16}
    OBVIOUS
  <1> QED BY <1>1, <1>2, <1>3, <1>4, PrefixIsPath DEF Scalarly, Member

LEMMA ContainerIsMember ==
    ASSUME LayoutTypeOK, NEW name \in Names, NEW at \in Cursor
    PROVE  Container(name, at) \in Member
  <1>1. at.byte \in Nat
    BY DEF Cursor
  <1>2. Inside \in SUBSET Nat
    BY InsideAreMembers, Places DEF LayoutTypeOK
  <1> QED BY <1>1, <1>2, PrefixIsPath DEF Container, Member

LEMMA OneMore ==
    ASSUME NEW l \in Nat
    PROVE  /\ l + 1 \in 1 .. l + 1
           /\ \A i \in 1 .. l : i \in 1 .. l + 1 /\ i # l + 1
           /\ \A i \in 1 .. l + 1 : i # l + 1 => i \in 1 .. l
  OBVIOUS

LEMMA OpensOne ==
    ASSUME NEW k \in Nat, open \in Seq(1 .. k), open' = Append(open, k + 1)
    PROVE  /\ open' \in Seq(1 .. k + 1) /\ Len(open') = Len(open) + 1 /\ open' # open
           /\ DOMAIN open' = 1 .. Len(open) + 1 /\ DOMAIN open = 1 .. Len(open) /\ Len(open) \in Nat
           /\ open'[Len(open) + 1] = k + 1
           /\ \A i \in 1 .. Len(open) : open'[i] = open[i] /\ open[i] \in 1 .. k
           /\ {open'[i] : i \in 1 .. Len(open')} = {open[i] : i \in 1 .. Len(open)} \cup {k + 1}
  <1>1. open \in Seq(1 .. k + 1) /\ Len(open) \in Nat
    OBVIOUS
  <1>2. /\ open' \in Seq(1 .. k + 1) /\ Len(open') = Len(open) + 1 /\ open' # open
        /\ DOMAIN open' = 1 .. Len(open) + 1 /\ DOMAIN open = 1 .. Len(open)
        /\ open'[Len(open) + 1] = k + 1
    BY <1>1
  <1>3. \A i \in 1 .. Len(open) : open'[i] = open[i] /\ open[i] \in 1 .. k
    BY <1>1
  <1>4. {open'[i] : i \in 1 .. Len(open')} = {open[i] : i \in 1 .. Len(open)} \cup {k + 1}
    <2>1. ASSUME NEW x \in {open'[i] : i \in 1 .. Len(open')}
          PROVE  x \in {open[i] : i \in 1 .. Len(open)} \cup {k + 1}
      <3>1. PICK i \in 1 .. Len(open') : x = open'[i]
        OBVIOUS
      <3>2. CASE i = Len(open) + 1
        BY <1>2, <3>1, <3>2
      <3>3. CASE i # Len(open) + 1
        <4>1. i \in 1 .. Len(open)
          BY <1>1, <1>2, <3>3, OneMore, Zenon
        <4>2. x = open[i]
          BY <1>3, <3>1, <4>1
        <4> QED BY <4>1, <4>2
      <3> QED BY <3>2, <3>3
    <2>2. ASSUME NEW x \in {open[i] : i \in 1 .. Len(open)}
          PROVE  x \in {open'[i] : i \in 1 .. Len(open')}
      <3>1. PICK i \in 1 .. Len(open) : x = open[i]
        OBVIOUS
      <3>2. i \in 1 .. Len(open') /\ x = open'[i]
        BY <1>1, <1>2, <1>3, <3>1, OneMore, Zenon
      <3> QED BY <3>2
    <2>3. k + 1 \in {open'[i] : i \in 1 .. Len(open')}
      <3>1. Len(open) + 1 \in 1 .. Len(open')
        BY <1>1, <1>2, OneMore, Zenon
      <3> QED BY <1>2, <3>1
    <2> QED BY <2>1, <2>2, <2>3
  <1> QED BY <1>1, <1>2, <1>3, <1>4, Zenon

\* What the two placing actions have in common.
LEMMA PlacingKeeps ==
    ASSUME LayoutInv, phase = "reading", UNCHANGED <<phase, total>>,
           NEW m \in Member, NEW s \in Nat, NEW u \in {1, 8, 16},
           NEW n, n = Len(members) + 1,
           members' = Append(members, m), m.within = Inside,
           8 * m.byte + m.bit = s, m.unit = u,
           At <= s, s % u = 0, s < At + u, At = 0 => s = 0,
           cursor' \in Cursor, At' = s + m.bits, m.bits \in Nat,
           open' = open \/ (open' = Append(open, n) /\ m.bit = 0 /\ m.bits = 0),
           lines' \in 0 .. MaxLines, muted' \in Nat, warned' \in BOOLEAN
    PROVE  LayoutInv'
PROOF
  <1>0. LayoutTypeOK /\ NestingInv
    BY DEF LayoutInv
  <1>1. members \in Seq(Member) /\ open \in Seq(1 .. Len(members)) /\ Len(members) \in Nat
    BY <1>0, Places DEF LayoutTypeOK
  <1>2. /\ members' \in Seq(Member) /\ Len(members') = n /\ DOMAIN members' = 1 .. n
        /\ members'[n] = m
        /\ \A j \in DOMAIN members : /\ members'[j] = members[j]
                                     /\ Start(j)' = Start(j) /\ End(j)' = End(j)
    BY <1>1, Appends, Zenon
  <1>3. /\ Start(n)' = s /\ End(n)' = At'
        /\ members'[n].unit = u /\ members'[n].within = Inside
    BY <1>2, Zenon DEF Start, End
  <1>4. Placed'
    BY <1>2, <1>3, Grows, Zenon
  <1>5. At \in Nat /\ At' \in Nat /\ At <= At'
    <2>1. At \in Nat
      BY <1>0, Sums, Zenon DEF At, LayoutTypeOK
    <2> DEFINE bits == m.bits
    <2>2. bits \in Nat /\ At' = s + bits
      OBVIOUS
    <2> HIDE DEF bits
    <2> QED BY <2>1, <2>2
  <1>6. /\ open' \in Seq(1 .. n)
        /\ \A i, j \in DOMAIN open' : i < j => open'[i] < open'[j]
        /\ Inside' = Inside \/ (Inside' = Inside \cup {n} /\ open' # open)
    <2>1. open \in Seq(1 .. n) /\ n \in 1 .. n
      BY <1>1
    <2>2. \A i, j \in DOMAIN open : i < j => open[i] < open[j]
      BY <1>0, Zenon DEF NestingInv
    <2>3. CASE open' = open
      BY <2>1, <2>2, <2>3, Zenon DEF Inside
    <2>4. CASE open' = Append(open, n)
      <3>1. /\ open' \in Seq(1 .. n) /\ Len(open') = Len(open) + 1 /\ Len(open) \in Nat
            /\ open'[Len(open) + 1] = n /\ DOMAIN open' = 1 .. Len(open) + 1
            /\ DOMAIN open = 1 .. Len(open)
            /\ \A i \in 1 .. Len(open) : open'[i] = open[i] /\ open[i] \in 1 .. Len(members)
            /\ open' # open
            /\ {open'[i] : i \in 1 .. Len(open')} = {open[i] : i \in 1 .. Len(open)} \cup {n}
        <4>1. Len(members) \in Nat /\ open \in Seq(1 .. Len(members))
          BY <1>1
        <4>2. open' = Append(open, Len(members) + 1)
          BY <2>4
        <4>3. Len(members) \in Nat /\ open' = Append(open, Len(members) + 1)
          BY <4>1, <4>2
        <4> QED BY <4>1, <4>3, OpensOne, Zenon
      <3>2. ASSUME NEW i \in DOMAIN open', NEW j \in DOMAIN open', i < j
            PROVE  open'[i] < open'[j]
        <4>0. i \in 1 .. Len(open) + 1 /\ j \in 1 .. Len(open) + 1 /\ Len(open) \in Nat
          BY <3>1, Zenon
        <4>1. i \in 1 .. Len(open) /\ open'[i] = open[i] /\ open[i] \in 1 .. Len(members)
          <5>1. i \in 1 .. Len(open)
            BY <3>2, <4>0
          <5> QED BY <3>1, <5>1, Zenon
        <4>2. CASE j = Len(open) + 1
          <5>1. open'[j] = n
            BY <3>1, <4>2
          <5> QED BY <1>1, <4>1, <5>1
        <4>3. CASE j # Len(open) + 1
          <5>1. j \in 1 .. Len(open)
            BY <3>1, <4>3
          <5>2. open'[j] = open[j] /\ i \in DOMAIN open /\ j \in DOMAIN open
            BY <3>1, <4>1, <5>1
          <5>3. open[i] < open[j]
            BY <2>2, <3>2, <5>2
          <5> QED BY <4>1, <5>2, <5>3, Zenon
        <4> QED BY <4>2, <4>3
      <3>3. Inside' = Inside \cup {n}
        BY <3>1, Zenon DEF Inside
      <3> QED BY <3>1, <3>2, <3>3, Zenon
    <2> QED BY <2>3, <2>4
  <1>7. \/ Inside' = Inside
        \/ /\ Inside' = Inside \cup {n} /\ Start(n)' = End(n)'
           /\ members'[n].bit = 0 /\ members'[n].bits = 0
    <2>1. CASE Inside' = Inside
      BY <2>1
    <2>2. CASE Inside' = Inside \cup {n} /\ open' # open
      <3>1. m.bit = 0 /\ m.bits = 0
        BY <2>2
      <3>2. s + 0 = s
        OBVIOUS
      <3> QED BY <1>2, <1>3, <2>2, <3>1, <3>2, Zenon
    <2> QED BY <1>6, <2>1, <2>2
  <1>8. Enclosed' /\ CursorInv' /\ NestingInv'
    BY <1>2, <1>3, <1>5, <1>6, <1>7, Pushes, Zenon
  <1>9. LayoutTypeOK'
    BY <1>0, <1>2, <1>6 DEF LayoutTypeOK, Cursor
  <1> QED BY <1>4, <1>8, <1>9 DEF LayoutInv

LEMMA Multiples ==
    ASSUME NEW b \in Nat
    PROVE  8 * b \in Nat /\ (8 * b) % 8 = 0 /\ (b % 2 = 0 => (8 * b) % 16 = 0)
  OBVIOUS

LEMMA OnlyUnits == ASSUME NEW s \in Nat PROVE s % 1 = 0
  OBVIOUS

LEMMA CursorIsTyped ==
    ASSUME LayoutInv
    PROVE  /\ LayoutTypeOK /\ cursor \in Cursor /\ At = Pos(cursor) /\ At \in Nat
           /\ lines \in Nat /\ muted \in Nat
  <1>1. LayoutTypeOK /\ cursor \in Cursor /\ lines \in Nat /\ muted \in Nat
    BY BlockLayoutAssumption DEF LayoutInv, LayoutTypeOK, Cursor
  <1>2. At = Pos(cursor)
    BY DEF At, Pos
  <1>3. Pos(cursor) \in Nat
    BY <1>1 DEF Pos, Cursor
  <1> QED BY <1>1, <1>2, <1>3

LEMMA ReadsOn ==
    ASSUME LayoutInv, ReadsLine PROVE lines' \in 0 .. MaxLines /\ phase = "reading"
  BY CursorIsTyped, BlockLayoutAssumption DEF ReadsLine

LEMMA DeclareKeeps ==
    ASSUME LayoutInv, NEW name \in Names, NEW d \in Declarations, Declare(name, d)
    PROVE  LayoutInv'
  <1> DEFINE info == MapDeclared(d)
             a == IF d.array THEN 2 ELSE info.alignment
             isBit == ~d.array /\ info.alignment = 0
             at == IF isBit THEN cursor ELSE Align(cursor, a)
             m == Scalarly(name, info, at, a)
             n == Len(members) + 1
  <1>1. /\ LayoutTypeOK /\ cursor \in Cursor /\ At = Pos(cursor) /\ At \in Nat
        /\ muted \in Nat /\ lines' \in 0 .. MaxLines /\ phase = "reading"
    BY CursorIsTyped, ReadsOn DEF Declare
  <1>2. /\ info \in TypeInfo /\ info.size \in Nat /\ info.alignment \in 0 .. 2
        /\ a \in 0 .. 2 /\ (isBit => a = 0 /\ info.alignment = 0)
        /\ (~isBit => a \in {1, 2} /\ info.alignment # 0)
    BY DeclaredTypes
  <1>3. /\ phase' = phase /\ open' = open /\ muted' = muted /\ total' = total
        /\ warned \in BOOLEAN
    BY <1>1 DEF Declare, LayoutTypeOK
  <1>4. warned' \in BOOLEAN
    BY <1>3 DEF Declare
  <1>5. CASE ~Listed
    <2>1. cursor' = cursor /\ members' = members
      BY <1>5 DEF Declare
    <2> QED BY <1>1, <1>3, <1>4, <2>1, Ignores DEF LayoutTypeOK
  <1>6. CASE Listed
    <2>1. /\ members' = Append(members, m)
          /\ cursor' = IF isBit THEN TakeBit(cursor) ELSE TakeBytes(cursor, info.size, a)
      BY <1>6 DEF Declare
    <2>2. at \in Cursor
      BY <1>1, <1>2, Aligns
    <2>3. m \in Member /\ m.within = Inside
      <3>1. m \in Member
        BY <1>1, <1>2, <2>2, ScalarlyIsMember
      <3> QED BY <3>1 DEF Scalarly
    <2>4. CASE isBit
      <3>1. /\ 8 * m.byte + m.bit = Pos(cursor) /\ m.unit = 1 /\ m.bits = 1
        BY <1>2, <2>4 DEF Scalarly, Pos
      <3>2. cursor' \in Cursor /\ At' = Pos(cursor) + m.bits
        <4>1. cursor' = TakeBit(cursor)
          BY <2>1, <2>4
        <4>2. At' = Pos(cursor')
          BY DEF At, Pos
        <4> QED BY <1>1, <3>1, <4>1, <4>2, TakesBit
      <3>3. Pos(cursor) % 1 = 0 /\ Pos(cursor) < At + 1
        BY <1>1, OnlyUnits
      <3> HIDE DEF m
      <3> QED BY <1>1, <1>3, <1>4, <2>1, <2>3, <3>1, <3>2, <3>3, PlacingKeeps
    <2>5. CASE ~isBit
      <3> DEFINE s == 8 * at.byte
                 u == IF a = 1 THEN 8 ELSE 16
      <3>1. /\ at.byte \in Nat /\ at.bit = 0 /\ Pos(cursor) <= s /\ s < Pos(cursor) + u
            /\ (a = 2 => at.byte % 2 = 0) /\ (Pos(cursor) = 0 => s = 0)
        <4>1. at = Align(cursor, a) /\ at.byte \in Nat
          BY <2>2, <2>5 DEF Cursor
        <4>2. CASE a = 1
          <5>1. /\ at.bit = 0 /\ Pos(cursor) <= 8 * at.byte /\ 8 * at.byte < Pos(cursor) + 8
                /\ (Pos(cursor) = 0 => at.byte = 0)
            BY <1>1, <1>2, <4>1, <4>2, Aligns
          <5> QED BY <4>1, <4>2, <5>1
        <4>3. CASE a = 2
          <5>1. /\ at.bit = 0 /\ Pos(cursor) <= 8 * at.byte /\ 8 * at.byte < Pos(cursor) + 16
                /\ at.byte % 2 = 0 /\ (Pos(cursor) = 0 => at.byte = 0)
            BY <1>1, <1>2, <4>1, <4>3, Aligns
          <5> QED BY <4>1, <4>3, <5>1
        <4> QED BY <1>2, <2>5, <4>2, <4>3
      <3>2. s \in Nat /\ s % u = 0
        BY <1>2, <2>5, <3>1, Multiples
      <3>3. /\ m.byte = at.byte /\ m.bit = 0 /\ m.unit = u /\ m.bits = 8 * info.size
        BY <1>2, <2>5, <3>1 DEF Scalarly
      <3>4. 8 * m.byte + m.bit = s
        BY <3>1, <3>3
      <3>5. cursor' \in Cursor /\ At' = s + m.bits
        <4>1. cursor' = TakeBytes(cursor, info.size, a) /\ at = Align(cursor, a)
          BY <2>1, <2>5
        <4>2. At' = Pos(cursor')
          BY DEF At, Pos
        <4>3. TakeBytes(cursor, info.size, a) \in Cursor
              /\ Pos(TakeBytes(cursor, info.size, a)) = 8 * Align(cursor, a).byte + 8 * info.size
          BY <1>1, <1>2, TakesBytes
        <4> QED BY <3>3, <4>1, <4>2, <4>3
      <3>6. m.bits \in Nat /\ u \in {1, 8, 16}
        BY <1>2, <3>3
      <3> HIDE DEF m, s, u
      <3> QED BY <1>1, <1>3, <1>4, <2>1, <2>3, <3>1, <3>2, <3>3, <3>4, <3>5, <3>6, PlacingKeeps
    <2> QED BY <2>4, <2>5
  <1> QED BY <1>5, <1>6

LEMMA OpenStructKeeps ==
    ASSUME LayoutInv, NEW name \in Names, OpenStruct(name)
    PROVE  LayoutInv'
  <1> DEFINE at == Align(cursor, 2)
             m == Container(name, at)
             n == Len(members) + 1
             s == 8 * at.byte
  <1>1. /\ LayoutTypeOK /\ cursor \in Cursor /\ At = Pos(cursor) /\ At \in Nat
        /\ muted \in Nat /\ lines' \in 0 .. MaxLines /\ phase = "reading"
    BY CursorIsTyped, ReadsOn DEF OpenStruct
  <1>2. phase' = phase /\ total' = total /\ warned' \in BOOLEAN
    BY <1>1 DEF OpenStruct, LayoutTypeOK
  <1>3. CASE ~Listed
    <2>1. cursor' = cursor /\ members' = members /\ open' = open /\ muted' = muted + 1
      BY <1>3 DEF OpenStruct
    <2> QED BY <1>1, <1>2, <2>1, Ignores DEF LayoutTypeOK
  <1>4. CASE Listed
    <2>1. /\ members' = Append(members, m) /\ cursor' = at
          /\ open' = Append(open, n) /\ muted' = muted
      BY <1>4 DEF OpenStruct
    <2>2. /\ at \in Cursor /\ at.byte \in Nat /\ at.bit = 0 /\ at.byte % 2 = 0
          /\ Pos(cursor) <= s /\ s < Pos(cursor) + 16 /\ (Pos(cursor) = 0 => s = 0)
      BY <1>1, Aligns DEF Cursor
    <2>3. s \in Nat /\ s % 16 = 0
      BY <2>2, Multiples
    <2>4. m \in Member
      BY <1>1, <2>2, ContainerIsMember
    <2>5. /\ m.byte = at.byte /\ m.bit = 0 /\ m.bits = 0 /\ m.unit = 16 /\ m.within = Inside
      BY DEF Container
    <2>6. 8 * m.byte + m.bit = s
      BY <2>2, <2>5
    <2>7. At' = s + m.bits
      <3>1. At' = 8 * at.byte + at.bit
        BY <2>1 DEF At
      <3> QED BY <2>2, <2>5, <3>1
    <2> HIDE DEF m, s
    <2>8. /\ At <= s /\ s % 16 = 0 /\ s < At + 16 /\ (At = 0 => s = 0)
          /\ cursor' \in Cursor /\ m.bits \in Nat /\ muted' \in Nat
          /\ open' = Append(open, n) /\ m.bit = 0 /\ m.bits = 0
      BY <1>1, <2>1, <2>2, <2>3, <2>5
    <2> HIDE DEF n
    <2>9. n = Len(members) + 1
      BY DEF n
    <2> QED BY <1>1, <1>2, <2>1, <2>3, <2>4, <2>5, <2>6, <2>7, <2>8, <2>9, PlacingKeeps
  <1> QED BY <1>3, <1>4

-----------------------------------------------------------------------------
\* Structures end: the innermost one, or at the end of the block all of them.

LEMMA SizedIsMember ==
    ASSUME NEW x \in Member, NEW e \in Nat, x.byte <= e, x.bit = 0
    PROVE  /\ Sized(x, e) \in Member
           /\ Sized(x, e).byte = x.byte /\ Sized(x, e).bit = x.bit
           /\ Sized(x, e).unit = x.unit /\ Sized(x, e).within = x.within
           /\ 8 * x.byte + x.bit + Sized(x, e).bits = 8 * e
  <1>1. x.byte \in Nat /\ e - x.byte \in Nat /\ 8 * (e - x.byte) \in Nat
    BY MemberFields
  <1>2. /\ Sized(x, e) \in Member
        /\ Sized(x, e).byte = x.byte /\ Sized(x, e).bit = x.bit
        /\ Sized(x, e).unit = x.unit /\ Sized(x, e).within = x.within
        /\ Sized(x, e).bits = 8 * (e - x.byte)
    BY <1>1 DEF Sized, Member
  <1> QED BY <1>1, <1>2

LEMMA Ends ==
    ASSUME LayoutInv, NEW C \in SUBSET Inside, NEW e \in Nat,
           At <= 8 * e, e % 2 = 0, At' = 8 * e,
           DOMAIN members' = DOMAIN members, Len(members') = Len(members),
           \A j \in DOMAIN members : /\ Start(j)' = Start(j)
                                    /\ members'[j].unit = members[j].unit
                                    /\ members'[j].within = members[j].within,
           \A j \in DOMAIN members : j \notin C => members'[j] = members[j] /\ End(j)' = End(j),
           \A j \in C : End(j)' = 8 * e,
           Inside' = Inside \ C,
           \A j \in Inside \ C : \A c \in C : j < c,
           \A i, j \in DOMAIN open' : i < j => open'[i] < open'[j],
           phase' = "reading" => C # {},
           phase' = "laid" => total' = e
    PROVE  Placed' /\ Enclosed' /\ CursorInv' /\ NestingInv'
  <1>1. /\ Placed /\ Enclosed /\ CursorInv /\ NestingInv /\ LayoutTypeOK
        /\ members \in Seq(Member) /\ At \in Nat
    BY CursorIsTyped DEF LayoutInv, LayoutTypeOK
  <1>2. /\ Len(members) \in Nat /\ DOMAIN members = 1 .. Len(members)
        /\ \A j \in DOMAIN members :
              Start(j) \in Nat /\ End(j) \in Nat /\ Start(j) <= End(j)
    BY <1>1, Places, Zenon
  <1>3. Inside \subseteq DOMAIN members /\ C \subseteq DOMAIN members
    BY <1>1, InsideAreMembers
  <1>4. 8 * e \in Nat /\ (8 * e) % 16 = 0
    BY Multiples
  <1>5. \A j \in DOMAIN members : \A i \in 1 .. j - 1 : i \in DOMAIN members
    BY <1>2
  <1>6. \A j \in DOMAIN members : \A i \in 1 .. j - 1 : Edge(i, j)' = Edge(i, j)
    <2> TAKE j \in DOMAIN members
    <2> TAKE i \in 1 .. j - 1
    <2>1. CASE i \in members[j].within
      BY <1>5, <2>1, Zenon DEF Edge
    <2>2. CASE i \notin members[j].within
      <3>1. i \notin C
        <4>1. j \in i + 1 .. Len(members)
          BY <1>2
        <4> QED BY <1>1, <2>2, <4>1, Zenon DEF NestingInv
      <3> QED BY <1>5, <2>2, <3>1, Zenon DEF Edge
    <2> QED BY <2>1, <2>2
  <1>7. Placed'
    BY <1>1, <1>6, Zenon DEF Placed
  <1>8. \A j \in DOMAIN members : End(j)' <= 8 * e
    <2> TAKE j \in DOMAIN members
    <2>1. CASE j \in C
      BY <1>4, <2>1
    <2>2. CASE j \notin C
      <3>1. End(j) <= At
        BY <1>1, Zenon DEF CursorInv
      <3> QED BY <1>1, <1>2, <1>4, <2>2, <3>1
    <2> QED BY <2>1, <2>2
  <1>9. Enclosed'
    <2> SUFFICES ASSUME NEW j \in DOMAIN members, NEW i \in members[j].within \ Inside'
                 PROVE  End(j)' <= End(i)' /\ End(i)' % 16 = 0
      BY <1>8, Zenon DEF Enclosed
    <2>1. CASE i \in C
      BY <1>4, <1>8, <2>1
    <2>2. CASE i \notin C
      <3>1. i \notin Inside
        BY <2>2
      <3>2. j \notin C
        BY <1>1, <3>1, Zenon DEF NestingInv
      <3>3. i \in DOMAIN members
        <4>1. i \in 1 .. j - 1
          BY <1>1, Zenon DEF NestingInv
        <4> QED BY <1>5, <4>1
      <3>4. End(j) <= End(i) /\ End(i) % 16 = 0
        BY <1>1, <3>1, Zenon DEF Enclosed
      <3> QED BY <2>2, <3>2, <3>3, <3>4, Zenon
    <2> QED BY <2>1, <2>2
  <1>10. CursorInv'
    <2>1. \A c \in C : Behind(c)' = At'
      BY Zenon DEF Behind
    <2> QED BY <1>3, <1>8, <2>1, Zenon DEF CursorInv
  <1>11. NestingInv'
    <2>1. \A j \in Inside' : members'[j].within \subseteq Inside'
      <3> SUFFICES ASSUME NEW j \in Inside', NEW i \in members[j].within
                   PROVE  i \in Inside'
        BY <1>3, Zenon
      <3>1. j \in Inside /\ j \notin C /\ j \in DOMAIN members
        BY <1>3
      <3>2. i \in Inside /\ i \in 1 .. j - 1
        BY <1>1, <3>1, Zenon DEF NestingInv
      <3>3. CASE i \in C
        BY <1>2, <3>1, <3>2, <3>3
      <3> QED BY <3>2, <3>3
    <2>2. \A i \in Inside' : \A j \in i + 1 .. Len(members) : i \in members'[j].within
      <3> TAKE i \in Inside'
      <3> TAKE j \in i + 1 .. Len(members)
      <3>1. i \in Inside /\ i \in DOMAIN members
        BY <1>3
      <3>2. j \in DOMAIN members
        BY <1>2, <3>1
      <3>3. i \in members[j].within
        BY <1>1, <3>1, Zenon DEF NestingInv
      <3> QED BY <3>2, <3>3, Zenon
    <2>3. \A j \in Inside' : members'[j].bit = 0 /\ members'[j].bits = 0
      <3> TAKE j \in Inside'
      <3>1. j \in Inside /\ j \notin C /\ j \in DOMAIN members
        BY <1>3
      <3> QED BY <1>1, <3>1, Zenon DEF NestingInv
    <2>4. \A j \in DOMAIN members' : members'[j].within \subseteq 1 .. j - 1
      BY <1>1, Zenon DEF NestingInv
    <2> QED BY <2>1, <2>2, <2>3, <2>4, Zenon DEF NestingInv
  <1> QED BY <1>7, <1>9, <1>10, <1>11

LEMMA MakesSeq ==
    ASSUME NEW n \in Nat, NEW S, NEW f \in [1 .. n -> S]
    PROVE  f \in Seq(S) /\ Len(f) = n
  OBVIOUS

LEMMA Shortens ==
    ASSUME NEW S, NEW q \in Seq(S), q # <<>>
    PROVE  /\ SubSeq(q, 1, Len(q) - 1) \in Seq(S)
           /\ Len(SubSeq(q, 1, Len(q) - 1)) = Len(q) - 1
           /\ \A i \in 1 .. Len(q) - 1 : SubSeq(q, 1, Len(q) - 1)[i] = q[i]
  <1> DEFINE k == Len(q)
             p == SubSeq(q, 1, k - 1)
  <1>1. k \in Nat \ {0} /\ k - 1 \in Nat
    OBVIOUS
  <1>2. p = [i \in 1 .. k - 1 |-> q[i]]
    BY <1>1
  <1>3. p \in [1 .. k - 1 -> S]
    <2>1. \A i \in 1 .. k - 1 : q[i] \in S
      BY <1>1
    <2> QED BY <1>2, <2>1, Zenon
  <1>4. \A i \in 1 .. k - 1 : p[i] = q[i]
    BY <1>2
  <1> HIDE DEF p
  <1>5. p \in Seq(S) /\ Len(p) = k - 1
    BY <1>1, <1>3, MakesSeq
  <1> QED BY <1>4, <1>5 DEF p

\* The innermost structure is the last of those that are open.
LEMMA PopsOne ==
    ASSUME NEW n \in Nat, open \in Seq(1 .. n), open # <<>>,
           open' = SubSeq(open, 1, Len(open) - 1),
           \A i, j \in DOMAIN open : i < j => open[i] < open[j]
    PROVE  /\ open' \in Seq(1 .. n) /\ open[Len(open)] \in Inside
           /\ \A i, j \in DOMAIN open' : i < j => open'[i] < open'[j]
           /\ Inside' = Inside \ {open[Len(open)]}
           /\ \A j \in Inside \ {open[Len(open)]} : j < open[Len(open)]
  <1> DEFINE k == Len(open)
  <1>1. /\ k \in Nat \ {0} /\ DOMAIN open = 1 .. k
        /\ \A i \in 1 .. k : open[i] \in 1 .. n
    OBVIOUS
  <1>2. /\ open' \in Seq(1 .. n) /\ Len(open') = k - 1 /\ DOMAIN open' = 1 .. k - 1
        /\ \A i \in 1 .. k - 1 : open'[i] = open[i]
    <2>1. /\ open' \in Seq(1 .. n) /\ Len(open') = k - 1
          /\ \A i \in 1 .. k - 1 : open'[i] = open[i]
      BY Shortens
    <2> QED BY <1>1, <2>1
  <1>3. Inside = {open[i] : i \in 1 .. k} /\ Inside' = {open'[i] : i \in 1 .. k - 1}
    BY <1>2 DEF Inside
  <1> HIDE DEF k
  <1>4. \A i \in 1 .. k - 1 : open[i] < open[k] /\ i \in 1 .. k /\ open[i] \in 1 .. n
    <2> TAKE i \in 1 .. k - 1
    <2>1. i \in 1 .. k /\ k \in 1 .. k /\ i < k
      BY <1>1
    <2> QED BY <1>1, <2>1
  <1>5. open[k] \in Inside /\ open[k] \in 1 .. n
    BY <1>1, <1>3
  <1>6. \A i \in 1 .. k : i = k \/ i \in 1 .. k - 1
    BY <1>1
  <1>7. ASSUME NEW x \in Inside, x # open[k] PROVE x \in Inside' /\ x < open[k]
    <2>1. PICK i \in 1 .. k : x = open[i]
      BY <1>3
    <2>2. i \in 1 .. k - 1
      BY <1>6, <1>7, <2>1
    <2>3. open'[i] = x
      BY <1>2, <2>1, <2>2
    <2>4. x \in Inside'
      BY <1>3, <2>2, <2>3, Zenon
    <2>5. x < open[k]
      BY <1>4, <2>1, <2>2
    <2> QED BY <2>4, <2>5
  <1>8. ASSUME NEW x \in Inside' PROVE x \in Inside /\ x # open[k]
    <2>1. PICK i \in 1 .. k - 1 : x = open'[i]
      BY <1>3
    <2>2. x = open[i] /\ open[i] < open[k] /\ i \in 1 .. k /\ open[i] \in 1 .. n
      BY <1>2, <1>4, <2>1
    <2>3. x \in Inside
      BY <1>3, <2>2, Zenon
    <2>4. x # open[k]
      BY <1>5, <2>2
    <2> QED BY <2>3, <2>4
  <1>9. \A i, j \in DOMAIN open' : i < j => open'[i] < open'[j]
    BY <1>1, <1>2, <1>4
  <1> QED BY <1>2, <1>5, <1>7, <1>8, <1>9, Zenon DEF k

\* The structures of C get their sizes.
LEMMA Sizes ==
    ASSUME LayoutInv, NEW C \in SUBSET Inside, NEW e \in Nat, At <= 8 * e,
           members' = [i \in DOMAIN members |->
                         IF i \in C THEN Sized(members[i], e) ELSE members[i]]
    PROVE  /\ members' \in Seq(Member) /\ Len(members') = Len(members)
           /\ DOMAIN members' = DOMAIN members
           /\ \A j \in DOMAIN members : /\ Start(j)' = Start(j)
                                       /\ members'[j].unit = members[j].unit
                                       /\ members'[j].within = members[j].within
           /\ \A j \in DOMAIN members :
                 j \notin C => members'[j] = members[j] /\ End(j)' = End(j)
           /\ \A j \in C : End(j)' = 8 * e
  <1>1. /\ NestingInv /\ CursorInv /\ LayoutTypeOK /\ members \in Seq(Member) /\ At \in Nat
    BY CursorIsTyped DEF LayoutInv, LayoutTypeOK
  <1>2. /\ Len(members) \in Nat /\ DOMAIN members = 1 .. Len(members)
        /\ \A j \in DOMAIN members : /\ members[j] \in Member
              /\ Start(j) \in Nat /\ End(j) \in Nat /\ Start(j) <= End(j)
    BY <1>1, Places, Zenon
  <1>3. C \subseteq DOMAIN members
    BY <1>1, InsideAreMembers
  <1>4. ASSUME NEW j \in DOMAIN members, j \in C
        PROVE  /\ members'[j] \in Member /\ Start(j)' = Start(j) /\ End(j)' = 8 * e
               /\ members'[j].unit = members[j].unit /\ members'[j].within = members[j].within
    <2>1. members[j].bit = 0 /\ members[j].bits = 0
      BY <1>1, <1>4, Zenon DEF NestingInv
    <2>2. members[j].byte <= e
      <3>1. End(j) <= At
        BY <1>1, <1>4, Zenon DEF CursorInv
      <3>2. Start(j) <= 8 * e
        BY <1>1, <1>2, <1>4, <3>1
      <3>3. members[j].byte \in Nat /\ Start(j) = 8 * members[j].byte + 0
        BY <1>2, <1>4, <2>1, MemberFields, Zenon DEF Start
      <3> QED BY <3>2, <3>3
    <2>3. members'[j] = Sized(members[j], e)
      BY <1>4, Zenon
    <2>4. /\ Sized(members[j], e) \in Member
          /\ Sized(members[j], e).byte = members[j].byte
          /\ Sized(members[j], e).bit = members[j].bit
          /\ Sized(members[j], e).unit = members[j].unit
          /\ Sized(members[j], e).within = members[j].within
          /\ 8 * members[j].byte + members[j].bit + Sized(members[j], e).bits = 8 * e
      BY <1>2, <1>4, <2>1, <2>2, SizedIsMember, Zenon
    <2> QED BY <2>3, <2>4, Zenon DEF Start, End
  <1>5. ASSUME NEW j \in DOMAIN members, j \notin C
        PROVE  members'[j] = members[j] /\ Start(j)' = Start(j) /\ End(j)' = End(j)
    <2>1. members'[j] = members[j]
      BY <1>5, Zenon
    <2> QED BY <2>1, Zenon DEF Start, End
  <1>6. DOMAIN members' = DOMAIN members /\ \A j \in DOMAIN members : members'[j] \in Member
    BY <1>2, <1>4, <1>5, Zenon
  <1>7. members' \in Seq(Member) /\ Len(members') = Len(members)
    <2> HIDE DEF Sized
    <2>1. members' \in [1 .. Len(members) -> Member]
      BY <1>2, <1>6, Zenon
    <2> QED BY <1>2, <2>1, MakesSeq
  <1> QED BY <1>3, <1>4, <1>5, <1>6, <1>7, Zenon

LEMMA EndStructKeeps ==
    ASSUME LayoutInv, EndStruct
    PROVE  LayoutInv'
  <1>1. /\ LayoutTypeOK /\ cursor \in Cursor /\ At = Pos(cursor) /\ At \in Nat
        /\ muted \in Nat /\ lines' \in 0 .. MaxLines /\ phase = "reading"
    BY CursorIsTyped, ReadsOn DEF EndStruct
  <1>2. phase' = phase /\ total' = total /\ warned' = warned /\ warned \in BOOLEAN
    BY <1>1 DEF EndStruct, LayoutTypeOK
  <1>3. CASE UNCHANGED <<cursor, members, open>> /\ muted' \in Nat
    BY <1>1, <1>2, <1>3, Ignores DEF LayoutTypeOK
  <1>4. CASE /\ muted' = muted /\ open # <<>> /\ cursor' = Align(cursor, 2)
             /\ members' = [members EXCEPT ![open[Len(open)]] = Sized(@, Align(cursor, 2).byte)]
             /\ open' = SubSeq(open, 1, Len(open) - 1)
    <2> DEFINE last == open[Len(open)]
               e == Align(cursor, 2).byte
               C == {last}
    <2>1. /\ cursor' \in Cursor /\ cursor'.bit = 0 /\ e \in Nat /\ At <= 8 * e /\ e % 2 = 0
          /\ cursor'.byte = e
      BY <1>1, <1>4, Aligns DEF Cursor
    <2>2. At' = 8 * e
      <3>1. At' = 8 * cursor'.byte + cursor'.bit
        BY DEF At
      <3> QED BY <2>1, <3>1
    <2>3. /\ open \in Seq(1 .. Len(members)) /\ Len(members) \in Nat
          /\ \A i, j \in DOMAIN open : i < j => open[i] < open[j]
      BY <1>1, Places DEF LayoutInv, NestingInv, LayoutTypeOK
    <2>4. /\ open' \in Seq(1 .. Len(members)) /\ last \in Inside
          /\ \A i, j \in DOMAIN open' : i < j => open'[i] < open'[j]
          /\ Inside' = Inside \ C
          /\ \A j \in Inside \ C : j < last
      BY <1>4, <2>3, PopsOne, Zenon
    <2> HIDE DEF e
    <2>5. members' = [i \in DOMAIN members |->
                        IF i \in C THEN Sized(members[i], e) ELSE members[i]]
      BY <1>4, Zenon DEF e
    <2>6. C \in SUBSET Inside
      BY <2>4
    <2>7. /\ members' \in Seq(Member) /\ Len(members') = Len(members)
          /\ DOMAIN members' = DOMAIN members
          /\ \A j \in DOMAIN members : /\ Start(j)' = Start(j)
                                      /\ members'[j].unit = members[j].unit
                                      /\ members'[j].within = members[j].within
          /\ \A j \in DOMAIN members :
                j \notin C => members'[j] = members[j] /\ End(j)' = End(j)
          /\ \A j \in C : End(j)' = 8 * e
      BY <2>1, <2>5, <2>6, Sizes, Zenon
    <2>8. /\ \A j \in Inside \ C : \A c \in C : j < c
          /\ (phase' = "reading" => C # {}) /\ phase' # "laid"
      BY <1>1, <1>2, <2>4
    <2> HIDE DEF C
    <2>9. Placed' /\ Enclosed' /\ CursorInv' /\ NestingInv'
      BY <2>1, <2>2, <2>4, <2>6, <2>7, <2>8, Ends, Zenon
    <2>10. LayoutTypeOK'
      BY <1>1, <1>2, <1>4, <2>1, <2>4, <2>7 DEF LayoutTypeOK, Cursor
    <2> QED BY <2>8, <2>9, <2>10 DEF LayoutInv
  <1> QED BY <1>1, <1>3, <1>4 DEF EndStruct

LEMMA EndOfBlockKeeps ==
    ASSUME LayoutInv, EndOfBlock
    PROVE  LayoutInv'
  <1> DEFINE e == Align(cursor, 2).byte
  <1>1. /\ LayoutTypeOK /\ cursor \in Cursor /\ At = Pos(cursor) /\ At \in Nat
        /\ muted' = 0 /\ lines' = lines /\ warned' = warned /\ open' = <<>>
        /\ phase' \in {"laid", "refused"} /\ total' = e /\ cursor' = Align(cursor, 2)
    BY CursorIsTyped DEF EndOfBlock
  <1>2. /\ cursor' \in Cursor /\ cursor'.bit = 0 /\ e \in Nat /\ At <= 8 * e /\ e % 2 = 0
        /\ cursor'.byte = e
    BY <1>1, Aligns DEF Cursor
  <1>3. At' = 8 * e
    <2>1. At' = 8 * cursor'.byte + cursor'.bit
      BY DEF At
    <2> QED BY <1>2, <2>1
  <1>4. Inside' = {} /\ DOMAIN open' = {} /\ open' \in Seq(1 .. Len(members))
    BY <1>1 DEF Inside
  <1>5. members' = [i \in DOMAIN members |->
                      IF i \in Inside THEN Sized(members[i], e) ELSE members[i]]
    BY DEF EndOfBlock
  <1> HIDE DEF e
  <1>6. /\ members' \in Seq(Member) /\ Len(members') = Len(members)
        /\ DOMAIN members' = DOMAIN members
        /\ \A j \in DOMAIN members : /\ Start(j)' = Start(j)
                                    /\ members'[j].unit = members[j].unit
                                    /\ members'[j].within = members[j].within
        /\ \A j \in DOMAIN members :
              j \notin Inside => members'[j] = members[j] /\ End(j)' = End(j)
        /\ \A j \in Inside : End(j)' = 8 * e
    BY <1>2, <1>5, Sizes, Zenon
  <1>7. /\ Inside' = Inside \ Inside
        /\ \A j \in Inside \ Inside : \A c \in Inside : j < c
        /\ \A i, j \in DOMAIN open' : i < j => open'[i] < open'[j]
        /\ phase' # "reading" /\ (phase' = "laid" => total' = e)
    BY <1>1, <1>4
  <1>8. Placed' /\ Enclosed' /\ CursorInv' /\ NestingInv'
    BY <1>2, <1>3, <1>6, <1>7, Ends, Zenon
  <1>9. LayoutTypeOK'
    BY <1>1, <1>2, <1>4, <1>6 DEF LayoutTypeOK, Cursor, Phases
  <1>10. phase' = "laid" => At' = 8 * total'
    BY <1>1, <1>3
  <1> QED BY <1>8, <1>9, <1>10 DEF LayoutInv

-----------------------------------------------------------------------------
\* The layout, then the whole import, whose other actions leave it alone.

LEMMA LayoutStarts == LayoutInit => LayoutInv
  <1> SUFFICES ASSUME LayoutInit PROVE LayoutInv
    OBVIOUS
  <1>1. LayoutTypeOK
    <2>1. MaxLines \in Nat /\ members \in Seq(Member) /\ Len(members) = 0
      BY BlockLayoutAssumption DEF LayoutInit
    <2>2. open \in Seq(1 .. Len(members))
      BY DEF LayoutInit
    <2>3. cursor \in [byte : Nat, bit : 0 .. 7]
      BY DEF LayoutInit
    <2>4. /\ phase \in Phases /\ lines \in 0 .. MaxLines /\ muted \in Nat /\ total \in Nat
      BY <2>1 DEF LayoutInit, Phases
    <2>5. warned \in BOOLEAN
      BY Zenon DEF LayoutInit
    <2> QED BY <2>1, <2>2, <2>3, <2>4, <2>5 DEF LayoutTypeOK
  <1>2. DOMAIN members = {} /\ DOMAIN open = {} /\ Inside = {} /\ At = 0 /\ phase # "laid"
    BY DEF LayoutInit, Inside, At
  <1> QED BY <1>1, <1>2 DEF LayoutInv, Placed, Enclosed, CursorInv, NestingInv

LEMMA LayoutGoesOn == LayoutInv /\ [LayoutStep]_layoutVars => LayoutInv'
  <1> SUFFICES ASSUME LayoutInv, [LayoutStep]_layoutVars PROVE LayoutInv'
    OBVIOUS
  <1>1. ASSUME NEW name \in Names, NEW d \in Declarations, Declare(name, d) PROVE LayoutInv'
    BY <1>1, DeclareKeeps
  <1>2. ASSUME NEW name \in Names, OpenStruct(name) PROVE LayoutInv'
    BY <1>2, OpenStructKeeps
  <1>3. CASE EndStruct
    BY <1>3, EndStructKeeps
  <1>4. CASE EndOfBlock
    BY <1>4, EndOfBlockKeeps
  <1>5. CASE Optimized
    BY <1>5, CursorIsTyped, Ignores DEF Optimized, LayoutTypeOK, Phases
  <1>6. CASE UNCHANGED layoutVars
    BY <1>6, CursorIsTyped, Ignores DEF layoutVars, LayoutTypeOK
  <1> QED BY <1>1, <1>2, <1>3, <1>4, <1>5, <1>6, Zenon DEF LayoutStep

LEMMA ImportsLeaveLayout == [Next]_vars => [LayoutStep]_layoutVars
  <1> SUFFICES ASSUME Next PROVE [LayoutStep]_layoutVars
    BY DEF vars
  <1>1. CASE LayoutStep /\ UNCHANGED importVars
    BY <1>1
  <1>2. ASSUME NEW who \in Importers, NEW number \in DbNumbers, NEW prefix \in TagPrefixes,
               NEW overwrite \in BOOLEAN, ImportBlock(who, number, prefix, overwrite)
        PROVE  UNCHANGED layoutVars
    BY <1>2, Zenon DEF ImportBlock
  <1>3. ASSUME NEW who \in Importers, NEW rows \in SymbolFiles, NEW prefix \in TagPrefixes,
               NEW overwrite \in BOOLEAN, ImportSymbols(who, rows, prefix, overwrite)
        PROVE  UNCHANGED layoutVars
    BY <1>3, Zenon DEF ImportSymbols
  <1>4. ASSUME NEW who \in Importers, ApplyRow(who) PROVE UNCHANGED layoutVars
    BY <1>4, Zenon DEF ApplyRow
  <1>5. ASSUME NEW rows \in SymbolFiles, NEW i \in DOMAIN rows, CreateTag(rows[i])
        PROVE  UNCHANGED layoutVars
    BY <1>5, Zenon DEF CreateTag, Edits
  <1>6. ASSUME NEW id \in DOMAIN tags, DeleteTag(id) PROVE UNCHANGED layoutVars
    BY <1>6, Zenon DEF DeleteTag, Edits
  <1>7. CASE DeleteConnection
    BY <1>7, Zenon DEF DeleteConnection, Edits
  <1> QED BY <1>1, <1>2, <1>3, <1>4, <1>5, <1>6, <1>7, Zenon DEF Next

\* While a block is laid out and ever after, the cursor is where the members
\* placed so far end and the open structures are nested in one another
\* (_Cursor, compute_layout).
THEOREM LayoutInvariant == Spec => []LayoutInv
  <1>1. Init => LayoutInv
    BY LayoutStarts DEF Init
  <1>2. LayoutInv /\ [Next]_vars => LayoutInv'
    BY LayoutGoesOn, ImportsLeaveLayout, Zenon
  <1> QED BY <1>1, <1>2, PTL DEF Spec

\* Whatever a block declares, however deep and however long, no member drifts
\* and none reaches out of its structure or of the block (compute_layout).
THEOREM OffsetsNeverDrift == Spec => []LaidOut
  <1>1. LayoutInv => LaidOut
    BY DEF LayoutInv, LaidOut
  <1> QED BY <1>1, LayoutInvariant, PTL

-----------------------------------------------------------------------------
\* Recursion over the numbers up to n, as the collecting loops use it.

\* A set of numbers that is not empty has a least one.
LEMMA Least ==
    ASSUME NEW T \in SUBSET Nat, T # {}
    PROVE  \E m \in T : \A k \in T : m <= k
  <1>1. IsWellFoundedOn(OpToRel(<, Nat), Nat)
    BY NatLessThanWellFounded
  <1>2. \E x \in T : \A y \in T : ~(<<y, x>> \in OpToRel(<, Nat))
    BY <1>1, WFMin
  <1>3. PICK x \in T : \A y \in T : ~(<<y, x>> \in OpToRel(<, Nat))
    BY <1>2
  <1>4. \A y \in T : ~(y < x)
    BY <1>3 DEF OpToRel
  <1> QED BY <1>4

LEMMA LeastIsMin ==
    ASSUME NEW T \in SUBSET Nat, T # {}
    PROVE  Min(T) \in T /\ \A k \in T : Min(T) <= k
  <1>1. \E m \in T : \A k \in T : m <= k
    BY Least
  <1> QED BY <1>1 DEF Min

LEMMA Induct ==
    ASSUME NEW n \in Nat, NEW G, 0 \in G, \A i \in 1 .. n : i - 1 \in G => i \in G
    PROVE  \A i \in 0 .. n : i \in G
  <1> DEFINE T == {i \in 0 .. n : i \notin G}
  <1> SUFFICES ASSUME T # {} PROVE FALSE
    OBVIOUS
  <1>1. T \in SUBSET Nat
    OBVIOUS
  <1>2. PICK m \in T : \A k \in T : m <= k
    BY <1>1, Least
  <1>3. m \in 0 .. n /\ m \notin G /\ m # 0
    BY <1>2
  <1>4. m - 1 \in 0 .. n /\ m - 1 \notin T
    BY <1>2, <1>3
  <1> QED BY <1>3, <1>4

\* What a loop of n rounds computes, round by round, when every round stays in Q.
Rounds(n, Q) == [1 .. n -> [Q -> Q]]

Runs(n, Q, base, step) ==
    {f \in [0 .. n -> Q] : f[0] = base /\ \A i \in 1 .. n : f[i] = step[i][f[i - 1]]}

LEMMA LoopRuns ==
    ASSUME NEW n \in Nat, NEW Q, NEW base \in Q, NEW step \in Rounds(n, Q)
    PROVE  Runs(n, Q, base, step) # {}
  <1> DEFINE R(m) == {f \in [0 .. m -> Q] :
                        f[0] = base /\ \A i \in 1 .. m : f[i] = step[i][f[i - 1]]}
             G == {m \in 0 .. n : R(m) # {}}
  <1>0. step \in [1 .. n -> [Q -> Q]]
    BY DEF Rounds
  <1>1. 0 \in G
    <2>1. [i \in 0 .. 0 |-> base] \in R(0)
      OBVIOUS
    <2> QED BY <2>1
  <1>2. ASSUME NEW m \in 1 .. n, m - 1 \in G PROVE m \in G
    <2>1. PICK f \in R(m - 1) : TRUE
      BY <1>2
    <2> DEFINE g == [i \in 0 .. m |-> IF i = m THEN step[m][f[m - 1]] ELSE f[i]]
    <2>2. /\ f \in [0 .. m - 1 -> Q] /\ f[0] = base
          /\ \A i \in 1 .. m - 1 : f[i] = step[i][f[i - 1]]
      BY <2>1
    <2>3. f[m - 1] \in Q /\ step[m] \in [Q -> Q] /\ step[m][f[m - 1]] \in Q
      BY <1>0, <1>2, <2>2
    <2>4. ASSUME NEW i \in 0 .. m PROVE g[i] \in Q
      <3>1. CASE i = m
        BY <2>3, <3>1
      <3>2. CASE i # m
        BY <2>2, <3>2
      <3> QED BY <3>1, <3>2
    <2>5. g \in [0 .. m -> Q]
      BY <2>4
    <2>6. g[0] = base
      BY <1>2, <2>2
    <2>7. ASSUME NEW i \in 1 .. m PROVE g[i] = step[i][g[i - 1]]
      <3>1. i - 1 \in 0 .. m - 1 /\ i - 1 \in 0 .. m /\ i - 1 # m /\ i \in 0 .. m
        BY <1>2, <2>7
      <3>2. g[i - 1] = f[i - 1]
        BY <3>1
      <3>3. CASE i = m
        BY <3>1, <3>2, <3>3
      <3>4. CASE i # m
        BY <1>2, <2>2, <3>1, <3>2, <3>4
      <3> QED BY <3>3, <3>4
    <2> HIDE DEF g
    <2>8. g \in R(m)
      BY <2>5, <2>6, <2>7
    <2>9. R(m) # {}
      BY <2>8, Zenon
    <2>10. m \in 0 .. n
      BY <1>2
    <2> QED BY <2>9, <2>10, Zenon
  <1> HIDE DEF G
  <1>3. n \in G
    <2>1. \A i \in 1 .. n : i - 1 \in G => i \in G
      BY <1>2
    <2>2. \A i \in 0 .. n : i \in G
      BY <1>1, <2>1, Induct
    <2> QED BY <2>2
  <1>4. R(n) # {}
    BY <1>3 DEF G
  <1> QED BY <1>4 DEF Runs

-----------------------------------------------------------------------------
\* Names.

LEMMA EachKeeps ==
    ASSUME NEW f \in [Texts -> Texts], NEW s \in Seq(Texts)
    PROVE  Each(f, s) \in Seq(Texts)
  <1>1. Len(s) \in Nat /\ DOMAIN s = 1 .. Len(s)
    OBVIOUS
  <1>2. \A i \in 1 .. Len(s) : f[s[i]] \in Texts
    OBVIOUS
  <1>3. Each(f, s) \in [1 .. Len(s) -> Texts]
    BY <1>1, <1>2 DEF Each
  <1> QED BY <1>1, <1>3, MakesSeq

LEMMA LowerIsName ==
    ASSUME NEW name \in TagName
    PROVE  /\ Lower(name) \in TagName /\ Lower(name).tail = name.tail
           /\ Lower(name).stem = Each(Fold, name.stem)
  <1>1. name.stem \in Seq(Texts) /\ name.tail \in Nat
    BY DEF TagName
  <1>2. Each(Fold, name.stem) \in Seq(Texts)
    BY <1>1, EachKeeps, SymbolTableAssumption
  <1> QED BY <1>1, <1>2 DEF Lower, TagName

LEMMA Numbers ==
    ASSUME NEW n \in Nat
    PROVE  IsFiniteSet(2 .. n + 2) /\ Cardinality(2 .. n + 2) = n + 1
  <1> DEFINE b == n + 2
  <1>1. b \in Int /\ 2 \in Int /\ ~(2 > b) /\ b - 2 + 1 = n + 1
    OBVIOUS
  <1> HIDE DEF b
  <1>2. IsFiniteSet(2 .. b) /\ Cardinality(2 .. b) = IF 2 > b THEN 0 ELSE b - 2 + 1
    BY <1>1, FS_Interval
  <1>3. Cardinality(2 .. b) = n + 1
    BY <1>1, <1>2, Zenon
  <1> QED BY <1>2, <1>3 DEF b

\* There is always a number left for a name, and the one sanitize_name takes
\* tells it from every name before it.
LEMMA SuffixIsFree ==
    ASSUME NEW stem \in Seq(Texts), NEW taken, IsFiniteSet(taken)
    PROVE  /\ Suffix(stem, taken) \in Nat
           /\ Lower([stem |-> stem, tail |-> Suffix(stem, taken)]) \notin taken
  <1> DEFINE n == Cardinality(taken)
             L(k) == Lower([stem |-> stem, tail |-> k])
             T == {k \in {0} \cup 2 .. n + 2 : L(k) \notin taken}
             D == 2 .. n + 2
  <1>1. n \in Nat
    BY FS_CardinalityType
  <1>2. T \in SUBSET Nat
    BY <1>1
  <1>3. T # {}
    <2> SUFFICES ASSUME T = {} PROVE FALSE
      OBVIOUS
    <2>1. \A k \in D : L(k) \in taken
      BY <1>1
    <2>2. IsFiniteSet(D) /\ Cardinality(D) = n + 1
      BY <1>1, Numbers
    <2> DEFINE f == [k \in D |-> L(k)]
    <2>3. f \in [D -> taken]
      BY <2>1
    <2>4. n < n + 1
      BY <1>1
    <2> HIDE DEF f
    <2>5. \E x, y \in D : x # y /\ f[x] = f[y]
      <3> HIDE DEF D
      <3> QED BY <2>2, <2>3, <2>4, FS_PigeonHole
    <2>6. PICK x \in D, y \in D : x # y /\ f[x] = f[y]
      BY <2>5
    <2>7. L(x) = L(y) /\ x \in Nat /\ y \in Nat
      BY <1>1, <2>6 DEF f
    <2>8. [stem |-> stem, tail |-> x] \in TagName /\ [stem |-> stem, tail |-> y] \in TagName
      BY <2>7 DEF TagName
    <2>9. L(x).tail = x /\ L(y).tail = y
      BY <2>8, LowerIsName
    <2> QED BY <2>6, <2>7, <2>9
  <1>4. Min(T) \in T
    BY <1>2, <1>3, LeastIsMin
  <1>5. Suffix(stem, taken) = Min(T)
    BY DEF Suffix
  <1> QED BY <1>2, <1>4, <1>5

LEMMA Sanitizes ==
    ASSUME NEW text \in Seq(Texts), NEW taken, IsFiniteSet(taken)
    PROVE  Sanitize(text, taken) \in TagName /\ Lower(Sanitize(text, taken)) \notin taken
  <1>1. Each(Clean, text) \in Seq(Texts)
    BY EachKeeps, SymbolTableAssumption
  <1>2. /\ Suffix(Each(Clean, text), taken) \in Nat
        /\ Lower([stem |-> Each(Clean, text), tail |-> Suffix(Each(Clean, text), taken)])
              \notin taken
    BY <1>1, SuffixIsFree
  <1> QED BY <1>1, <1>2 DEF Sanitize, TagName

-----------------------------------------------------------------------------
\* Types: what is supported has a gateway type and is as long as one value of it.

LEMMA FixedFits ==
    ASSUME NEW b \in DOMAIN Fixed, Fixed[b].data_type # Unsupported
    PROVE  /\ Fixed[b].data_type \in DataTypes /\ Fixed[b].length = 1
           /\ Fixed[b].size = SizeOf(Fixed[b].data_type, 1)
  <1>1. b \in {"BOOL", "BYTE", "WORD", "INT", "DWORD", "REAL", "LREAL", "DTL", "TIMER"}
    BY DEF Fixed
  <1>2. CASE b \in {"DTL", "TIMER"}
    BY <1>2 DEF Fixed, No
  <1>3. CASE b \in DataTypes
    <2>1. Fixed[b].data_type = b /\ Fixed[b].length = 1
      BY <1>3 DEF Fixed, Ok, DataTypes
    <2>2. b # "STRING"
      BY <1>1
    <2> QED BY <1>3, <2>1, <2>2 DEF SizeOf
  <1> QED BY <1>1, <1>2, <1>3 DEF DataTypes

LEMMA ScalarFits ==
    ASSUME NEW d, Scalar(d).data_type # Unsupported
    PROVE  /\ Scalar(d).data_type \in DataTypes /\ Scalar(d).length \in Nat \ {0}
           /\ Scalar(d).size = SizeOf(Scalar(d).data_type, Scalar(d).length)
  <1>0. "STRING" \notin DOMAIN Fixed /\ "WSTRING" \notin DOMAIN Fixed
    BY DEF Fixed
  <1>1. CASE d.base \in DOMAIN Fixed
    <2>1. Scalar(d) = Fixed[d.base]
      BY <1>0, <1>1 DEF Scalar
    <2> QED BY <1>1, <2>1, FixedFits
  <1>2. CASE d.base = "STRING"
    <2>1. Scalar(d) = IF d.length \in 1 .. MaxStringLength
                        THEN [Ok("STRING", d.length + 2, 2) EXCEPT !.length = d.length]
                        ELSE No(2, 2)
      BY <1>0, <1>2 DEF Scalar
    <2>2. CASE d.length \in 1 .. MaxStringLength
      <3>1. /\ Scalar(d).data_type = "STRING" /\ Scalar(d).length = d.length
            /\ Scalar(d).size = d.length + 2
        BY <2>1, <2>2 DEF Ok
      <3>2. d.length \in Nat \ {0}
        BY <2>2, MaxStringLengthAssumption
      <3> QED BY <3>1, <3>2 DEF SizeOf, DataTypes
    <2>3. CASE d.length \notin 1 .. MaxStringLength
      BY <2>1, <2>3 DEF No
    <2> QED BY <2>2, <2>3
  <1>3. CASE d.base = "WSTRING"
    <2>1. Scalar(d) = No(2 * d.length + 4, 2)
      BY <1>0, <1>3 DEF Scalar
    <2> QED BY <2>1 DEF No
  <1>4. CASE d.base \notin DOMAIN Fixed /\ d.base # "STRING" /\ d.base # "WSTRING"
    <2>1. Scalar(d) = Unrecognised
      BY <1>4 DEF Scalar
    <2> QED BY <2>1 DEF Unrecognised, No
  <1> QED BY <1>1, <1>2, <1>3, <1>4

LEMMA DeclaredFits ==
    ASSUME NEW d, MapDeclared(d).data_type # Unsupported
    PROVE  /\ ~d.array /\ MapDeclared(d) = Scalar(d)
           /\ MapDeclared(d).data_type \in DataTypes /\ MapDeclared(d).length \in Nat \ {0}
           /\ MapDeclared(d).size = SizeOf(MapDeclared(d).data_type, MapDeclared(d).length)
  <1>1. CASE ~d.array
    BY <1>1, ScalarFits DEF MapDeclared
  <1>2. CASE d.array /\ d.count <= 0
    BY <1>2 DEF MapDeclared, No
  <1>3. CASE d.array /\ ~(d.count <= 0)
    <2> DEFINE s == ArraySize(Scalar(d), d.count)
               a == IF Scalar(d).alignment = 0 THEN 1 ELSE Scalar(d).alignment
    <2>1. MapDeclared(d) = No(s, a)
      BY <1>3 DEF MapDeclared
    <2> HIDE DEF s, a
    <2> QED BY <2>1 DEF No
  <1> QED BY <1>1, <1>2, <1>3

LEMMA RowTypeFits ==
    ASSUME NEW row, ARow(row), Usable(row)
    PROVE  TypeOf(row).data_type \in DataTypes /\ TypeOf(row).length \in Nat \ {0}
  <1>1. CASE row.declared = NoType
    <2>1. row.address.width \in {"X", "B", "W", "D"}
      BY DEF ARow, Implied
    <2>2. Implied[row.address.width] \in {"BOOL", "BYTE", "WORD", "DWORD"}
      BY <2>1 DEF Implied
    <2>3. TypeOf(row) = Ok(Implied[row.address.width], 1, 1)
      BY <1>1 DEF TypeOf
    <2> QED BY <2>2, <2>3 DEF Ok, DataTypes
  <1>2. CASE row.declared # NoType
    <2>1. TypeOf(row) = MapDeclared(row.declared)
      BY <1>2 DEF TypeOf
    <2>2. TypeOf(row).data_type # Unsupported
      BY DEF Usable
    <2> QED BY <2>1, <2>2, DeclaredFits
  <1> QED BY <1>1, <1>2

-----------------------------------------------------------------------------
\* Files: every name in one is taken, and no two rows have the same.

Files(E) ==
    {file \in [entries : Seq(E), skipped : Nat, taken : SUBSET TagName] :
        /\ IsFiniteSet(file.taken)
        /\ \A i \in DOMAIN file.entries : Lower(file.entries[i].name) \in file.taken
        /\ \A i, j \in DOMAIN file.entries :
              i # j => Lower(file.entries[i].name) # Lower(file.entries[j].name)}

RowsIn(file) == Len(file.entries) + file.skipped

LEMMA EmptyIsFile ==
    ASSUME NEW E PROVE EmptyFile \in Files(E) /\ RowsIn(EmptyFile) = 0
  <1>1. IsFiniteSet({})
    BY FS_EmptySet
  <1> QED BY <1>1 DEF EmptyFile, Files, RowsIn

LEMMA SkipKeeps ==
    ASSUME NEW E, NEW file \in Files(E)
    PROVE  Skip(file) \in Files(E) /\ RowsIn(Skip(file)) = RowsIn(file) + 1
  <1>1. /\ file \in [entries : Seq(E), skipped : Nat, taken : SUBSET TagName]
        /\ file.skipped \in Nat /\ Len(file.entries) \in Nat
    BY DEF Files
  <1>2. /\ Skip(file) \in [entries : Seq(E), skipped : Nat, taken : SUBSET TagName]
        /\ Skip(file).entries = file.entries /\ Skip(file).taken = file.taken
        /\ Skip(file).skipped = file.skipped + 1
    BY <1>1 DEF Skip
  <1>3. Skip(file) \in Files(E)
    BY <1>2, Zenon DEF Files
  <1>4. RowsIn(Skip(file)) = RowsIn(file) + 1
    BY <1>1, <1>2 DEF RowsIn
  <1> QED BY <1>3, <1>4

LEMMA EnterKeeps ==
    ASSUME NEW E, NEW file \in Files(E), NEW e \in E,
           Lower(e.name) \in TagName, Lower(e.name) \notin file.taken
    PROVE  Enter(file, e) \in Files(E) /\ RowsIn(Enter(file, e)) = RowsIn(file) + 1
  <1> DEFINE q == file.entries
             new == Enter(file, e)
             p == Append(q, e)
             n == Len(q)
             taken == file.taken \cup {Lower(e.name)}
  <1>1. /\ q \in Seq(E) /\ file.skipped \in Nat /\ file.taken \in SUBSET TagName
        /\ IsFiniteSet(file.taken)
        /\ \A i \in DOMAIN q : Lower(q[i].name) \in file.taken
        /\ \A i, j \in DOMAIN q : i # j => Lower(q[i].name) # Lower(q[j].name)
        /\ file \in [entries : Seq(E), skipped : Nat, taken : SUBSET TagName]
    BY DEF Files
  <1>2. new.entries = p /\ new.skipped = file.skipped /\ new.taken = taken
    BY <1>1 DEF Enter
  <1>3. IsFiniteSet(taken) /\ taken \in SUBSET TagName
    BY <1>1, FS_AddElement
  <1> HIDE DEF q
  <1>4. /\ p \in Seq(E) /\ n \in Nat /\ Len(p) = n + 1 /\ DOMAIN p = 1 .. n + 1
        /\ DOMAIN q = 1 .. n /\ p[n + 1] = e /\ \A i \in 1 .. n : p[i] = q[i]
    BY <1>1
  <1> HIDE DEF p, new, taken
  <1>5. ASSUME NEW i \in DOMAIN p
        PROVE  Lower(p[i].name) \in taken /\ (i \in DOMAIN q => p[i] = q[i])
               /\ (i \notin DOMAIN q => i = n + 1 /\ p[i] = e)
    <2>1. CASE i = n + 1
      <3>1. p[i] = e /\ i \notin DOMAIN q
        BY <1>4, <2>1
      <3> QED BY <2>1, <3>1 DEF taken
    <2>2. CASE i # n + 1
      <3>1. i \in DOMAIN q /\ p[i] = q[i]
        BY <1>4, <2>2
      <3> QED BY <1>1, <3>1 DEF taken
    <2> QED BY <2>1, <2>2
  <1>6. ASSUME NEW i \in DOMAIN p, NEW j \in DOMAIN p, i # j
        PROVE  Lower(p[i].name) # Lower(p[j].name)
    <2>1. CASE i \in DOMAIN q /\ j \in DOMAIN q
      BY <1>1, <1>5, <1>6, <2>1, Zenon
    <2>2. CASE i \in DOMAIN q /\ j \notin DOMAIN q
      BY <1>1, <1>5, <2>2, Zenon
    <2>3. CASE i \notin DOMAIN q /\ j \in DOMAIN q
      BY <1>1, <1>5, <2>3, Zenon
    <2> QED BY <1>5, <1>6, <2>1, <2>2, <2>3, Zenon
  <1>7. new \in Files(E)
    <2>1. new \in [entries : Seq(E), skipped : Nat, taken : SUBSET TagName]
      BY <1>1, <1>3, <1>4 DEF new, Enter, p, q, taken
    <2> QED BY <1>2, <1>3, <1>5, <1>6, <2>1, Zenon DEF Files
  <1>8. RowsIn(new) = RowsIn(file) + 1
    BY <1>1, <1>2, <1>4 DEF RowsIn, q
  <1> QED BY <1>7, <1>8 DEF new

\* What an entry may be: typed, and in agreement with the member it is from.
Sound == {e \in Entry : Sourced(e)}

LEMMA RowEntered ==
    ASSUME NEW row, ARow(row), Usable(row), NEW taken, IsFiniteSet(taken)
    PROVE  /\ RowEntry(row, taken) \in Sound
           /\ Lower(RowEntry(row, taken).name) \in TagName
           /\ Lower(RowEntry(row, taken).name) \notin taken
  <1> DEFINE name == Sanitize(<<row.name>>, taken)
  <1>1. row.name \in Texts
    BY DEF ARow
  <1>2. name \in TagName /\ Lower(name) \notin taken
    <2>1. <<row.name>> \in Seq(Texts)
      BY <1>1
    <2> QED BY <2>1, Sanitizes
  <1>3. Lower(name) \in TagName
    BY <1>2, LowerIsName
  <1> HIDE DEF name
  <1>4. /\ row.address.form \in Areas /\ row.address.db \in Nat /\ row.address.byte \in Nat
        /\ row.address.bit \in Nat \cup {NoBit}
    BY DEF ARow, Usable, Readable
  <1>5. TypeOf(row).data_type \in DataTypes /\ TypeOf(row).length \in Nat \ {0}
    BY RowTypeFits
  <1> DEFINE e == RowEntry(row, taken)
  <1>6. e \in Entry /\ e.source = 0 /\ e.name = name
    BY <1>2, <1>4, <1>5 DEF RowEntry, Entry, name
  <1> QED BY <1>2, <1>3, <1>6 DEF Sound, Sourced

LEMMA CollectedKeeps ==
    ASSUME NEW row, ARow(row), NEW file \in Files(Sound)
    PROVE  /\ Collected(file, row) \in Files(Sound)
           /\ RowsIn(Collected(file, row)) = RowsIn(file) + 1
  <1>1. CASE Usable(row)
    <2>1. IsFiniteSet(file.taken)
      BY DEF Files
    <2>2. /\ RowEntry(row, file.taken) \in Sound
          /\ Lower(RowEntry(row, file.taken).name) \in TagName
          /\ Lower(RowEntry(row, file.taken).name) \notin file.taken
      BY <1>1, <2>1, RowEntered
    <2>3. Collected(file, row) = Enter(file, RowEntry(row, file.taken))
      BY <1>1 DEF Collected
    <2> QED BY <2>2, <2>3, EnterKeeps
  <1>2. CASE ~Usable(row)
    <2>1. Collected(file, row) = Skip(file)
      BY <1>2 DEF Collected
    <2> QED BY <2>1, SkipKeeps
  <1> QED BY <1>1, <1>2

\* _collect reads every row of the file once.
LEMMA CollectsAll ==
    ASSUME NEW rows \in SymbolFiles
    PROVE  Collect(rows) \in Files(Sound) /\ RowsIn(Collect(rows)) = Len(rows)
  <1> DEFINE n == Len(rows)
             Q == Files(Sound)
             step == [i \in 1 .. n |-> [file \in Q |-> Collected(file, rows[i])]]
             Reads(f) == f = [i \in 0 .. n |->
                               IF i = 0 THEN EmptyFile ELSE Collected(f[i - 1], rows[i])]
             h == CHOOSE f : Reads(f)
             G == {i \in 0 .. n : h[i] \in Q /\ RowsIn(h[i]) = i}
  <1>1. n \in Nat /\ \A i \in 1 .. n : ARow(rows[i])
    BY TagImportAssumption
  <1>2. EmptyFile \in Q /\ RowsIn(EmptyFile) = 0
    BY EmptyIsFile
  <1>3. \A i \in 1 .. n : \A file \in Q :
           Collected(file, rows[i]) \in Q /\ RowsIn(Collected(file, rows[i])) = RowsIn(file) + 1
    BY <1>1, CollectedKeeps
  <1>4. Collect(rows) = h[n]
    BY DEF Collect
  <1> HIDE DEF n, Q
  <1>5. step \in Rounds(n, Q)
    BY <1>3 DEF Rounds
  <1>6. \E f \in [0 .. n -> Q] : f[0] = EmptyFile /\ \A i \in 1 .. n : f[i] = step[i][f[i - 1]]
    <2> HIDE DEF step
    <2>1. n \in Nat /\ EmptyFile \in Q
      BY <1>1, <1>2
    <2>2. Runs(n, Q, EmptyFile, step) # {}
      BY <1>5, <2>1, LoopRuns, Zenon
    <2> QED BY <2>2 DEF Runs
  <1>7. \E f : Reads(f)
    <2>1. PICK f \in [0 .. n -> Q] :
             f[0] = EmptyFile /\ \A i \in 1 .. n : f[i] = step[i][f[i - 1]]
      BY <1>6
    <2>2. ASSUME NEW i \in 0 .. n
          PROVE  f[i] = IF i = 0 THEN EmptyFile ELSE Collected(f[i - 1], rows[i])
      <3>1. CASE i = 0
        BY <2>1, <3>1
      <3>2. CASE i # 0
        <4>1. i \in 1 .. n /\ i - 1 \in 0 .. n
          BY <1>1, <3>2
        <4>2. f[i] = step[i][f[i - 1]] /\ f[i - 1] \in Q
          BY <2>1, <4>1
        <4> QED BY <3>2, <4>1, <4>2
      <3> QED BY <3>1, <3>2
    <2>3. Reads(f)
      BY <2>1, <2>2
    <2> QED BY <2>3
  <1>8. Reads(h)
    <2> HIDE DEF Reads
    <2> QED BY <1>7
  <1> HIDE DEF h
  <1>9. h[0] = EmptyFile /\ \A i \in 1 .. n : h[i] = Collected(h[i - 1], rows[i])
    <2>1. \A i \in 1 .. n : i \in 0 .. n /\ i # 0
      BY <1>1
    <2>2. 0 \in 0 .. n
      BY <1>1
    <2> QED BY <1>8, <2>1, <2>2
  <1>10. 0 \in G
    BY <1>1, <1>2, <1>9
  <1>11. ASSUME NEW i \in 1 .. n, i - 1 \in G PROVE i \in G
    <2>1. h[i - 1] \in Q /\ RowsIn(h[i - 1]) = i - 1 /\ i \in 0 .. n
      BY <1>1, <1>11
    <2>2. h[i] \in Q /\ RowsIn(h[i]) = i - 1 + 1
      BY <1>3, <1>9, <2>1
    <2>3. i - 1 + 1 = i
      OBVIOUS
    <2> QED BY <2>1, <2>2, <2>3
  <1>12. n \in G
    <2> HIDE DEF G
    <2>1. \A i \in 1 .. n : i - 1 \in G => i \in G
      BY <1>11
    <2>2. \A i \in 0 .. n : i \in G
      BY <1>1, <1>10, <2>1, Induct
    <2> QED BY <1>1, <2>2
  <1> QED BY <1>4, <1>12 DEF Q, n

LEMMA MemberEntered ==
    ASSUME LayoutTypeOK, ValueInv, NEW i \in DOMAIN members,
           members[i].data_type # Unsupported,
           NEW number \in Nat, NEW prefix \in Seq(Texts), NEW taken, IsFiniteSet(taken)
    PROVE  /\ MemberEntry(i, number, prefix, taken) \in Sound
           /\ Lower(MemberEntry(i, number, prefix, taken).name) \in TagName
           /\ Lower(MemberEntry(i, number, prefix, taken).name) \notin taken
  <1> DEFINE m == members[i]
             name == Sanitize(prefix \o m.path, taken)
             e == MemberEntry(i, number, prefix, taken)
  <1>1. m \in Member /\ i \in Nat
    BY DEF LayoutTypeOK
  <1>2. /\ m.path \in Seq(Names) /\ m.byte \in Nat /\ m.bit \in Nat
        /\ m.data_type \in DataTypes /\ m.length \in Nat \ {0}
    BY <1>1 DEF Member
  <1>3. name \in TagName /\ Lower(name) \notin taken
    <2>1. m.path \in Seq(Texts)
      <3> DEFINE p == m.path
      <3>1. p \in Seq(Names) /\ Names \subseteq Texts
        BY <1>2, SymbolTableAssumption
      <3> HIDE DEF p
      <3>2. p \in Seq(Texts)
        BY <3>1
      <3> QED BY <3>2 DEF p
    <2>2. prefix \o m.path \in Seq(Texts)
      BY <2>1
    <2> HIDE DEF m
    <2> QED BY <2>2, Sanitizes
  <1>4. Lower(name) \in TagName
    BY <1>3, LowerIsName
  <1>5. /\ e.name = name /\ e.source = i
        /\ e.byte = m.byte /\ e.bit = m.bit
        /\ e.data_type = m.data_type /\ e.length = m.length
    BY DEF MemberEntry
  <1> HIDE DEF name, m
  <1>6. e \in Entry
    BY <1>1, <1>2, <1>3 DEF MemberEntry, Entry, Areas, name, m
  <1>7. Sourced(e)
    <2> HIDE DEF e
    <2> QED BY <1>5 DEF Sourced, ReadsAs, m
  <1> QED BY <1>3, <1>4, <1>5, <1>6, <1>7 DEF Sound

LEMMA MemberCollectedKeeps ==
    ASSUME LayoutTypeOK, ValueInv, NEW i \in DOMAIN members,
           NEW number \in Nat, NEW prefix \in Seq(Texts), NEW file \in Files(Sound)
    PROVE  /\ MemberCollected(file, i, number, prefix) \in Files(Sound)
           /\ RowsIn(MemberCollected(file, i, number, prefix)) = RowsIn(file) + 1
  <1>1. CASE members[i].data_type # Unsupported
    <2> DEFINE e == MemberEntry(i, number, prefix, file.taken)
    <2>1. IsFiniteSet(file.taken)
      BY DEF Files
    <2>2. e \in Sound /\ Lower(e.name) \in TagName /\ Lower(e.name) \notin file.taken
      BY <1>1, <2>1, MemberEntered
    <2>3. MemberCollected(file, i, number, prefix) = Enter(file, e)
      BY <1>1 DEF MemberCollected
    <2> HIDE DEF e
    <2> QED BY <2>2, <2>3, EnterKeeps
  <1>2. CASE members[i].data_type = Unsupported
    <2>1. MemberCollected(file, i, number, prefix) = Skip(file)
      BY <1>2 DEF MemberCollected
    <2> QED BY <2>1, SkipKeeps
  <1> QED BY <1>1, <1>2

\* layout_to_symbols goes over every member once.
LEMMA BlockCollectsAll ==
    ASSUME LayoutTypeOK, ValueInv, NEW number \in Nat, NEW prefix \in Seq(Texts)
    PROVE  /\ BlockSymbols(number, prefix) \in Files(Sound)
           /\ RowsIn(BlockSymbols(number, prefix)) = IF number = 0 THEN 0 ELSE Len(members)
  <1> DEFINE n == Len(members)
             Q == Files(Sound)
             step == [i \in 1 .. n |-> [file \in Q |-> MemberCollected(file, i, number, prefix)]]
             Reads(f) == f = [i \in 0 .. n |->
                                IF i = 0 THEN EmptyFile
                                         ELSE MemberCollected(f[i - 1], i, number, prefix)]
             h == CHOOSE f : Reads(f)
             G == {i \in 0 .. n : h[i] \in Q /\ RowsIn(h[i]) = i}
  <1>1. n \in Nat /\ DOMAIN members = 1 .. n
    BY DEF LayoutTypeOK
  <1>2. EmptyFile \in Q /\ RowsIn(EmptyFile) = 0
    BY EmptyIsFile
  <1>3. \A i \in 1 .. n : \A file \in Q :
           /\ MemberCollected(file, i, number, prefix) \in Q
           /\ RowsIn(MemberCollected(file, i, number, prefix)) = RowsIn(file) + 1
    BY <1>1, MemberCollectedKeeps
  <1>4. BlockSymbols(number, prefix) = IF number = 0 THEN EmptyFile ELSE h[n]
    BY DEF BlockSymbols
  <1> HIDE DEF n, Q
  <1>5. step \in Rounds(n, Q)
    BY <1>3 DEF Rounds
  <1>6. \E f \in [0 .. n -> Q] : f[0] = EmptyFile /\ \A i \in 1 .. n : f[i] = step[i][f[i - 1]]
    <2> HIDE DEF step
    <2>1. n \in Nat /\ EmptyFile \in Q
      BY <1>1, <1>2
    <2>2. Runs(n, Q, EmptyFile, step) # {}
      BY <1>5, <2>1, LoopRuns, Zenon
    <2> QED BY <2>2 DEF Runs
  <1>7. \E f : Reads(f)
    <2>1. PICK f \in [0 .. n -> Q] :
             f[0] = EmptyFile /\ \A i \in 1 .. n : f[i] = step[i][f[i - 1]]
      BY <1>6
    <2>2. ASSUME NEW i \in 0 .. n
          PROVE  f[i] = IF i = 0 THEN EmptyFile
                                 ELSE MemberCollected(f[i - 1], i, number, prefix)
      <3>1. CASE i = 0
        BY <2>1, <3>1
      <3>2. CASE i # 0
        <4>1. i \in 1 .. n /\ i - 1 \in 0 .. n
          BY <1>1, <3>2
        <4>2. f[i] = step[i][f[i - 1]] /\ f[i - 1] \in Q
          BY <2>1, <4>1
        <4> QED BY <3>2, <4>1, <4>2
      <3> QED BY <3>1, <3>2
    <2>3. Reads(f)
      BY <2>1, <2>2
    <2> QED BY <2>3
  <1>8. Reads(h)
    <2> HIDE DEF Reads
    <2> QED BY <1>7
  <1> HIDE DEF h
  <1>9. /\ h[0] = EmptyFile
        /\ \A i \in 1 .. n : h[i] = MemberCollected(h[i - 1], i, number, prefix)
    <2>1. \A i \in 1 .. n : i \in 0 .. n /\ i # 0
      BY <1>1
    <2>2. 0 \in 0 .. n
      BY <1>1
    <2> QED BY <1>8, <2>1, <2>2
  <1>10. 0 \in G
    BY <1>1, <1>2, <1>9
  <1>11. ASSUME NEW i \in 1 .. n, i - 1 \in G PROVE i \in G
    <2>1. h[i - 1] \in Q /\ RowsIn(h[i - 1]) = i - 1 /\ i \in 0 .. n
      BY <1>1, <1>11
    <2>2. h[i] \in Q /\ RowsIn(h[i]) = i - 1 + 1
      BY <1>3, <1>9, <2>1
    <2>3. i - 1 + 1 = i
      OBVIOUS
    <2> QED BY <2>1, <2>2, <2>3
  <1>12. n \in G
    <2> HIDE DEF G
    <2>1. \A i \in 1 .. n : i - 1 \in G => i \in G
      BY <1>11
    <2>2. \A i \in 0 .. n : i \in G
      BY <1>1, <1>10, <2>1, Induct
    <2> QED BY <1>1, <2>2
  <1>13. h[n] \in Q /\ RowsIn(h[n]) = n
    BY <1>12
  <1>14. CASE number = 0
    BY <1>2, <1>4, <1>14 DEF Q
  <1>15. CASE number # 0
    BY <1>4, <1>13, <1>15 DEF Q, n
  <1> QED BY <1>14, <1>15

\* A prefix that comes afterwards leaves rows, members and, when there is
\* none, the names.
LEMMA PrefixedKeeps ==
    ASSUME NEW file \in Files(Sound), NEW prefix \in Seq(Texts)
    PROVE  /\ Prefixed(file, prefix).entries \in Seq(Sound)
           /\ Len(Prefixed(file, prefix).entries) = Len(file.entries)
           /\ Prefixed(file, prefix).skipped = file.skipped
           /\ prefix = <<>> => \A i \in DOMAIN file.entries :
                 Prefixed(file, prefix).entries[i].name = file.entries[i].name
  <1> DEFINE q == file.entries
             n == Len(q)
             named(s) == PrefixedName(prefix, s)
             p == [i \in DOMAIN q |-> [q[i] EXCEPT !.name = named(@)]]
  <1>1. q \in Seq(Sound) /\ file \in [entries : Seq(Sound), skipped : Nat, taken : SUBSET TagName]
    BY DEF Files
  <1>2. Prefixed(file, prefix).entries = p /\ Prefixed(file, prefix).skipped = file.skipped
    <2>1. Prefixed(file, prefix) = [file EXCEPT !.entries = p]
      BY Zenon DEF Prefixed
    <2> HIDE DEF p
    <2> QED BY <1>1, <2>1
  <1> HIDE DEF q
  <1>3. n \in Nat /\ DOMAIN q = 1 .. n /\ \A i \in 1 .. n : q[i] \in Sound
    BY <1>1
  <1>4. ASSUME NEW s \in TagName
        PROVE  named(s) \in TagName /\ (prefix = <<>> => named(s) = s)
    <2>1. s.stem \in Seq(Texts) /\ s.tail \in Nat /\ s = [stem |-> s.stem, tail |-> s.tail]
      BY DEF TagName
    <2>2. prefix \o s.stem \in Seq(Texts)
      BY <2>1
    <2>3. named(s) \in TagName
      BY <2>1, <2>2 DEF TagName, PrefixedName
    <2>4. ASSUME prefix = <<>> PROVE named(s) = s
      <3>1. prefix \o s.stem = s.stem
        BY <2>1, <2>4
      <3> QED BY <2>1, <2>4, <3>1 DEF PrefixedName
    <2> QED BY <2>3, <2>4
  <1> HIDE DEF named
  <1>5. ASSUME NEW i \in 1 .. n
        PROVE  p[i] \in Sound /\ (prefix = <<>> => p[i].name = q[i].name)
    <2> DEFINE e == q[i]
    <2>1. e \in Sound /\ p[i] = [e EXCEPT !.name = named(@)]
      BY <1>3
    <2> HIDE DEF e, p
    <2>2. e \in Entry /\ Sourced(e) /\ e.name \in TagName
      BY <2>1 DEF Sound, Entry
    <2>3. named(e.name) \in TagName /\ (prefix = <<>> => named(e.name) = e.name)
      BY <1>4, <2>2
    <2>4. /\ p[i] \in Entry /\ p[i].name = named(e.name) /\ p[i].source = e.source
          /\ p[i].byte = e.byte /\ p[i].bit = e.bit
          /\ p[i].data_type = e.data_type /\ p[i].length = e.length
      BY <2>1, <2>2, <2>3 DEF Entry
    <2>5. Sourced(p[i])
      BY <2>2, <2>4, Zenon DEF Sourced, ReadsAs
    <2> QED BY <2>3, <2>4, <2>5 DEF Sound, e
  <1>6. p \in [1 .. n -> Sound]
    BY <1>3, <1>5
  <1> HIDE DEF p
  <1>7. p \in Seq(Sound) /\ Len(p) = n
    BY <1>3, <1>6, MakesSeq
  <1> QED BY <1>2, <1>3, <1>5, <1>7 DEF q

-----------------------------------------------------------------------------
\* Plans.

LEMMA ExistingHolds ==
    ASSUME NEW name, Homonyms(name) # {}
    PROVE  Existing(name) \in DOMAIN tags /\ Lower(tags[Existing(name)].name) = Lower(name)
  <1>1. Existing(name) \in Homonyms(name)
    <2>1. CASE \E id \in Homonyms(name) : tags[id].name = Lower(name)
      BY <2>1 DEF Existing
    <2>2. CASE ~ \E id \in Homonyms(name) : tags[id].name = Lower(name)
      BY <2>2 DEF Existing
    <2> QED BY <2>1, <2>2
  <1> QED BY <1>1 DEF Homonyms

\* What is decided for a row is a decision the table supports, whatever names
\* the rows before it have claimed.
LEMMA DecidesWell ==
    ASSUME NEW e \in Sound, NEW claimed, NEW overwrite, DOMAIN tags \subseteq Nat,
           NEW item, item = PlannedTag(e, Decision(e, claimed, overwrite))
    PROVE  /\ item \in Item /\ item.entry = e
           /\ item.action \in {"create", "update"} =>
                 ValidTag(e) /\ Lower(e.name) \notin claimed
           /\ item.action = "identical" => SameAddress(tags[item.id], e)
           /\ Accounted(tags, item, FALSE)
  <1> DEFINE d == Decision(e, claimed, overwrite)
             old == Existing(e.name)
  <1>1. \/ d = "reject"
        \/ ValidTag(e) /\ Lower(e.name) \notin claimed /\ d = "create"
        \/ /\ ValidTag(e) /\ Lower(e.name) \notin claimed /\ Homonyms(e.name) # {}
           /\ \/ d \in {"skip", "update"}
              \/ d = "identical" /\ SameAddress(tags[old], e)
    <2> DEFINE other == IF Homonyms(e.name) = {} THEN "create"
                        ELSE IF ~overwrite THEN "skip"
                        ELSE IF SameAddress(tags[old], e) THEN "identical"
                        ELSE "update"
    <2>1. CASE ~ValidTag(e)
      <3>1. d = "reject"
        BY <2>1 DEF Decision
      <3> QED BY <3>1
    <2>2. CASE ValidTag(e) /\ Lower(e.name) \in claimed
      <3>1. d = "reject"
        BY <2>2 DEF Decision
      <3> QED BY <3>1
    <2>3. CASE ValidTag(e) /\ Lower(e.name) \notin claimed
      <3>1. d = other
        BY <2>3 DEF Decision
      <3> HIDE DEF d
      <3> QED BY <2>3, <3>1
    <2> QED BY <2>1, <2>2, <2>3
  <1>2. item.entry = e /\ item.action = d
        /\ item = [entry |-> e, action |-> d,
                   id |-> IF d \in {"skip", "identical", "update"} THEN old ELSE 0]
    BY DEF PlannedTag
  <1> HIDE DEF d
  <1>3. Homonyms(e.name) # {} =>
          /\ old \in DOMAIN tags /\ old \in Nat
          /\ Lower(tags[old].name) = Lower(e.name)
    BY ExistingHolds
  <1> HIDE DEF old
  <1>4. e \in Entry
    BY DEF Sound
  <1>5. d \in Actions
    BY <1>1 DEF Actions
  <1>6. d \in {"skip", "identical", "update"} => Homonyms(e.name) # {}
    BY <1>1
  <1>7. (IF d \in {"skip", "identical", "update"} THEN old ELSE 0) \in Nat
    BY <1>3, <1>6
  <1>8. item \in Item
    BY <1>2, <1>4, <1>5, <1>7 DEF Item
  <1>9. d \in {"skip", "identical", "update"} => item.id = old
    BY <1>2
  <1>10. Accounted(tags, item, FALSE)
    BY <1>1, <1>2, <1>3, <1>6, <1>9 DEF Accounted, Holds
  <1>11. item.action = "identical" => SameAddress(tags[item.id], e)
    BY <1>1, <1>2, <1>9
  <1> QED BY <1>1, <1>2, <1>8, <1>10, <1>11

\* The names claimed by the rows up to i.
ClaimedNames(entries, overwrite) ==
    CHOOSE c : c = [i \in 0 .. Len(entries) |->
        IF i = 0 THEN {} ELSE Claims(c[i - 1], entries[i], overwrite)]

\* A name once claimed stays so.
LEMMA ClaimsStay ==
    ASSUME NEW entries \in Seq(Sound), NEW overwrite,
           NEW h, h = ClaimedNames(entries, overwrite),
           NEW i \in DOMAIN entries, NEW j \in DOMAIN entries, i < j,
           Decision(entries[i], h[i - 1], overwrite) \in {"create", "update"}
    PROVE  Lower(entries[i].name) \in h[j - 1]
  <1> DEFINE n == Len(entries)
             Q == SUBSET TagName
             step == [k \in 1 .. n |-> [c \in Q |-> Claims(c, entries[k], overwrite)]]
             Reads(f) == f = [k \in 0 .. n |->
                               IF k = 0 THEN {} ELSE Claims(f[k - 1], entries[k], overwrite)]
             G == {k \in 0 .. n : k >= i => Lower(entries[i].name) \in h[k]}
  <1>1. n \in Nat /\ DOMAIN entries = 1 .. n /\ \A k \in 1 .. n : entries[k] \in Sound
    OBVIOUS
  <1>2. h = CHOOSE f : Reads(f)
    BY DEF ClaimedNames
  <1> HIDE DEF n
  <1>3. ASSUME NEW k \in 1 .. n, NEW c \in Q
        PROVE  Claims(c, entries[k], overwrite) \in Q
    <2>1. entries[k].name \in TagName
      BY <1>1 DEF Sound, Entry
    <2>2. Lower(entries[k].name) \in TagName
      BY <2>1, LowerIsName
    <2> QED BY <2>2 DEF Claims
  <1> HIDE DEF Q
  <1>4. step \in Rounds(n, Q)
    BY <1>3 DEF Rounds
  <1>5. \E f \in [0 .. n -> Q] : f[0] = {} /\ \A k \in 1 .. n : f[k] = step[k][f[k - 1]]
    <2> HIDE DEF step
    <2>1. {} \in Q
      BY DEF Q
    <2>2. Runs(n, Q, {}, step) # {}
      BY <1>1, <1>4, <2>1, LoopRuns, Zenon
    <2> QED BY <2>2 DEF Runs
  <1>6. \E f : Reads(f)
    <2>1. PICK f \in [0 .. n -> Q] : f[0] = {} /\ \A k \in 1 .. n : f[k] = step[k][f[k - 1]]
      BY <1>5
    <2>2. ASSUME NEW k \in 0 .. n
          PROVE  f[k] = IF k = 0 THEN {} ELSE Claims(f[k - 1], entries[k], overwrite)
      <3>1. CASE k = 0
        BY <2>1, <3>1
      <3>2. CASE k # 0
        <4>1. k \in 1 .. n /\ k - 1 \in 0 .. n
          BY <1>1, <3>2
        <4>2. f[k] = step[k][f[k - 1]] /\ f[k - 1] \in Q
          BY <2>1, <4>1
        <4> QED BY <3>2, <4>1, <4>2
      <3> QED BY <3>1, <3>2
    <2>3. Reads(f)
      BY <2>1, <2>2
    <2> QED BY <2>3
  <1>7. Reads(h)
    <2> HIDE DEF Reads
    <2> QED BY <1>2, <1>6
  <1>8. \A k \in 1 .. n : h[k] = Claims(h[k - 1], entries[k], overwrite)
    <2>1. \A k \in 1 .. n : k \in 0 .. n /\ k # 0
      BY <1>1
    <2> QED BY <1>7, <2>1
  <1>9. i \in 1 .. n /\ j - 1 \in 0 .. n /\ j - 1 >= i
    BY <1>1
  <1>10. 0 \in G
    BY <1>1, <1>9
  <1>11. ASSUME NEW k \in 1 .. n, k - 1 \in G PROVE k \in G
    <2>1. k \in 0 .. n
      BY <1>1
    <2>2. CASE k < i
      BY <1>1, <1>9, <2>1, <2>2
    <2>3. CASE k = i
      <3>1. h[i] = Claims(h[i - 1], entries[i], overwrite)
        BY <1>8, <1>9
      <3>2. Lower(entries[i].name) \in h[i]
        BY <3>1 DEF Claims
      <3> QED BY <2>1, <2>3, <3>2
    <2>4. CASE k > i
      <3>1. k - 1 >= i
        BY <1>9, <2>4
      <3>2. Lower(entries[i].name) \in h[k - 1]
        BY <1>11, <3>1
      <3>3. h[k - 1] \subseteq h[k]
        BY <1>8 DEF Claims
      <3> QED BY <2>1, <3>2, <3>3
    <2> QED BY <1>9, <2>2, <2>3, <2>4
  <1>12. j - 1 \in G
    <2> HIDE DEF G
    <2>1. \A k \in 1 .. n : k - 1 \in G => k \in G
      BY <1>11
    <2>2. \A k \in 0 .. n : k \in G
      BY <1>1, <1>10, <2>1, Induct
    <2> QED BY <1>9, <2>2
  <1> QED BY <1>9, <1>12

\* A plan has a row for every entry of the file, in its order, and no name is
\* written twice.
LEMMA PlansAll ==
    ASSUME NEW entries \in Seq(Sound), NEW overwrite, DOMAIN tags \subseteq Nat,
           NEW plan, plan = Planned(entries, overwrite)
    PROVE  /\ plan \in Seq(Item) /\ Len(plan) = Len(entries)
           /\ DOMAIN plan = DOMAIN entries
           /\ \A i \in DOMAIN entries :
                /\ plan[i].entry = entries[i] /\ Sourced(plan[i].entry)
                /\ plan[i].action \in {"create", "update"} => ValidTag(plan[i].entry)
                /\ plan[i].action = "identical" =>
                      SameAddress(tags[plan[i].id], plan[i].entry)
                /\ Accounted(tags, plan[i], FALSE)
           /\ Apart(plan, TRUE)
  <1> DEFINE n == Len(entries)
             h == ClaimedNames(entries, overwrite)
             taken(i) == Lower(entries[i].name) \in h[i - 1]
             writes(i) == plan[i].action \in {"create", "update"}
  <1>1. n \in Nat /\ DOMAIN entries = 1 .. n /\ \A i \in 1 .. n : entries[i] \in Sound
    OBVIOUS
  <1>2. plan = [i \in DOMAIN entries |->
                  PlannedTag(entries[i], Decision(entries[i], h[i - 1], overwrite))]
    BY DEF Planned, ClaimedNames
  <1> HIDE DEF h, n
  <1>3. ASSUME NEW i \in 1 .. n
        PROVE  /\ plan[i] \in Item /\ plan[i].entry = entries[i]
               /\ writes(i) => ValidTag(entries[i]) /\ ~taken(i)
               /\ plan[i].action = Decision(entries[i], h[i - 1], overwrite)
               /\ plan[i].action = "identical" => SameAddress(tags[plan[i].id], entries[i])
               /\ Accounted(tags, plan[i], FALSE)
    <2> DEFINE e == entries[i]
               claimed == h[i - 1]
               item == plan[i]
    <2>1. e \in Sound
      BY <1>1
    <2>2. item = PlannedTag(e, Decision(e, claimed, overwrite))
      BY <1>1, <1>2
    <2> HIDE DEF e, claimed, item
    <2>3. /\ item \in Item /\ item.entry = e
          /\ item.action \in {"create", "update"} =>
                ValidTag(e) /\ Lower(e.name) \notin claimed
          /\ item.action = Decision(e, claimed, overwrite)
          /\ item.action = "identical" => SameAddress(tags[item.id], e)
          /\ Accounted(tags, item, FALSE)
      <3>1. item \in Item /\ Accounted(tags, item, FALSE)
        BY <2>1, <2>2, DecidesWell
      <3>2. item.entry = e /\ item.action = Decision(e, claimed, overwrite)
        BY <2>2 DEF PlannedTag
      <3>3. item.action = "identical" => SameAddress(tags[item.id], e)
        BY <2>1, <2>2, DecidesWell
      <3>4. item.action \in {"create", "update"} =>
                ValidTag(e) /\ Lower(e.name) \notin claimed
        BY <2>1, <2>2, DecidesWell
      <3> QED BY <3>1, <3>2, <3>3, <3>4, Zenon
    <2>4. writes(i) => ValidTag(entries[i]) /\ ~taken(i)
      BY <2>3, Zenon DEF e, claimed, item
    <2>5. /\ plan[i] \in Item /\ plan[i].entry = entries[i]
          /\ plan[i].action = Decision(entries[i], h[i - 1], overwrite)
          /\ plan[i].action = "identical" => SameAddress(tags[plan[i].id], entries[i])
          /\ Accounted(tags, plan[i], FALSE)
      BY <2>3, Zenon DEF e, claimed, item
    <2> QED BY <2>4, <2>5, Zenon
  <1>4. plan \in [1 .. n -> Item]
    BY <1>1, <1>2, <1>3
  <1>5. plan \in Seq(Item) /\ Len(plan) = n /\ DOMAIN plan = 1 .. n
    BY <1>1, <1>4, MakesSeq
  <1>6. \A i \in 1 .. n : Sourced(entries[i])
    BY <1>1 DEF Sound
  <1>7. ASSUME NEW i \in 1 .. n, NEW j \in 1 .. n, i < j, writes(i)
        PROVE  Lower(entries[i].name) \in h[j - 1]
    <2>1. Decision(entries[i], h[i - 1], overwrite) \in {"create", "update"}
      BY <1>3, <1>7
    <2>2. i \in DOMAIN entries /\ j \in DOMAIN entries /\ h = ClaimedNames(entries, overwrite)
      BY <1>1 DEF h
    <2> QED BY <1>7, <2>1, <2>2, ClaimsStay
  <1>8. Apart(plan, TRUE)
    <2> SUFFICES ASSUME NEW i \in 1 .. n, NEW j \in 1 .. n, i # j, writes(i), writes(j),
                        Lower(plan[i].entry.name) = Lower(plan[j].entry.name)
                 PROVE  FALSE
      BY <1>5 DEF Apart
    <2>1. /\ plan[i].entry = entries[i] /\ plan[j].entry = entries[j]
          /\ ~taken(i) /\ ~taken(j)
      BY <1>3
    <2>2. CASE i < j
      BY <1>7, <2>1, <2>2
    <2>3. CASE j < i
      BY <1>7, <2>1, <2>3
    <2> QED BY <2>2, <2>3
  <1> QED BY <1>1, <1>3, <1>5, <1>6, <1>8 DEF n

-----------------------------------------------------------------------------
\* The chunked read returns every byte it was asked for, once and in order.

\* What has been read while r.remaining bytes are left.
Got(start, size) ==
    {r \in [out : Seq(Nat), cursor : Nat, remaining : 0 .. size] :
        /\ r.cursor + r.remaining = start + size
        /\ Len(r.out) + r.remaining = size
        /\ \A k \in 1 .. Len(r.out) : r.out[k] = start + k - 1}

LEMMA RoundKeeps ==
    ASSUME NEW start \in Nat, NEW size \in Nat, NEW r \in Got(start, size), r.remaining > 0
    PROVE  Round(r) \in Got(start, size) /\ Round(r).remaining < r.remaining
  <1> DEFINE left == r.remaining
             c == Min({left, MaxReadChunk})
             q == r.out
             at == r.cursor
             piece == [k \in 1 .. c |-> at + k - 1]
             l == Len(q)
             s == Round(r)
  <1>1. /\ q \in Seq(Nat) /\ at \in Nat /\ left \in 1 .. size /\ l \in Nat
        /\ at + left = start + size /\ l + left = size
        /\ \A k \in 1 .. l : q[k] = start + k - 1
    BY DEF Got
  <1>2. s.out = q \o piece /\ s.cursor = at + c /\ s.remaining = left - c
        /\ DOMAIN s = {"out", "cursor", "remaining"}
        /\ s = [out |-> q \o piece, cursor |-> at + c, remaining |-> left - c]
    BY DEF Round
  <1> HIDE DEF q, at, left
  <1>3. c \in 1 .. left
    <2> DEFINE T == {left, MaxReadChunk}
    <2>1. T \in SUBSET Nat /\ T # {} /\ left \in T
      BY <1>1, TagImportAssumption
    <2>2. Min(T) \in T /\ \A k \in T : Min(T) <= k
      BY <2>1, LeastIsMin
    <2>3. MaxReadChunk \in Nat \ {0}
      BY TagImportAssumption
    <2> QED BY <1>1, <2>1, <2>2, <2>3
  <1> HIDE DEF c, s
  <1>4. piece \in Seq(Nat) /\ Len(piece) = c /\ \A k \in 1 .. c : piece[k] = at + k - 1
    <2>1. c \in Nat /\ piece \in [1 .. c -> Nat]
      BY <1>1, <1>3
    <2>2. piece \in Seq(Nat) /\ Len(piece) = c
      <3> HIDE DEF piece
      <3> QED BY <2>1, MakesSeq
    <2> QED BY <2>2
  <1> HIDE DEF piece
  <1> DEFINE p == q \o piece
  <1>5. /\ p \in Seq(Nat) /\ Len(p) = l + c
        /\ \A k \in 1 .. l + c : p[k] = IF k <= l THEN q[k] ELSE piece[k - l]
    BY <1>1, <1>4, ConcatProperties
  <1> HIDE DEF p, l
  <1>6. at = start + l /\ c \in Nat /\ left - c \in 0 .. size /\ at + c \in Nat
    BY <1>1, <1>3
  <1>7. ASSUME NEW k \in 1 .. l + c PROVE p[k] = start + k - 1
    <2>1. CASE k <= l
      <3>1. k \in 1 .. l
        BY <1>1, <2>1
      <3> QED BY <1>1, <1>5, <2>1, <3>1
    <2>2. CASE ~(k <= l)
      <3>1. k - l \in 1 .. c
        BY <1>1, <1>6, <2>2
      <3>2. p[k] = at + (k - l) - 1
        BY <1>4, <1>5, <2>2, <3>1
      <3> QED BY <1>1, <1>6, <3>2
    <2> QED BY <2>1, <2>2
  <1>8. s \in Got(start, size)
    <2>1. s \in [out : Seq(Nat), cursor : Nat, remaining : 0 .. size]
      BY <1>2, <1>5, <1>6 DEF p
    <2>2. s.cursor + s.remaining = start + size
      BY <1>1, <1>2, <1>6
    <2>3. Len(s.out) + s.remaining = size
      BY <1>1, <1>2, <1>5, <1>6 DEF p
    <2>4. \A k \in 1 .. Len(s.out) : s.out[k] = start + k - 1
      BY <1>2, <1>5, <1>7 DEF p
    <2> QED BY <2>1, <2>2, <2>3, <2>4 DEF Got
  <1>9. s.remaining < left
    BY <1>1, <1>2, <1>3
  <1> QED BY <1>8, <1>9 DEF s, left

LEMMA ReadsAll ==
    ASSUME NEW start \in Nat, NEW size \in Nat
    PROVE  /\ ReadArea(start, size) \in Seq(Nat) /\ Len(ReadArea(start, size)) = size
           /\ \A k \in 1 .. size : ReadArea(start, size)[k] = start + k - 1
  <1> DEFINE Q == Got(start, size)
             first == [out |-> <<>>, cursor |-> start, remaining |-> size]
             Next2(r) == IF r.remaining > 0 THEN Round(r) ELSE r
             step == [i \in 1 .. size |-> [r \in Q |-> Next2(r)]]
             Reads(f) == f = [i \in 0 .. size |-> IF i = 0 THEN first
                                ELSE IF f[i - 1].remaining > 0 THEN Round(f[i - 1])
                                     ELSE f[i - 1]]
             h == CHOOSE f : Reads(f)
             G == {i \in 0 .. size : h[i] \in Q /\ h[i].remaining <= size - i}
  <1>1. first \in Q /\ first.remaining = size
    BY DEF Got
  <1>2. ASSUME NEW r \in Q
        PROVE  /\ Next2(r) \in Q /\ r.remaining \in 0 .. size /\ Next2(r).remaining \in 0 .. size
               /\ Next2(r).remaining < r.remaining \/ Next2(r).remaining = 0
    <2>1. r.remaining \in 0 .. size
      BY DEF Got
    <2>2. CASE r.remaining > 0
      <3>1. Next2(r) = Round(r)
        BY <2>2
      <3>2. Round(r) \in Q /\ Round(r).remaining < r.remaining
        BY <2>2, RoundKeeps
      <3>3. Round(r).remaining \in 0 .. size
        BY <3>2 DEF Got
      <3> QED BY <2>1, <3>1, <3>2, <3>3
    <2>3. CASE ~(r.remaining > 0)
      BY <2>1, <2>3
    <2> QED BY <2>2, <2>3
  <1>3. ReadArea(start, size) = h[size].out
    BY DEF ReadArea
  <1> HIDE DEF Q, first
  <1>4. step \in Rounds(size, Q)
    <2> HIDE DEF Next2
    <2> QED BY <1>2 DEF Rounds
  <1>5. \E f \in [0 .. size -> Q] : f[0] = first /\ \A i \in 1 .. size : f[i] = step[i][f[i - 1]]
    <2> HIDE DEF step
    <2>1. Runs(size, Q, first, step) # {}
      BY <1>1, <1>4, LoopRuns, Zenon
    <2> QED BY <2>1 DEF Runs
  <1>6. \E f : Reads(f)
    <2>1. PICK f \in [0 .. size -> Q] :
             f[0] = first /\ \A i \in 1 .. size : f[i] = step[i][f[i - 1]]
      BY <1>5
    <2>2. ASSUME NEW i \in 0 .. size
          PROVE  f[i] = IF i = 0 THEN first ELSE Next2(f[i - 1])
      <3>1. CASE i = 0
        BY <2>1, <3>1
      <3>2. CASE i # 0
        <4>1. i \in 1 .. size /\ i - 1 \in 0 .. size
          BY <3>2
        <4>2. f[i] = step[i][f[i - 1]] /\ f[i - 1] \in Q
          BY <2>1, <4>1
        <4> HIDE DEF Next2
        <4> QED BY <3>2, <4>1, <4>2
      <3> QED BY <3>1, <3>2
    <2>3. Reads(f)
      BY <2>1, <2>2
    <2> QED BY <2>3
  <1>7. Reads(h)
    <2> HIDE DEF Reads
    <2> QED BY <1>6
  <1> HIDE DEF h
  <1>8. h[0] = first /\ \A i \in 1 .. size : h[i] = Next2(h[i - 1])
    <2>1. \A i \in 1 .. size : i \in 0 .. size /\ i # 0
      OBVIOUS
    <2>2. 0 \in 0 .. size
      OBVIOUS
    <2> QED BY <1>7, <2>1, <2>2
  <1> HIDE DEF Next2
  <1>9. 0 \in G
    BY <1>1, <1>8
  <1>10. ASSUME NEW i \in 1 .. size, i - 1 \in G PROVE i \in G
    <2> DEFINE r == h[i - 1]
    <2>1. r \in Q /\ r.remaining <= size - (i - 1) /\ i \in 0 .. size /\ i \in Nat
      BY <1>10
    <2>2. h[i] = Next2(r)
      BY <1>8
    <2> HIDE DEF r
    <2>3. /\ Next2(r) \in Q /\ r.remaining \in 0 .. size /\ Next2(r).remaining \in 0 .. size
          /\ Next2(r).remaining < r.remaining \/ Next2(r).remaining = 0
      BY <1>2, <2>1
    <2>4. Next2(r).remaining <= size - i
      BY <2>1, <2>3
    <2> QED BY <2>1, <2>2, <2>3, <2>4
  <1>11. size \in G
    <2> HIDE DEF G
    <2>1. \A i \in 1 .. size : i - 1 \in G => i \in G
      BY <1>10
    <2>2. \A i \in 0 .. size : i \in G
      BY <1>9, <2>1, Induct
    <2> QED BY <2>2
  <1> DEFINE r == h[size]
  <1>12. r \in Q /\ r.remaining <= 0
    BY <1>11
  <1>13. ReadArea(start, size) = r.out
    BY <1>3
  <1> HIDE DEF r
  <1>14. /\ r.out \in Seq(Nat) /\ r.remaining = 0 /\ Len(r.out) = size
         /\ \A k \in 1 .. Len(r.out) : r.out[k] = start + k - 1
    BY <1>12 DEF Q, Got
  <1> QED BY <1>13, <1>14

-----------------------------------------------------------------------------
\* Members with a value of their own.

LEMMA ValuesStart == LayoutInit => ValueInv
  BY DEF LayoutInit, ValueInv

\* What stays as it is stays right as long as no more structures open.
LEMMA ValuesStay ==
    ASSUME ValueInv, Inside' \subseteq Inside, DOMAIN members' = DOMAIN members,
           \A j \in DOMAIN members : j \notin Inside => members'[j] = members[j],
           \A j \in Inside : members'[j].data_type = members[j].data_type
    PROVE  ValueInv'
  <1> SUFFICES ASSUME NEW j \in DOMAIN members, members'[j].data_type # Unsupported
               PROVE  /\ j \notin Inside'
                      /\ members'[j].size = SizeOf(members'[j].data_type, members'[j].length)
    BY DEF ValueInv
  <1>1. j \notin Inside
    BY DEF ValueInv
  <1>2. members'[j] = members[j]
    BY <1>1
  <1> QED BY <1>1, <1>2 DEF ValueInv

\* A member that is added has to be a structure or as long as its type.
LEMMA ValuesGrow ==
    ASSUME LayoutTypeOK, ValueInv, NEW m \in Member, members' = Append(members, m),
           Inside' = Inside \/ Inside' = Inside \cup {Len(members) + 1},
           m.data_type # Unsupported =>
              Inside' = Inside /\ m.size = SizeOf(m.data_type, m.length)
    PROVE  ValueInv'
  <1> DEFINE n == Len(members) + 1
  <1>1. /\ members \in Seq(Member) /\ DOMAIN members = 1 .. Len(members)
        /\ Len(members) \in Nat /\ Inside \subseteq DOMAIN members
    BY Places, InsideAreMembers DEF LayoutTypeOK
  <1>2. /\ DOMAIN members' = 1 .. n /\ members'[n] = m
        /\ \A j \in DOMAIN members : members'[j] = members[j]
    BY <1>1, Appends
  <1> SUFFICES ASSUME NEW j \in DOMAIN members', members'[j].data_type # Unsupported
               PROVE  /\ j \notin Inside'
                      /\ members'[j].size = SizeOf(members'[j].data_type, members'[j].length)
    BY DEF ValueInv
  <1>3. CASE j = n
    <2>1. members'[j] = m /\ j \notin Inside
      BY <1>1, <1>2, <1>3
    <2> QED BY <2>1
  <1>4. CASE j # n
    <2>1. j \in DOMAIN members /\ members'[j] = members[j]
      BY <1>1, <1>2, <1>4
    <2>2. j \notin Inside /\ members[j].size = SizeOf(members[j].data_type, members[j].length)
      BY <2>1 DEF ValueInv
    <2>3. j \notin Inside'
      BY <1>4, <2>2
    <2> QED BY <2>1, <2>2, <2>3
  <1> QED BY <1>3, <1>4

LEMMA ValuesGoOn == LayoutInv /\ ValueInv /\ [LayoutStep]_layoutVars => ValueInv'
  <1> SUFFICES ASSUME LayoutInv, ValueInv, [LayoutStep]_layoutVars PROVE ValueInv'
    OBVIOUS
  <1>0. LayoutTypeOK /\ cursor \in Cursor
    BY CursorIsTyped
  <1>1. ASSUME members' = members, open' = open PROVE ValueInv'
    <2>1. Inside' = Inside
      BY <1>1 DEF Inside
    <2> QED BY <1>1, <2>1, ValuesStay
  <1>2. ASSUME NEW name \in Names, NEW d \in Declarations, Declare(name, d) PROVE ValueInv'
    <2> DEFINE info == MapDeclared(d)
               a == IF d.array THEN 2 ELSE info.alignment
               isBit == ~d.array /\ info.alignment = 0
               at == IF isBit THEN cursor ELSE Align(cursor, a)
               m == Scalarly(name, info, at, a)
    <2>1. CASE Listed
      <3>1. members' = Append(members, m) /\ open' = open
        BY <1>2, <2>1 DEF Declare
      <3>2. Inside' = Inside
        BY <3>1 DEF Inside
      <3>3. info \in TypeInfo /\ a \in 0 .. 2
        BY DeclaredTypes
      <3>4. at \in Cursor
        BY <1>0, <3>3, Aligns
      <3>5. m \in Member
        BY <1>0, <3>3, <3>4, ScalarlyIsMember
      <3>6. m.data_type = info.data_type /\ m.size = info.size /\ m.length = info.length
        BY DEF Scalarly
      <3>7. info.data_type # Unsupported => info.size = SizeOf(info.data_type, info.length)
        BY DeclaredFits
      <3> HIDE DEF m, info
      <3> QED BY <1>0, <3>1, <3>2, <3>5, <3>6, <3>7, ValuesGrow
    <2>2. CASE ~Listed
      <3>1. members' = members /\ open' = open
        BY <1>2, <2>2 DEF Declare
      <3> QED BY <1>1, <3>1
    <2> QED BY <2>1, <2>2
  <1>3. ASSUME NEW name \in Names, OpenStruct(name) PROVE ValueInv'
    <2> DEFINE m == Container(name, Align(cursor, 2))
    <2>1. CASE Listed
      <3>1. members' = Append(members, m) /\ open' = Append(open, Len(members) + 1)
        BY <1>3, <2>1 DEF OpenStruct
      <3>2. Inside' = Inside \cup {Len(members) + 1}
        <4>1. Len(members) \in Nat /\ open \in Seq(1 .. Len(members))
          BY <1>0, Places DEF LayoutTypeOK
        <4>2. {open'[i] : i \in 1 .. Len(open')}
                = {open[i] : i \in 1 .. Len(open)} \cup {Len(members) + 1}
          BY <3>1, <4>1, OpensOne, Zenon
        <4> QED BY <4>2, Zenon DEF Inside
      <3>3. m \in Member /\ m.data_type = Unsupported
        <4>1. Align(cursor, 2) \in Cursor
          BY <1>0, Aligns
        <4>2. m \in Member
          BY <1>0, <4>1, ContainerIsMember
        <4> QED BY <4>2 DEF Container
      <3> HIDE DEF m
      <3> QED BY <1>0, <3>1, <3>2, <3>3, ValuesGrow
    <2>2. CASE ~Listed
      <3>1. members' = members /\ open' = open
        BY <1>3, <2>2 DEF OpenStruct
      <3> QED BY <1>1, <3>1
    <2> QED BY <2>1, <2>2
  <1>4. CASE EndStruct
    <2>1. CASE UNCHANGED <<cursor, members, open>>
      BY <1>1, <2>1
    <2>2. CASE /\ muted = 0 /\ open # <<>>
               /\ members' = [members EXCEPT ![open[Len(open)]]
                                = Sized(@, Align(cursor, 2).byte)]
               /\ open' = SubSeq(open, 1, Len(open) - 1)
      <3> DEFINE last == open[Len(open)]
                 e == Align(cursor, 2).byte
      <3>1. /\ open \in Seq(1 .. Len(members)) /\ Len(members) \in Nat
            /\ \A i, j \in DOMAIN open : i < j => open[i] < open[j]
        BY <1>0, Places DEF LayoutInv, NestingInv, LayoutTypeOK
      <3>2. last \in Inside /\ Inside' = Inside \ {last}
        BY <2>2, <3>1, PopsOne, Zenon
      <3>3. members' = [members EXCEPT ![last] = Sized(members[last], e)]
        BY <2>2
      <3>4. Sized(members[last], e).data_type = members[last].data_type
        <4>1. members[last] \in Member
          BY <1>0, <3>2, InsideAreMembers, Places DEF LayoutTypeOK
        <4> HIDE DEF e, last
        <4> QED BY <4>1 DEF Sized, Member
      <3> HIDE DEF e, last
      <3>5. /\ Inside' \subseteq Inside /\ DOMAIN members' = DOMAIN members
            /\ \A j \in DOMAIN members : j \notin Inside => members'[j] = members[j]
        BY <3>2, <3>3
      <3>6. \A j \in Inside : members'[j].data_type = members[j].data_type
        BY <1>0, <3>3, <3>4, InsideAreMembers
      <3> QED BY <3>5, <3>6, ValuesStay
    <2> QED BY <1>4, <2>1, <2>2 DEF EndStruct
  <1>5. CASE EndOfBlock
    <2> DEFINE e == Align(cursor, 2).byte
    <2>1. /\ members' = [i \in DOMAIN members |->
                           IF i \in Inside THEN Sized(members[i], e) ELSE members[i]]
          /\ open' = <<>>
      BY <1>5 DEF EndOfBlock
    <2>2. Inside' = {}
      BY <2>1 DEF Inside
    <2> HIDE DEF e
    <2>3. \A j \in Inside : members'[j].data_type = members[j].data_type
      <3> SUFFICES ASSUME NEW j \in Inside PROVE members'[j].data_type = members[j].data_type
        OBVIOUS
      <3>1. j \in DOMAIN members /\ members[j] \in Member
        BY <1>0, InsideAreMembers, Places DEF LayoutTypeOK
      <3>2. members'[j] = Sized(members[j], e)
        BY <2>1, <3>1
      <3> QED BY <3>1, <3>2 DEF Sized, Member
    <2>4. /\ DOMAIN members' = DOMAIN members
          /\ \A j \in DOMAIN members : j \notin Inside => members'[j] = members[j]
      BY <2>1
    <2> QED BY <2>2, <2>3, <2>4, ValuesStay
  <1>6. CASE Optimized
    BY <1>1, <1>6 DEF Optimized
  <1>7. CASE UNCHANGED layoutVars
    BY <1>1, <1>7 DEF layoutVars
  <1> QED BY <1>2, <1>3, <1>4, <1>5, <1>6, <1>7, Zenon DEF LayoutStep

-----------------------------------------------------------------------------
\* One importer's plan against any table, as its rows take their turn.

LEMMA WorkFields ==
    ASSUME NEW work \in Work
    PROVE  /\ work.plan \in Seq(Item) /\ work.at \in Nat /\ work.rows \in Nat
           /\ work.skipped \in Nat /\ work.overwrite \in BOOLEAN
           /\ work.alone \in BOOLEAN /\ work.cut \in BOOLEAN
           /\ work.pc \in {"idle", "nothing", "refused", "applying", "done"}
           /\ Len(work.plan) \in Nat /\ DOMAIN work.plan = 1 .. Len(work.plan)
           /\ \A i \in DOMAIN work.plan : work.plan[i] \in Item
  <1>1. /\ work.plan \in Seq(Item) /\ work.at \in Nat /\ work.rows \in Nat
        /\ work.skipped \in Nat
        /\ work.pc \in {"idle", "nothing", "refused", "applying", "done"}
    BY DEF Work
  <1>2. work.overwrite \in BOOLEAN /\ work.alone \in BOOLEAN /\ work.cut \in BOOLEAN
    BY DEF Work
  <1> QED BY <1>1, <1>2

LEMMA ItemFields ==
    ASSUME NEW item \in Item
    PROVE  item.entry \in Entry /\ item.action \in Actions /\ item.id \in Nat
  BY DEF Item

LEMMA Disturbed ==
    ASSUME NEW work \in Work, NEW next, next = [work EXCEPT !.alone = FALSE]
    PROVE  /\ next \in Work /\ next.plan = work.plan
           /\ \A table, after : PlanInv(table, work) => PlanInv(after, next)
  <1>1. next \in Work
    BY DEF Work
  <1>2. /\ next.plan = work.plan /\ next.pc = work.pc /\ next.at = work.at
        /\ next.rows = work.rows /\ next.skipped = work.skipped
    BY DEF Work
  <1>3. next.cut = work.cut /\ ~next.alone
    BY Zenon DEF Work
  <1>4. ASSUME NEW table, NEW after, PlanInv(table, work) PROVE PlanInv(after, next)
    BY <1>2, <1>3, <1>4, Zenon DEF PlanInv
  <1> QED BY <1>1, <1>2, <1>4, Zenon

LEMMA Turns ==
    ASSUME NEW work \in Work, NEW next \in Work, NEW table, NEW after,
           PlanInv(table, work), work.pc = "applying",
           Len(next.plan) = Len(work.plan),
           \A i \in DOMAIN work.plan :
              /\ next.plan[i].entry = work.plan[i].entry
              /\ next.plan[i].action \in {"create", "update"} =>
                    work.plan[i].action \in {"create", "update"},
           next.at = work.at + 1,
           next.pc = IF work.at = Len(work.plan) THEN "done" ELSE work.pc,
           next.rows = work.rows, next.skipped = work.skipped,
           next.alone = work.alone, next.cut = work.cut,
           work.alone => \A i \in DOMAIN work.plan :
              Accounted(after, next.plan[i], i < work.at + 1) /\ Unchanged(after, next, i)
    PROVE  PlanInv(after, next)
  <1>1. /\ Len(work.plan) \in Nat /\ DOMAIN work.plan = 1 .. Len(work.plan)
        /\ DOMAIN next.plan = DOMAIN work.plan /\ work.at \in DOMAIN work.plan
    BY WorkFields DEF PlanInv
  <1>2. \A i \in DOMAIN next.plan :
           next.plan[i].action \in {"create", "update"} => ValidTag(next.plan[i].entry)
    BY <1>1, Zenon DEF PlanInv
  <1>3. next.pc = "applying" => next.at \in DOMAIN next.plan
    BY <1>1
  <1>4. next.pc = "done" => next.at = Len(next.plan) + 1
    BY <1>1
  <1>5. Apart(next.plan, next.cut)
    <2>1. Apart(work.plan, work.cut)
      BY Zenon DEF PlanInv
    <2>2. \A i \in DOMAIN work.plan : next.plan[i].entry = work.plan[i].entry
      OBVIOUS
    <2> SUFFICES ASSUME NEW i \in DOMAIN work.plan, NEW j \in DOMAIN work.plan, i # j,
                        Lower(work.plan[i].entry.name) = Lower(work.plan[j].entry.name),
                        next.plan[i].action \in {"create", "update"}
                 PROVE  work.cut /\ next.plan[j].action \notin {"create", "update"}
      BY <1>1, <2>2, Zenon DEF Apart
    <2>3. work.plan[i].action \in {"create", "update"}
      BY Zenon
    <2>4. work.cut /\ work.plan[j].action \notin {"create", "update"}
      BY <2>1, <2>3, Zenon DEF Apart
    <2> QED BY <2>4, Zenon
  <1>6. Len(next.plan) + next.skipped = next.rows
    <2>1. work.pc # "idle"
      OBVIOUS
    <2>2. Len(work.plan) + work.skipped = work.rows
      BY <2>1, Zenon DEF PlanInv
    <2> QED BY <2>2, Zenon
  <1>7. next.alone => \A i \in DOMAIN next.plan :
           Accounted(after, next.plan[i], i < next.at) /\ Unchanged(after, next, i)
    BY <1>1, Zenon
  <1> QED BY <1>2, <1>3, <1>4, <1>5, <1>6, <1>7, Zenon DEF PlanInv

\* The row whose turn it is, and the importer that has taken it.
LEMMA NextRow ==
    ASSUME NEW work \in Work, NEW next, next = Next1(work)
    PROVE  /\ next \in Work /\ next.plan = work.plan /\ next.at = work.at + 1
           /\ next.pc = IF work.at = Len(work.plan) THEN "done" ELSE work.pc
           /\ next.rows = work.rows /\ next.skipped = work.skipped
           /\ next.alone = work.alone /\ next.cut = work.cut
  <1>1. /\ next.plan = work.plan /\ next.at = work.at + 1
        /\ next.pc = IF work.at = Len(work.plan) THEN "done" ELSE work.pc
        /\ next.rows = work.rows /\ next.skipped = work.skipped
    BY DEF Next1, Work
  <1>2. next.alone = work.alone /\ next.cut = work.cut
    BY Zenon DEF Next1, Work
  <1>3. next \in Work
    <2>1. (IF work.at = Len(work.plan) THEN "done" ELSE work.pc)
             \in {"idle", "nothing", "refused", "applying", "done"} /\ work.at + 1 \in Nat
      BY WorkFields
    <2> DEFINE pc == IF work.at = Len(work.plan) THEN "done" ELSE work.pc
               at == work.at + 1
    <2>2. next = [[work EXCEPT !.at = at] EXCEPT !.pc = pc]
      BY DEF Next1
    <2>3. pc \in {"idle", "nothing", "refused", "applying", "done"} /\ at \in Nat
      BY <2>1
    <2> HIDE DEF pc, at
    <2> QED BY <2>2, <2>3 DEF Work
  <1> QED BY <1>1, <1>2, <1>3

\* A plan nobody disturbed.
LEMMA PlanHolds ==
    ASSUME NEW work, NEW table, PlanInv(table, work), work.pc = "applying", work.alone
    PROVE  \A i \in DOMAIN work.plan :
              Accounted(table, work.plan[i], i < work.at) /\ Unchanged(table, work, i)
  BY Zenon DEF PlanInv

\* A row that writes bears a name of its own, but for rows that do not write.
LEMMA OwnName ==
    ASSUME NEW work, NEW table, PlanInv(table, work),
           NEW i \in DOMAIN work.plan, NEW j \in DOMAIN work.plan, i # j,
           work.plan[i].action \in {"create", "update"},
           Lower(work.plan[i].entry.name) = Lower(work.plan[j].entry.name)
    PROVE  work.plan[j].action \notin {"create", "update"}
  BY Zenon DEF PlanInv, Apart

\* A row keeps its account while the table keeps what it had.
LEMMA AccountStays ==
    ASSUME NEW table, NEW after, NEW item, NEW i \in Nat, NEW at \in Nat, i # at,
           Accounted(table, item, i < at),
           NEW kept \in SUBSET DOMAIN table, kept \subseteq DOMAIN after,
           \A id \in kept : after[id] = table[id],
           \A id \in DOMAIN table : Lower(table[id].name) = Lower(item.entry.name) => id \in kept
    PROVE  Accounted(after, item, i < at + 1)
  <1>0. (i < at + 1) => (i < at)
    OBVIOUS
  <1>1. ASSUME item.action \in {"skip", "identical", "update"}
        PROVE  /\ Holds(after, item.id, item.entry.name)
               /\ item.id \in DOMAIN table /\ after[item.id] = table[item.id]
    <2>1. Holds(table, item.id, item.entry.name)
      BY <1>1 DEF Accounted
    <2>2. item.id \in kept
      BY <2>1 DEF Holds
    <2> QED BY <2>1, <2>2 DEF Holds
  <1>2. item.action = "update" /\ i < at + 1 => after[item.id] = item.entry
    BY <1>0, <1>1 DEF Accounted
  <1>3. ASSUME item.action = "create", i < at + 1 PROVE \E id \in DOMAIN after : after[id] = item.entry
    <2>1. PICK id \in DOMAIN table : table[id] = item.entry
      BY <1>0, <1>3 DEF Accounted
    <2>2. id \in kept
      BY <2>1
    <2> QED BY <2>1, <2>2
  <1> QED BY <1>1, <1>2, <1>3 DEF Accounted

LEMMA Order ==
    ASSUME NEW i \in Nat, NEW at \in Nat, i # at
    PROVE  (i < at + 1) => (i < at)
  OBVIOUS

\* A row found identical stays so while the table keeps its tag, or the row
\* whose turn it was has updated it.
LEMMA StaysUnchanged ==
    ASSUME NEW work \in Work, NEW next, NEW table, NEW after,
           next.plan = work.plan, next.at = work.at + 1, work.at \in DOMAIN work.plan,
           NEW i \in DOMAIN work.plan, Unchanged(table, work, i),
           work.plan[i].action = "identical" =>
              \/ after[work.plan[i].id] = table[work.plan[i].id]
              \/ /\ work.plan[work.at].action = "update"
                 /\ work.plan[work.at].id = work.plan[i].id
    PROVE  Unchanged(after, next, i)
  <1> SUFFICES ASSUME work.plan[i].action = "identical"
               PROVE  \/ SameAddress(after[work.plan[i].id], work.plan[i].entry)
                      \/ Overtaken(next, i)
    BY Zenon DEF Unchanged
  <1>1. /\ work.at \in Nat /\ \A j \in DOMAIN work.plan : j \in Nat
        /\ next.plan = work.plan /\ next.at = work.at + 1
    BY WorkFields
  <1>2. CASE Overtaken(work, i)
    <2>1. PICK j \in DOMAIN work.plan :
             j < work.at /\ work.plan[j].action = "update" /\ work.plan[j].id = work.plan[i].id
      BY <1>2 DEF Overtaken
    <2>2. j < next.at
      BY <1>1, <2>1
    <2> QED BY <1>1, <2>1, <2>2, Zenon DEF Overtaken
  <1>3. CASE /\ work.plan[work.at].action = "update"
             /\ work.plan[work.at].id = work.plan[i].id
    <2>1. work.at < next.at
      BY <1>1
    <2> QED BY <1>1, <1>3, <2>1, Zenon DEF Overtaken
  <1>4. CASE /\ SameAddress(table[work.plan[i].id], work.plan[i].entry)
             /\ after[work.plan[i].id] = table[work.plan[i].id]
    BY <1>4, Zenon
  <1> QED BY <1>2, <1>3, <1>4, Zenon DEF Unchanged

LEMMA Passes ==
    ASSUME NEW work \in Work, NEW next, next = Next1(work), NEW table,
           PlanInv(table, work), work.pc = "applying",
           work.plan[work.at].action \notin {"create", "update"}
    PROVE  next \in Work /\ next.plan = work.plan /\ PlanInv(table, next)
  <1>1. /\ next \in Work /\ next.plan = work.plan /\ next.at = work.at + 1
        /\ next.pc = IF work.at = Len(work.plan) THEN "done" ELSE work.pc
        /\ next.rows = work.rows /\ next.skipped = work.skipped
        /\ next.alone = work.alone /\ next.cut = work.cut
    BY NextRow
  <1>2. ASSUME work.alone, NEW i \in DOMAIN work.plan
        PROVE  Accounted(table, work.plan[i], i < work.at + 1) /\ Unchanged(table, next, i)
    <2>1. Accounted(table, work.plan[i], i < work.at) /\ Unchanged(table, work, i)
      BY <1>2, PlanHolds
    <2>2. Accounted(table, work.plan[i], i < work.at + 1)
      <3>1. CASE i = work.at
        BY <2>1, <3>1 DEF Accounted
      <3>2. CASE i # work.at
        <4>1. (i < work.at + 1) => (i < work.at)
          BY <3>2, WorkFields, Order
        <4> QED BY <2>1, <4>1 DEF Accounted
      <3> QED BY <3>1, <3>2
    <2>3. work.at \in DOMAIN work.plan
      BY DEF PlanInv
    <2>4. Unchanged(table, next, i)
      BY <1>1, <2>1, <2>3, StaysUnchanged
    <2> QED BY <2>2, <2>4
  <1>3. PlanInv(table, next)
    BY <1>1, <1>2, Turns
  <1> QED BY <1>1, <1>3

LEMMA Creates ==
    ASSUME NEW work \in Work, NEW next, next = Next1(work), NEW table,
           PlanInv(table, work), work.pc = "applying",
           work.plan[work.at].action = "create",
           NEW k, k \notin DOMAIN table, NEW after,
           DOMAIN after = DOMAIN table \cup {k}, after[k] = work.plan[work.at].entry,
           \A id \in DOMAIN table : after[id] = table[id]
    PROVE  PlanInv(after, next)
  <1>1. /\ next \in Work /\ next.plan = work.plan /\ next.at = work.at + 1
        /\ next.pc = IF work.at = Len(work.plan) THEN "done" ELSE work.pc
        /\ next.rows = work.rows /\ next.skipped = work.skipped
        /\ next.alone = work.alone /\ next.cut = work.cut
    BY NextRow
  <1>2. ASSUME work.alone, NEW i \in DOMAIN work.plan
        PROVE  Accounted(after, work.plan[i], i < work.at + 1) /\ Unchanged(after, next, i)
    <2>1. Accounted(table, work.plan[i], i < work.at) /\ Unchanged(table, work, i)
      BY <1>2, PlanHolds
    <2>2. Accounted(after, work.plan[i], i < work.at + 1)
      <3>1. CASE i = work.at
        <4>1. \E id \in DOMAIN after : after[id] = work.plan[i].entry
          BY <3>1
        <4> QED BY <3>1, <4>1 DEF Accounted
      <3>2. CASE i # work.at
        <4>1. i \in Nat /\ work.at \in Nat /\ i # work.at
          BY <3>2, WorkFields
        <4>2. DOMAIN table \in SUBSET DOMAIN table /\ DOMAIN table \subseteq DOMAIN after
          OBVIOUS
        <4> QED BY <2>1, <4>1, <4>2, AccountStays
      <3> QED BY <3>1, <3>2
    <2>3. work.plan[i].action = "identical" =>
             after[work.plan[i].id] = table[work.plan[i].id]
      BY <2>1 DEF Accounted, Holds
    <2>4. work.at \in DOMAIN work.plan
      BY DEF PlanInv
    <2>5. Unchanged(after, next, i)
      BY <1>1, <2>1, <2>3, <2>4, StaysUnchanged
    <2> QED BY <2>2, <2>5
  <1> QED BY <1>1, <1>2, Turns

\* Two rows of one plan that write have different names, so a row that replaces
\* a tag replaces no other row's; one that found the tag identical is overtaken.
LEMMA Updates ==
    ASSUME NEW work \in Work, NEW table, PlanInv(table, work), work.pc = "applying",
           work.plan[work.at].action = "update",
           work.plan[work.at].id \in DOMAIN table,
           NEW after, DOMAIN after = DOMAIN table,
           after[work.plan[work.at].id] = work.plan[work.at].entry,
           \A id \in DOMAIN table : id # work.plan[work.at].id => after[id] = table[id]
    PROVE  PlanInv(after, Next1(work))
  <1> DEFINE item == work.plan[work.at]
             next == Next1(work)
  <1>1. /\ next \in Work /\ next.plan = work.plan /\ next.at = work.at + 1
        /\ next.pc = IF work.at = Len(work.plan) THEN "done" ELSE work.pc
        /\ next.rows = work.rows /\ next.skipped = work.skipped
        /\ next.alone = work.alone /\ next.cut = work.cut
    BY NextRow
  <1>2. work.at \in DOMAIN work.plan
    BY DEF PlanInv
  <1>3. ASSUME work.alone, NEW i \in DOMAIN work.plan
        PROVE  Accounted(after, work.plan[i], i < work.at + 1) /\ Unchanged(after, next, i)
    <2>1. /\ Accounted(table, work.plan[i], i < work.at) /\ Unchanged(table, work, i)
          /\ Accounted(table, item, work.at < work.at)
      BY <1>2, <1>3, PlanHolds
    <2>2. Lower(table[item.id].name) = Lower(item.entry.name)
      BY <2>1 DEF Accounted, Holds
    <2>3. DOMAIN after = DOMAIN table /\ after[item.id] = item.entry
          /\ \A id \in DOMAIN table : id # item.id => after[id] = table[id]
      OBVIOUS
    <2>4. Accounted(after, work.plan[i], i < work.at + 1)
      <3>1. CASE i = work.at
        <4>1. work.plan[i] = item
          BY <3>1
        <4> QED BY <2>3, <4>1 DEF Accounted, Holds
      <3>2. CASE /\ i # work.at
                 /\ Lower(work.plan[i].entry.name) # Lower(item.entry.name)
        <4> DEFINE kept == DOMAIN table \ {item.id}
        <4>1. i \in Nat /\ work.at \in Nat /\ i # work.at
          BY <3>2, WorkFields
        <4>2. /\ kept \in SUBSET DOMAIN table /\ kept \subseteq DOMAIN after
              /\ \A id \in kept : after[id] = table[id]
          BY <2>3
        <4>3. \A id \in DOMAIN table :
                 Lower(table[id].name) = Lower(work.plan[i].entry.name) => id \in kept
          BY <2>2, <3>2
        <4> HIDE DEF kept
        <4> QED BY <2>1, <4>1, <4>2, <4>3, AccountStays
      <3>3. CASE /\ i # work.at
                 /\ Lower(work.plan[i].entry.name) = Lower(item.entry.name)
        <4>1. work.plan[i].action \notin {"create", "update"}
          BY <1>2, <3>3, OwnName
        <4>2. ASSUME Holds(table, work.plan[i].id, work.plan[i].entry.name)
              PROVE  Holds(after, work.plan[i].id, work.plan[i].entry.name)
          <5>1. CASE work.plan[i].id = item.id
            BY <2>3, <3>3, <4>2, <5>1 DEF Holds
          <5>2. CASE work.plan[i].id # item.id
            BY <2>3, <4>2, <5>2 DEF Holds
          <5> QED BY <5>1, <5>2
        <4> QED BY <2>1, <4>1, <4>2, Zenon DEF Accounted
      <3> QED BY <3>1, <3>2, <3>3
    <2>5. work.plan[i].action = "identical" =>
             \/ after[work.plan[i].id] = table[work.plan[i].id]
             \/ item.action = "update" /\ item.id = work.plan[i].id
      BY <2>1, <2>3 DEF Accounted, Holds
    <2>6. Unchanged(after, next, i)
      BY <1>1, <1>2, <2>1, <2>5, StaysUnchanged
    <2> QED BY <2>4, <2>6
  <1> QED BY <1>1, <1>3, Turns, Zenon

\* A tag that is to be replaced and is gone was deleted by somebody else.
LEMMA UpdatesNothing ==
    ASSUME NEW work \in Work, NEW next, next = Next1(work), NEW table,
           PlanInv(table, work), work.pc = "applying", NEW item,
           item = work.plan[work.at], item.action = "update",
           item.id \notin DOMAIN table
    PROVE  PlanInv(table, next)
  <1>1. ~work.alone
    <2> SUFFICES ASSUME work.alone PROVE FALSE
      OBVIOUS
    <2>1. work.at \in DOMAIN work.plan
      BY DEF PlanInv
    <2>2. Accounted(table, item, work.at < work.at)
      BY <2>1, PlanHolds
    <2> QED BY <2>2 DEF Accounted, Holds
  <1>2. /\ next \in Work /\ next.plan = work.plan /\ next.at = work.at + 1
        /\ next.pc = IF work.at = Len(work.plan) THEN "done" ELSE work.pc
        /\ next.rows = work.rows /\ next.skipped = work.skipped
        /\ next.alone = work.alone /\ next.cut = work.cut
    BY NextRow
  <1> QED BY <1>1, <1>2, Turns

LEMMA Refuses ==
    ASSUME NEW work \in Work, NEW table, PlanInv(table, work), work.pc = "applying",
           NEW next, next = Next1([work EXCEPT !.plan[work.at].action = "reject"])
    PROVE  /\ next \in Work /\ PlanInv(table, next) /\ DOMAIN next.plan = DOMAIN work.plan
           /\ \A i \in DOMAIN work.plan : next.plan[i].entry = work.plan[i].entry
  <1> DEFINE l == Len(work.plan)
             item == work.plan[work.at]
             given == [item EXCEPT !.action = "reject"]
             plan == [work.plan EXCEPT ![work.at] = given]
             turned == [work EXCEPT !.plan = plan]
  <1>1. /\ work.plan \in Seq(Item) /\ l \in Nat /\ DOMAIN work.plan = 1 .. l
        /\ \A i \in 1 .. l : work.plan[i] \in Item
        /\ work.at \in 1 .. l
    BY WorkFields DEF PlanInv
  <1>2. given \in Item /\ given.entry = item.entry /\ given.action = "reject"
    <2>1. item \in Item
      BY <1>1
    <2> HIDE DEF item
    <2> QED BY <2>1 DEF Item, Actions
  <1>3. [work EXCEPT !.plan[work.at].action = "reject"] = turned
    OBVIOUS
  <1> HIDE DEF given
  <1>4. plan \in [1 .. l -> Item] /\ plan[work.at] = given
        /\ \A i \in 1 .. l : i # work.at => plan[i] = work.plan[i]
    BY <1>1, <1>2
  <1> HIDE DEF plan
  <1>5. plan \in Seq(Item) /\ Len(plan) = l /\ DOMAIN plan = 1 .. l
    BY <1>1, <1>4, MakesSeq
  <1>6. /\ turned \in Work /\ turned.plan = plan /\ turned.at = work.at
        /\ turned.pc = work.pc /\ turned.rows = work.rows /\ turned.skipped = work.skipped
    BY <1>5 DEF Work
  <1>7. turned.alone = work.alone /\ turned.cut = work.cut
    BY Zenon DEF Work
  <1> HIDE DEF turned
  <1>8. /\ next \in Work /\ next.plan = plan /\ next.at = work.at + 1
        /\ next.pc = IF work.at = l THEN "done" ELSE work.pc
        /\ next.rows = work.rows /\ next.skipped = work.skipped
        /\ next.alone = work.alone /\ next.cut = work.cut
    <2>1. next = Next1(turned)
      BY <1>3
    <2>2. /\ next \in Work /\ next.plan = turned.plan /\ next.at = turned.at + 1
          /\ next.pc = IF turned.at = Len(turned.plan) THEN "done" ELSE turned.pc
          /\ next.rows = turned.rows /\ next.skipped = turned.skipped
          /\ next.alone = turned.alone /\ next.cut = turned.cut
      BY <1>6, <2>1, NextRow
    <2> QED BY <1>5, <1>6, <1>7, <2>2, Zenon
  <1>9. \A i \in DOMAIN work.plan :
          /\ next.plan[i].entry = work.plan[i].entry
          /\ next.plan[i].action \in {"create", "update"} =>
                work.plan[i].action \in {"create", "update"}
    BY <1>1, <1>2, <1>4, <1>8
  <1>10. ASSUME work.alone, NEW i \in DOMAIN work.plan
         PROVE  Accounted(table, next.plan[i], i < work.at + 1) /\ Unchanged(table, next, i)
    <2>1. Accounted(table, work.plan[i], i < work.at) /\ Unchanged(table, work, i)
      BY <1>10, PlanHolds
    <2>2. CASE i = work.at
      <3>1. next.plan[i].action = "reject"
        BY <1>2, <1>4, <1>8, <2>2
      <3> QED BY <3>1 DEF Accounted, Unchanged
    <2>3. CASE i # work.at
      <3>1. (i < work.at + 1) => (i < work.at)
        BY <2>3, WorkFields, Order
      <3>2. next.plan[i] = work.plan[i]
        BY <1>1, <1>4, <1>8, <2>3
      <3>3. Accounted(table, next.plan[i], i < work.at + 1)
        BY <2>1, <3>1, <3>2 DEF Accounted
      <3>4. Overtaken(work, i) => Overtaken(next, i)
        <4> SUFFICES ASSUME Overtaken(work, i) PROVE Overtaken(next, i)
          OBVIOUS
        <4>1. PICK j \in DOMAIN work.plan :
                 /\ j < work.at /\ work.plan[j].action = "update"
                 /\ work.plan[j].id = work.plan[i].id /\ work.plan[i].action = "identical"
          BY Zenon DEF Overtaken
        <4>2. j < next.at /\ j # work.at /\ j \in DOMAIN next.plan
          BY <1>1, <1>5, <1>8, <4>1
        <4>3. next.plan[j] = work.plan[j]
          BY <1>1, <1>4, <1>8, <4>2
        <4> QED BY <3>2, <4>1, <4>2, <4>3, Zenon DEF Overtaken
      <3>5. Unchanged(table, next, i)
        BY <2>1, <3>2, <3>4, Zenon DEF Unchanged
      <3> QED BY <3>3, <3>5
    <2> QED BY <2>2, <2>3
  <1>11. PlanInv(table, next)
    BY <1>5, <1>8, <1>9, <1>10, Turns DEF l
  <1> QED BY <1>1, <1>5, <1>8, <1>9, <1>11

-----------------------------------------------------------------------------
\* The whole import.

Tabular(f) == f = [id \in DOMAIN f |-> f[id]]

\* What a plan says agrees with the table and with the block.
Fits(table, work) ==
    /\ PlanInv(table, work)
    /\ \A j \in DOMAIN work.plan : Sourced(work.plan[j].entry)

\* What a step of an importer or of the other handlers has to leave behind.
LEMMA TableChanges ==
    ASSUME ImportInv, LayoutInv', ValueInv', UNCHANGED layoutVars, phase # "reading",
           connected' \in BOOLEAN, lastId' \in Nat, edits' \in 0 .. MaxEdits,
           DOMAIN tags' \subseteq 1 .. lastId', Tabular(tags'),
           \A id \in DOMAIN tags' : tags'[id] \in Sound /\ ValidTag(tags'[id]),
           ~connected' => tags' = <<>>,
           imports' \in [Importers -> Work],
           \A who \in Importers : Fits(tags', imports'[who])
    PROVE  ImportInv'
  <1>1. members' = members /\ phase' = phase
    BY DEF layoutVars
  <1>2. ASSUME NEW id \in DOMAIN tags'
        PROVE  /\ tags'[id] \in Entry /\ Sourced(tags[id])'
               /\ tags'[id].source <= Len(members')
    <2>1. tags'[id] \in Entry /\ Sourced(tags'[id])
      BY DEF Sound
    <2>2. Sourced(tags[id])'
      BY <1>1, <2>1 DEF Sourced
    <2>3. members \in Seq(Member)
      BY DEF ImportInv, TypeOK, LayoutTypeOK
    <2>4. tags'[id].source \in Nat
      BY <2>1 DEF Entry
    <2>5. tags'[id].source <= Len(members')
      BY <1>1, <2>1, <2>3, <2>4 DEF Sourced
    <2> QED BY <2>1, <2>2, <2>5
  <1>3. tags' \in [DOMAIN tags' -> Entry]
    BY <1>2 DEF Tabular
  <1>4. TypeOK'
    <2>1. LayoutTypeOK'
      BY DEF LayoutInv
    <2>2. \A id \in DOMAIN tags' : ValidTag(tags[id])' /\ tags'[id].source <= Len(members')
      BY <1>2 DEF ValidTag, ValidAddress
    <2> QED BY <1>3, <2>1, <2>2, Zenon DEF TypeOK
  <1>5. SourceInv'
    <2>1. \A who \in Importers : \A i \in DOMAIN imports'[who].plan :
             Sourced(imports[who].plan[i].entry)'
      BY <1>1 DEF Sourced, Fits
    <2> QED BY <1>1, <1>2, <2>1, Zenon DEF SourceInv
  <1>6. \A who \in Importers : PlanInv(tags', imports'[who])
    BY Zenon DEF Fits
  <1> QED BY <1>4, <1>5, <1>6 DEF ImportInv

LEMMA ImportFields ==
    ASSUME ImportInv
    PROVE  /\ connected \in BOOLEAN /\ lastId \in Nat /\ edits \in 0 .. MaxEdits
           /\ DOMAIN tags \subseteq 1 .. lastId /\ DOMAIN tags \subseteq Nat
           /\ Tabular(tags)
           /\ \A id \in DOMAIN tags : tags[id] \in Sound /\ ValidTag(tags[id])
           /\ ~connected => tags = <<>>
           /\ imports \in [Importers -> Work]
           /\ \A who \in Importers : imports[who] \in Work /\ Fits(tags, imports[who])
           /\ LayoutTypeOK /\ ValueInv
  <1>1. /\ connected \in BOOLEAN /\ lastId \in Nat /\ edits \in 0 .. MaxEdits
        /\ DOMAIN tags \subseteq 1 .. lastId /\ tags \in [DOMAIN tags -> Entry]
        /\ \A id \in DOMAIN tags : ValidTag(tags[id])
        /\ ~connected => tags = <<>>
        /\ imports \in [Importers -> Work] /\ LayoutTypeOK /\ ValueInv
    BY Zenon DEF ImportInv, TypeOK
  <1>2. DOMAIN tags \subseteq Nat /\ Tabular(tags)
    BY <1>1 DEF Tabular
  <1>3. \A id \in DOMAIN tags : tags[id] \in Sound
    BY <1>1 DEF ImportInv, SourceInv, Sound
  <1>4. \A who \in Importers : imports[who] \in Work /\ Fits(tags, imports[who])
    BY <1>1, Zenon DEF ImportInv, SourceInv, Fits
  <1> QED BY <1>1, <1>2, <1>3, <1>4, Zenon

\* With one more tag, with one replaced.
LEMMA OneTagMore ==
    ASSUME ImportInv, NEW e \in Sound, ValidTag(e)
    PROVE  /\ lastId + 1 \notin DOMAIN tags
           /\ DOMAIN Inserted(e) = DOMAIN tags \cup {lastId + 1}
           /\ Inserted(e)[lastId + 1] = e
           /\ \A id \in DOMAIN tags : Inserted(e)[id] = tags[id]
           /\ DOMAIN Inserted(e) \subseteq 1 .. lastId + 1
           /\ Tabular(Inserted(e))
           /\ \A id \in DOMAIN Inserted(e) : Inserted(e)[id] \in Sound /\ ValidTag(Inserted(e)[id])
  <1>1. /\ lastId \in Nat /\ DOMAIN tags \subseteq 1 .. lastId
        /\ \A id \in DOMAIN tags : tags[id] \in Sound /\ ValidTag(tags[id])
    BY ImportFields
  <1> DEFINE k == lastId + 1
             after == Inserted(e)
  <1>2. k \notin DOMAIN tags /\ k \in 1 .. k /\ DOMAIN tags \subseteq 1 .. k
    BY <1>1
  <1>3. after = [id \in DOMAIN tags \cup {k} |-> IF id \in DOMAIN tags THEN tags[id] ELSE e]
    BY DEF Inserted
  <1> HIDE DEF k, after
  <1>4. /\ DOMAIN after = DOMAIN tags \cup {k} /\ after[k] = e
        /\ \A id \in DOMAIN tags : after[id] = tags[id]
        /\ Tabular(after)
    BY <1>2, <1>3 DEF Tabular
  <1>5. DOMAIN after \subseteq 1 .. k
    BY <1>2, <1>4
  <1>6. \A id \in DOMAIN after : after[id] \in Sound /\ ValidTag(after[id])
    BY <1>1, <1>4
  <1> QED BY <1>2, <1>4, <1>5, <1>6 DEF k, after

Replaced(k, e) == [tags EXCEPT ![k] = e]

LEMMA OneTagReplaced ==
    ASSUME ImportInv, NEW e \in Sound, ValidTag(e), NEW k \in DOMAIN tags
    PROVE  /\ DOMAIN Replaced(k, e) = DOMAIN tags /\ Replaced(k, e)[k] = e
           /\ \A id \in DOMAIN tags : id # k => Replaced(k, e)[id] = tags[id]
           /\ Tabular(Replaced(k, e))
           /\ \A id \in DOMAIN Replaced(k, e) :
                 Replaced(k, e)[id] \in Sound /\ ValidTag(Replaced(k, e)[id])
  <1> DEFINE after == Replaced(k, e)
  <1>1. \A id \in DOMAIN tags : tags[id] \in Sound /\ ValidTag(tags[id])
    BY ImportFields
  <1>2. /\ DOMAIN after = DOMAIN tags /\ after[k] = e
        /\ \A id \in DOMAIN tags : id # k => after[id] = tags[id]
        /\ Tabular(after)
    BY DEF Replaced, Tabular
  <1> HIDE DEF after
  <1>3. \A id \in DOMAIN after : after[id] \in Sound /\ ValidTag(after[id])
    BY <1>1, <1>2
  <1> QED BY <1>2, <1>3 DEF after

\* The other importers notice that somebody else has written.
LEMMA OthersDisturbed ==
    ASSUME ImportInv, NEW who, NEW state \in [Importers -> Work],
           \A i \in Importers : i # who => state[i] = imports[i],
           NEW after
    PROVE  /\ Disturbs(who, state) \in [Importers -> Work]
           /\ \A i \in Importers : i = who => Disturbs(who, state)[i] = state[i]
           /\ \A i \in Importers : i # who => Fits(after, Disturbs(who, state)[i])
  <1> DEFINE next == Disturbs(who, state)
  <1>1. /\ DOMAIN next = Importers /\ \A i \in Importers :
              next[i] = IF i # who THEN [state[i] EXCEPT !.alone = FALSE] ELSE state[i]
        /\ next = [i \in Importers |-> next[i]]
    BY DEF Disturbs
  <1> HIDE DEF next
  <1>2. ASSUME NEW i \in Importers, i # who
        PROVE  next[i] \in Work /\ Fits(after, next[i])
    <2> DEFINE work == imports[i]
               new == next[i]
    <2>1. /\ work \in Work /\ PlanInv(tags, work)
          /\ \A j \in DOMAIN work.plan : Sourced(work.plan[j].entry)
      BY ImportFields, Zenon DEF Fits, work
    <2>2. new = [work EXCEPT !.alone = FALSE]
      BY <1>1, <1>2
    <2> HIDE DEF work, new
    <2>3. new \in Work /\ new.plan = work.plan
      BY <2>1, <2>2, Disturbed
    <2>4. PlanInv(after, new)
      BY <2>1, <2>2, Disturbed
    <2>5. \A j \in DOMAIN new.plan : Sourced(new.plan[j].entry)
      BY <2>1, <2>3
    <2> QED BY <2>3, <2>4, <2>5, Zenon DEF new, Fits
  <1>3. \A i \in Importers : next[i] \in Work
    <2>1. \A i \in Importers : i = who => next[i] = state[i] /\ state[i] \in Work
      BY <1>1
    <2> QED BY <1>2, <2>1
  <1>4. next \in [Importers -> Work]
    BY <1>1, <1>3
  <1> QED BY <1>1, <1>2, <1>4 DEF next

-----------------------------------------------------------------------------
\* An import begins.

LEMMA Started ==
    ASSUME ImportInv, NEW who \in Importers, NEW file, NEW rows \in Nat, NEW prefix,
           NEW overwrite \in BOOLEAN, file.entries \in Seq(Sound), file.skipped \in Nat,
           Len(file.entries) + file.skipped = rows,
           prefix = <<>> => \A i, j \in DOMAIN file.entries :
              i # j => Lower(file.entries[i].name) # Lower(file.entries[j].name),
           Begin(who, file, rows, prefix, overwrite)
    PROVE  /\ imports' \in [Importers -> Work]
           /\ \A i \in Importers : Fits(tags, imports'[i])
  <1> DEFINE plan == Planned(file.entries, overwrite)
             pc == CASE Writes(plan) = 0             -> "nothing"
                     [] Writes(plan) > MaxImportTags -> "refused"
                     [] OTHER                        -> "applying"
             work == [pc |-> pc, plan |-> plan, at |-> 1, overwrite |-> overwrite,
                      rows |-> rows, skipped |-> file.skipped, alone |-> TRUE,
                      cut |-> prefix # <<>>]
  <1>1. imports' = [imports EXCEPT ![who] = work]
    BY Zenon DEF Begin
  <1>2. /\ plan \in Seq(Item) /\ Len(plan) = Len(file.entries)
        /\ DOMAIN plan = DOMAIN file.entries
        /\ \A i \in DOMAIN file.entries :
             /\ plan[i].entry = file.entries[i] /\ Sourced(plan[i].entry)
             /\ plan[i].action \in {"create", "update"} => ValidTag(plan[i].entry)
             /\ plan[i].action = "identical" => SameAddress(tags[plan[i].id], plan[i].entry)
             /\ Accounted(tags, plan[i], FALSE)
        /\ Apart(plan, TRUE)
    <2>1. DOMAIN tags \subseteq Nat
      BY ImportFields
    <2> QED BY <2>1, PlansAll
  <1> HIDE DEF plan
  <1>3. plan = <<>> => Writes(plan) = 0
    <2> SUFFICES ASSUME plan = <<>> PROVE Writes(plan) = 0
      OBVIOUS
    <2>1. {i \in DOMAIN plan : plan[i].action \in {"create", "update"}} = {}
      OBVIOUS
    <2> QED BY <2>1, FS_EmptySet DEF Writes
  <1>4. pc \in {"nothing", "refused", "applying"} /\ (pc = "applying" => plan # <<>>)
    <2> DEFINE n == Writes(plan)
    <2>1. n = 0 => ~(n > MaxImportTags)
      BY TagImportAssumption
    <2>2. pc = CASE n = 0 -> "nothing" [] n > MaxImportTags -> "refused" [] OTHER -> "applying"
      OBVIOUS
    <2>3. plan = <<>> => n = 0
      BY <1>3
    <2> HIDE DEF n, pc
    <2>4. n = 0 => pc = "nothing"
      BY <2>1, <2>2
    <2>5. pc \in {"nothing", "refused", "applying"}
      BY <2>2
    <2> QED BY <2>3, <2>4, <2>5
  <1>6. prefix = <<>> => \A i, j \in DOMAIN plan :
           i # j => Lower(plan[i].entry.name) # Lower(plan[j].entry.name)
    <2> SUFFICES ASSUME prefix = <<>>, NEW i \in DOMAIN plan, NEW j \in DOMAIN plan, i # j
                 PROVE  Lower(plan[i].entry.name) # Lower(plan[j].entry.name)
      OBVIOUS
    <2>1. i \in DOMAIN file.entries /\ j \in DOMAIN file.entries
      BY <1>2, Zenon
    <2>2. plan[i].entry = file.entries[i] /\ plan[j].entry = file.entries[j]
      BY <1>2, <2>1, Zenon
    <2>3. Lower(file.entries[i].name) # Lower(file.entries[j].name)
      BY <2>1, Zenon
    <2> QED BY <2>2, <2>3
  <1>7. \A i \in DOMAIN plan :
          /\ plan[i].action \in {"create", "update"} => ValidTag(plan[i].entry)
          /\ plan[i].action = "identical" => SameAddress(tags[plan[i].id], plan[i].entry)
          /\ Accounted(tags, plan[i], FALSE)
    BY <1>2, Zenon
  <1>8. Len(plan) + file.skipped = rows
    BY <1>2
  <1> HIDE DEF pc
  <1>9. work \in Work /\ work.plan = plan /\ PlanInv(tags, work)
    <2>1. work.pc = pc /\ work.plan = plan /\ work.at = 1 /\ Len(plan) + work.skipped = work.rows
      BY <1>8
    <2>2. ~work.cut => prefix = <<>>
      BY Zenon
    <2>3. work \in Work
      <3>1. /\ plan \in Seq(Item) /\ file.skipped \in Nat /\ 1 \in Nat
            /\ pc \in {"idle", "nothing", "refused", "applying", "done"}
        BY <1>2, <1>4
      <3>2. (prefix # <<>>) \in BOOLEAN /\ TRUE \in BOOLEAN
        BY Zenon
      <3> QED BY <3>1, <3>2, Zenon DEF Work
    <2> HIDE DEF work
    <2>4. Len(plan) \in Nat /\ DOMAIN plan = 1 .. Len(plan)
      BY <1>2
    <2>5. work.pc = "applying" => work.at \in DOMAIN work.plan
      BY <1>4, <2>1, <2>4
    <2>6. work.pc # "done"
      BY <1>4, <2>1
    <2>7. ASSUME NEW i \in DOMAIN plan PROVE Accounted(tags, plan[i], i < 1)
      <3>1. ~(i < 1)
        BY <2>4
      <3> QED BY <1>7, <3>1 DEF Accounted
    <2>8. /\ Apart(work.plan, work.cut)
          /\ work.alone => \A i \in DOMAIN work.plan :
               Accounted(tags, work.plan[i], i < work.at) /\ Unchanged(tags, work, i)
      <3>1. ASSUME work.cut PROVE Apart(work.plan, work.cut)
        BY <1>2, <2>1, <3>1, Zenon DEF Apart
      <3>2. ASSUME ~work.cut PROVE Apart(work.plan, work.cut)
        BY <1>6, <2>1, <2>2, <3>2, Zenon DEF Apart
      <3>3. \A i \in DOMAIN work.plan : Accounted(tags, work.plan[i], i < work.at)
        BY <2>1, <2>7, Zenon
      <3>4. \A i \in DOMAIN work.plan : Unchanged(tags, work, i)
        BY <1>7, <2>1, Zenon DEF Unchanged
      <3>5. Apart(work.plan, work.cut)
        BY <2>1, <3>1, <3>2, Zenon
      <3> QED BY <3>3, <3>4, <3>5
    <2>9. \A i \in DOMAIN work.plan :
            work.plan[i].action \in {"create", "update"} => ValidTag(work.plan[i].entry)
      BY <1>7, <2>1, Zenon
    <2>10. PlanInv(tags, work)
      BY <2>1, <2>5, <2>6, <2>8, <2>9, Zenon DEF PlanInv
    <2> QED BY <2>1, <2>3, <2>10
  <1>10. /\ imports \in [Importers -> Work]
         /\ \A i \in Importers : Fits(tags, imports[i])
    BY ImportFields
  <1>11. /\ imports' \in [Importers -> Work] /\ imports'[who] = work
         /\ \A i \in Importers : i # who => imports'[i] = imports[i]
    BY <1>1, <1>9, <1>10, Zenon
  <1>12. \A j \in DOMAIN work.plan : Sourced(work.plan[j].entry)
    BY <1>2, <1>9
  <1>13. Fits(tags, work)
    BY <1>9, <1>12, Zenon DEF Fits
  <1> QED BY <1>10, <1>11, <1>13, Zenon

LEMMA StartedKeeps ==
    ASSUME ImportInv, phase # "reading",
           UNCHANGED <<layoutVars, connected, tags, lastId, edits>>,
           imports' \in [Importers -> Work],
           \A i \in Importers : Fits(tags, imports'[i])
    PROVE  ImportInv'
  <1>1. /\ UNCHANGED layoutVars /\ connected' = connected /\ tags' = tags
        /\ lastId' = lastId /\ edits' = edits
    OBVIOUS
  <1>2. LayoutInv' /\ ValueInv'
    <2>1. LayoutInv /\ ValueInv
      BY DEF ImportInv
    <2>2. [LayoutStep]_layoutVars
      BY <1>1
    <2> QED BY <2>1, <2>2, LayoutGoesOn, ValuesGoOn
  <1>3. /\ connected \in BOOLEAN /\ lastId \in Nat /\ edits \in 0 .. MaxEdits
        /\ DOMAIN tags \subseteq 1 .. lastId /\ Tabular(tags)
        /\ \A id \in DOMAIN tags : tags[id] \in Sound /\ ValidTag(tags[id])
        /\ ~connected => tags = <<>>
    BY ImportFields
  <1>4. /\ connected' \in BOOLEAN /\ lastId' \in Nat /\ edits' \in 0 .. MaxEdits
        /\ DOMAIN tags' \subseteq 1 .. lastId' /\ Tabular(tags')
        /\ ~connected' => tags' = <<>>
    <2>1. ~connected' => tags' = <<>>
      BY <1>1, <1>3, SMT
    <2>2. connected' \in BOOLEAN /\ Tabular(tags')
      BY <1>1, <1>3, Zenon
    <2>3. /\ lastId' \in Nat /\ edits' \in 0 .. MaxEdits
          /\ DOMAIN tags' \subseteq 1 .. lastId'
      BY <1>1, <1>3, SMT
    <2> QED BY <2>1, <2>2, <2>3, Zenon
  <1>5. \A id \in DOMAIN tags' : tags'[id] \in Sound /\ ValidTag(tags'[id])
    BY <1>1, <1>3, Zenon
  <1>6. \A i \in Importers : Fits(tags', imports'[i])
    BY <1>1, Zenon
  <1> QED BY <1>1, <1>2, <1>4, <1>5, <1>6, TableChanges

LEMMA ImportBlockKeeps ==
    ASSUME ImportInv, NEW who \in Importers, NEW number \in DbNumbers,
           NEW prefix \in TagPrefixes, NEW overwrite \in BOOLEAN,
           ImportBlock(who, number, prefix, overwrite)
    PROVE  ImportInv'
  <1> DEFINE file == BlockSymbols(number, prefix)
             rows == IF number = 0 THEN 0 ELSE Len(members)
  <1>1. /\ phase = "laid" /\ Begin(who, file, rows, <<>>, overwrite)
        /\ UNCHANGED <<layoutVars, connected, tags, lastId, edits>>
    BY Zenon DEF ImportBlock
  <1>2. /\ file \in Files(Sound) /\ RowsIn(file) = rows
    <2>1. number \in Nat /\ prefix \in Seq(Texts)
      BY TagImportAssumption
    <2>2. LayoutTypeOK /\ ValueInv
      BY ImportFields
    <2> QED BY <2>1, <2>2, BlockCollectsAll, Zenon
  <1>3. rows \in Nat
    <2>1. Len(members) \in Nat
      BY ImportFields DEF LayoutTypeOK
    <2> QED BY <2>1
  <1> HIDE DEF file, rows
  <1>4. /\ file.entries \in Seq(Sound) /\ file.skipped \in Nat
        /\ Len(file.entries) + file.skipped = rows
        /\ \A i, j \in DOMAIN file.entries :
              i # j => Lower(file.entries[i].name) # Lower(file.entries[j].name)
    BY <1>2 DEF Files, RowsIn
  <1>5. /\ imports' \in [Importers -> Work]
        /\ \A i \in Importers : Fits(tags, imports'[i])
    BY <1>1, <1>3, <1>4, Started, Zenon
  <1>6. phase # "reading"
    BY <1>1
  <1> QED BY <1>1, <1>5, <1>6, StartedKeeps, Zenon

LEMMA ImportSymbolsKeeps ==
    ASSUME ImportInv, NEW who \in Importers, NEW rows \in SymbolFiles,
           NEW prefix \in TagPrefixes, NEW overwrite \in BOOLEAN,
           ImportSymbols(who, rows, prefix, overwrite)
    PROVE  ImportInv'
  <1> DEFINE old == Collect(rows)
             file == Prefixed(old, prefix)
  <1>1. /\ phase # "reading" /\ Begin(who, file, Len(rows), prefix, overwrite)
        /\ UNCHANGED <<layoutVars, connected, tags, lastId, edits>>
    BY Zenon DEF ImportSymbols
  <1>2. /\ old \in Files(Sound) /\ RowsIn(old) = Len(rows)
    BY CollectsAll
  <1>3. Len(rows) \in Nat /\ prefix \in Seq(Texts)
    BY TagImportAssumption
  <1> HIDE DEF old
  <1>4. /\ file.entries \in Seq(Sound) /\ Len(file.entries) = Len(old.entries)
        /\ file.skipped = old.skipped
        /\ prefix = <<>> => \A i \in DOMAIN old.entries :
              file.entries[i].name = old.entries[i].name
    BY <1>2, <1>3, PrefixedKeeps
  <1> HIDE DEF file
  <1>5. /\ old.entries \in Seq(Sound) /\ old.skipped \in Nat
        /\ Len(old.entries) + old.skipped = Len(rows)
        /\ \A i, j \in DOMAIN old.entries :
              i # j => Lower(old.entries[i].name) # Lower(old.entries[j].name)
    BY <1>2 DEF Files, RowsIn
  <1>6. /\ file.skipped \in Nat /\ Len(file.entries) + file.skipped = Len(rows)
        /\ DOMAIN file.entries = DOMAIN old.entries
    BY <1>4, <1>5
  <1>7. prefix = <<>> => \A i, j \in DOMAIN file.entries :
           i # j => Lower(file.entries[i].name) # Lower(file.entries[j].name)
    BY <1>4, <1>5, <1>6, Zenon
  <1>8. /\ imports' \in [Importers -> Work]
        /\ \A i \in Importers : Fits(tags, imports'[i])
    BY <1>1, <1>3, <1>4, <1>6, <1>7, Started, Zenon
  <1> QED BY <1>1, <1>8, StartedKeeps, Zenon

-----------------------------------------------------------------------------
\* A row of a plan takes its turn.

\* What the importer whose turn it was and the table have to look like.
LEMMA RowKeeps ==
    ASSUME ImportInv, NEW who \in Importers, imports[who].pc = "applying",
           UNCHANGED <<layoutVars, connected, edits>>, lastId' \in Nat,
           DOMAIN tags' \subseteq 1 .. lastId', Tabular(tags'),
           \A id \in DOMAIN tags' : tags'[id] \in Sound /\ ValidTag(tags'[id]),
           ~connected => tags' = <<>>,
           NEW next \in Work, Fits(tags', next), imports' \in [Importers -> Work],
           imports'[who] = next,
           \A i \in Importers : i # who => Fits(tags', imports'[i])
    PROVE  ImportInv'
  <1>1. phase # "reading"
    <2> SUFFICES ASSUME phase = "reading" PROVE FALSE
      OBVIOUS
    <2>1. imports[who].plan = <<>>
      BY DEF ImportInv, SourceInv
    <2>2. imports[who].at \in DOMAIN imports[who].plan
      BY DEF ImportInv, PlanInv
    <2> QED BY <2>1, <2>2
  <1>2. LayoutInv' /\ ValueInv'
    <2>1. LayoutInv /\ ValueInv
      BY DEF ImportInv
    <2>2. [LayoutStep]_layoutVars
      OBVIOUS
    <2> QED BY <2>1, <2>2, LayoutGoesOn, ValuesGoOn
  <1>3. connected \in BOOLEAN /\ edits \in 0 .. MaxEdits
    BY ImportFields
  <1>4. /\ UNCHANGED layoutVars /\ connected' \in BOOLEAN /\ edits' \in 0 .. MaxEdits
        /\ ~connected' => tags' = <<>>
    BY <1>3, Zenon
  <1>5. \A i \in Importers : Fits(tags', imports'[i])
    BY Zenon
  <1> QED BY <1>1, <1>2, <1>4, <1>5, TableChanges, Zenon

\* A row that writes nothing leaves the others as they are.
LEMMA QuietRowKeeps ==
    ASSUME ImportInv, NEW who \in Importers, imports[who].pc = "applying",
           UNCHANGED <<layoutVars, connected, edits, tags, lastId>>,
           NEW next \in Work, Fits(tags, next),
           imports' = [imports EXCEPT ![who] = next]
    PROVE  ImportInv'
  <1>1. /\ lastId \in Nat
        /\ DOMAIN tags \subseteq 1 .. lastId /\ Tabular(tags)
        /\ \A id \in DOMAIN tags : tags[id] \in Sound /\ ValidTag(tags[id])
        /\ ~connected => tags = <<>>
        /\ imports \in [Importers -> Work]
        /\ \A i \in Importers : Fits(tags, imports[i])
    BY ImportFields
  <1>2. tags' = tags /\ lastId' = lastId /\ UNCHANGED <<layoutVars, connected, edits>>
    OBVIOUS
  <1>3. /\ imports' \in [Importers -> Work] /\ imports'[who] = next
        /\ \A i \in Importers : i # who => imports'[i] = imports[i]
    BY <1>1, Zenon
  <1>4. /\ lastId' \in Nat
        /\ DOMAIN tags' \subseteq 1 .. lastId' /\ Tabular(tags')
        /\ \A id \in DOMAIN tags' : tags'[id] \in Sound /\ ValidTag(tags'[id])
        /\ ~connected => tags' = <<>>
    BY <1>1, <1>2, Zenon
  <1>5. \A i \in Importers : i # who => Fits(tags', imports'[i])
    BY <1>1, <1>2, <1>3, Zenon
  <1>6. Fits(tags', next)
    BY <1>2, Zenon
  <1> QED BY <1>2, <1>3, <1>4, <1>5, <1>6, RowKeeps, Zenon

\* A row that has written tells the others.
LEMMA LoudRowKeeps ==
    ASSUME ImportInv, NEW who \in Importers, imports[who].pc = "applying",
           UNCHANGED <<layoutVars, connected, edits>>, lastId' \in Nat,
           DOMAIN tags' \subseteq 1 .. lastId', Tabular(tags'),
           \A id \in DOMAIN tags' : tags'[id] \in Sound /\ ValidTag(tags'[id]),
           ~connected => tags' = <<>>,
           NEW next \in Work, Fits(tags', next),
           imports' = Disturbs(who, [imports EXCEPT ![who] = next])
    PROVE  ImportInv'
  <1> DEFINE state == [imports EXCEPT ![who] = next]
  <1>1. imports \in [Importers -> Work]
    BY ImportFields
  <1>2. /\ state \in [Importers -> Work] /\ state[who] = next
        /\ \A i \in Importers : i # who => state[i] = imports[i]
    BY <1>1, Zenon
  <1>3. imports' = Disturbs(who, state)
    OBVIOUS
  <1> HIDE DEF state
  <1>4. /\ Disturbs(who, state) \in [Importers -> Work]
        /\ \A i \in Importers : i = who => Disturbs(who, state)[i] = state[i]
        /\ \A i \in Importers : i # who => Fits(tags', Disturbs(who, state)[i])
    BY <1>2, OthersDisturbed
  <1>5. imports'[who] = next
    BY <1>2, <1>3, <1>4, Zenon
  <1>6. \A i \in Importers : i # who => Fits(tags', imports'[i])
    BY <1>3, <1>4, Zenon
  <1>7. imports' \in [Importers -> Work]
    BY <1>3, <1>4, Zenon
  <1> QED BY <1>7, <1>5, <1>6, RowKeeps, Zenon

LEMMA ApplyRowKeeps ==
    ASSUME ImportInv, NEW who \in Importers, ApplyRow(who)
    PROVE  ImportInv'
  <1> DEFINE work == imports[who]
             item == work.plan[work.at]
             next == Next1(work)
             turned == Next1([work EXCEPT !.plan[work.at].action = "reject"])
  <1>1. /\ work.pc = "applying" /\ UNCHANGED <<layoutVars, connected, edits>>
        /\ \/ /\ item.action \notin {"create", "update"}
              /\ imports' = [imports EXCEPT ![who] = next] /\ UNCHANGED <<tags, lastId>>
           \/ /\ imports' = [imports EXCEPT ![who] = turned] /\ UNCHANGED <<tags, lastId>>
           \/ /\ item.action \in {"create", "update"} /\ ~Refused(item)
              /\ tags' = Written(item)
              /\ lastId' = IF item.action = "create" THEN lastId + 1 ELSE lastId
              /\ imports' = Disturbs(who, [imports EXCEPT ![who] = next])
    BY Zenon DEF ApplyRow
  <1>2. /\ work \in Work /\ PlanInv(tags, work)
        /\ \A j \in DOMAIN work.plan : Sourced(work.plan[j].entry)
        /\ lastId \in Nat /\ DOMAIN tags \subseteq 1 .. lastId
        /\ ~connected => tags = <<>>
        /\ Tabular(tags)
        /\ \A id \in DOMAIN tags : tags[id] \in Sound /\ ValidTag(tags[id])
    BY ImportFields, Zenon DEF Fits
  <1> HIDE DEF work
  <1>3. work.at \in DOMAIN work.plan
    BY <1>1, <1>2 DEF PlanInv
  <1>4. item \in Item
    BY <1>2, <1>3, WorkFields
  <1>5. next \in Work /\ next.plan = work.plan
    BY <1>2, NextRow
  <1>6. /\ \A j \in DOMAIN next.plan : Sourced(next.plan[j].entry)
        /\ imports[who].pc = "applying"
    BY <1>1, <1>2, <1>5 DEF work
  <1>7. CASE /\ item.action \notin {"create", "update"}
             /\ imports' = [imports EXCEPT ![who] = next] /\ UNCHANGED <<tags, lastId>>
    <2>1. PlanInv(tags, next)
      BY <1>1, <1>2, <1>7, Passes
    <2>2. Fits(tags, next)
      BY <1>6, <2>1, Zenon DEF Fits
    <2> HIDE DEF next, item
    <2> QED BY <1>1, <1>5, <1>6, <1>7, <2>2, QuietRowKeeps
  <1>8. CASE imports' = [imports EXCEPT ![who] = turned] /\ UNCHANGED <<tags, lastId>>
    <2>1. /\ turned \in Work /\ PlanInv(tags, turned) /\ DOMAIN turned.plan = DOMAIN work.plan
          /\ \A i \in DOMAIN work.plan : turned.plan[i].entry = work.plan[i].entry
      BY <1>1, <1>2, Refuses, Zenon
    <2> HIDE DEF turned
    <2>2. \A j \in DOMAIN turned.plan : Sourced(turned.plan[j].entry)
      BY <1>2, <2>1
    <2>3. Fits(tags, turned)
      BY <2>1, <2>2, Zenon DEF Fits
    <2> QED BY <1>1, <1>6, <1>8, <2>1, <2>3, QuietRowKeeps
  <1>9. CASE /\ item.action \in {"create", "update"} /\ ~Refused(item)
             /\ tags' = Written(item)
             /\ lastId' = IF item.action = "create" THEN lastId + 1 ELSE lastId
             /\ imports' = Disturbs(who, [imports EXCEPT ![who] = next])
    <2>1. item.entry \in Sound /\ ValidTag(item.entry) /\ item.id \in Nat
      <3>1. item.entry \in Entry /\ item.id \in Nat
        BY <1>4, ItemFields
      <3>2. ValidTag(item.entry)
        BY <1>2, <1>3, <1>9, Zenon DEF PlanInv
      <3> QED BY <1>2, <1>3, <3>1, <3>2 DEF Sound
    <2> DEFINE after == Written(item)
    <2>2. /\ lastId' \in Nat /\ DOMAIN after \subseteq 1 .. lastId'
          /\ Tabular(after)
          /\ \A id \in DOMAIN after : after[id] \in Sound /\ ValidTag(after[id])
          /\ ~connected => after = <<>>
          /\ PlanInv(after, next)
      <3>1. CASE item.action = "create"
        <4>1. after = Inserted(item.entry) /\ lastId' = lastId + 1 /\ connected
          BY <1>9, <3>1 DEF Written, Refused
        <4> HIDE DEF after, item, next
        <4>2. /\ lastId + 1 \notin DOMAIN tags
              /\ DOMAIN after = DOMAIN tags \cup {lastId + 1}
              /\ after[lastId + 1] = item.entry /\ \A id \in DOMAIN tags : after[id] = tags[id]
              /\ DOMAIN after \subseteq 1 .. lastId + 1
              /\ Tabular(after)
              /\ \A id \in DOMAIN after : after[id] \in Sound /\ ValidTag(after[id])
          BY <2>1, <4>1, OneTagMore
        <4>3. PlanInv(after, next)
          BY <1>1, <1>2, <3>1, <4>2, Creates DEF item, next
        <4>4. lastId' \in Nat /\ DOMAIN after \subseteq 1 .. lastId'
          BY <1>2, <4>1, <4>2
        <4> QED BY <4>1, <4>2, <4>3, <4>4, Zenon
      <3>2. CASE item.action = "update" /\ item.id \in DOMAIN tags
        <4>1. after = Replaced(item.id, item.entry) /\ lastId' = lastId
          BY <1>9, <3>2 DEF Written, Replaced
        <4> HIDE DEF after, item, next
        <4>2. /\ DOMAIN after = DOMAIN tags /\ after[item.id] = item.entry
              /\ \A id \in DOMAIN tags : id # item.id => after[id] = tags[id]
              /\ Tabular(after)
              /\ \A id \in DOMAIN after : after[id] \in Sound /\ ValidTag(after[id])
          BY <2>1, <3>2, <4>1, OneTagReplaced
        <4>3. PlanInv(after, next)
          BY <1>1, <1>2, <3>2, <4>2, Updates DEF item, next
        <4>4. ~connected => after = <<>>
          BY <1>2, <3>2
        <4> QED BY <1>2, <4>1, <4>2, <4>3, <4>4
      <3>3. CASE item.action = "update" /\ item.id \notin DOMAIN tags
        <4>1. after = tags /\ lastId' = lastId
          BY <1>9, <3>3 DEF Written
        <4> HIDE DEF after, item, next
        <4>2. PlanInv(tags, next)
          BY <1>1, <1>2, <3>3, UpdatesNothing DEF item, next
        <4> QED BY <1>2, <4>1, <4>2, Zenon
      <3> QED BY <1>9, <3>1, <3>2, <3>3
    <2>3. /\ tags' = after /\ imports' = Disturbs(who, [imports EXCEPT ![who] = next])
          /\ UNCHANGED <<layoutVars, connected, edits>>
      BY <1>1, <1>9, Zenon
    <2> HIDE DEF after, next, item
    <2>4. /\ DOMAIN tags' \subseteq 1 .. lastId' /\ Tabular(tags')
          /\ \A id \in DOMAIN tags' : tags'[id] \in Sound /\ ValidTag(tags'[id])
          /\ (~connected => tags' = <<>>)
      BY <2>2, <2>3, Zenon
    <2>5. Fits(tags', next)
      BY <1>6, <2>2, <2>3, Zenon DEF Fits
    <2> QED BY <1>5, <1>6, <2>2, <2>3, <2>4, <2>5, LoudRowKeeps, Zenon
  <1> QED BY <1>1, <1>7, <1>8, <1>9, Zenon

-----------------------------------------------------------------------------
\* The other handlers.

LEMMA EditsKeep ==
    ASSUME ImportInv, Edits, connected' \in BOOLEAN, lastId' \in Nat,
           DOMAIN tags' \subseteq 1 .. lastId', Tabular(tags'),
           \A id \in DOMAIN tags' : tags'[id] \in Sound /\ ValidTag(tags'[id]),
           ~connected' => tags' = <<>>
    PROVE  ImportInv'
  <1>1. /\ phase # "reading" /\ edits < MaxEdits /\ edits' = edits + 1
        /\ imports' = Disturbs("editor", imports) /\ UNCHANGED layoutVars
    BY Zenon DEF Edits
  <1>2. imports \in [Importers -> Work] /\ edits \in 0 .. MaxEdits
    BY ImportFields
  <1>3. edits' \in 0 .. MaxEdits
    BY <1>1, <1>2, TagImportAssumption
  <1>4. \A i \in Importers : i # "editor"
    BY DEF Importers
  <1>5. /\ imports' \in [Importers -> Work]
        /\ \A i \in Importers : i # "editor" => Fits(tags', imports'[i])
    <2> DEFINE state == imports
               who == "editor"
    <2>1. /\ state \in [Importers -> Work] /\ imports' = Disturbs(who, state)
          /\ \A i \in Importers : i # who => state[i] = imports[i]
      BY <1>1, <1>2
    <2> HIDE DEF state, who
    <2>2. /\ Disturbs(who, state) \in [Importers -> Work]
          /\ \A i \in Importers : i # who => Fits(tags', Disturbs(who, state)[i])
      BY <2>1, OthersDisturbed
    <2> QED BY <2>1, <2>2, Zenon DEF who
  <1>6. \A i \in Importers : Fits(tags', imports'[i])
    BY <1>4, <1>5, Zenon
  <1>7. LayoutInv' /\ ValueInv'
    <2>1. LayoutInv /\ ValueInv
      BY DEF ImportInv
    <2>2. [LayoutStep]_layoutVars
      BY <1>1
    <2> QED BY <2>1, <2>2, LayoutGoesOn, ValuesGoOn
  <1> QED BY <1>1, <1>3, <1>5, <1>6, <1>7, TableChanges, Zenon

LEMMA CreateTagKeeps ==
    ASSUME ImportInv, NEW rows \in SymbolFiles, NEW i \in DOMAIN rows, CreateTag(rows[i])
    PROVE  ImportInv'
  <1> DEFINE tag == RowEntry(rows[i], {})
  <1>1. /\ Edits /\ connected /\ Usable(rows[i]) /\ ValidTag(tag)
        /\ tags' = Inserted(tag) /\ lastId' = lastId + 1 /\ connected' = connected
    BY Zenon DEF CreateTag
  <1>2. tag \in Sound
    <2>1. ARow(rows[i])
      BY TagImportAssumption
    <2>2. IsFiniteSet({})
      BY FS_EmptySet
    <2> QED BY <1>1, <2>1, <2>2, RowEntered
  <1> HIDE DEF tag
  <1>3. /\ DOMAIN tags' \subseteq 1 .. lastId + 1
        /\ Tabular(tags')
        /\ \A id \in DOMAIN tags' : tags'[id] \in Sound /\ ValidTag(tags'[id])
    BY <1>1, <1>2, OneTagMore
  <1>4. lastId' \in Nat /\ connected' \in BOOLEAN /\ connected'
    <2>1. lastId \in Nat /\ connected \in BOOLEAN
      BY ImportFields
    <2>2. lastId' \in Nat
      BY <1>1, <2>1
    <2> QED BY <1>1, <2>1, <2>2, Zenon
  <1> QED BY <1>1, <1>3, <1>4, EditsKeep, Zenon

LEMMA DeleteTagKeeps ==
    ASSUME ImportInv, NEW k \in DOMAIN tags, DeleteTag(k)
    PROVE  ImportInv'
  <1>1. /\ Edits /\ tags' = [other \in DOMAIN tags \ {k} |-> tags[other]]
        /\ connected' = connected /\ lastId' = lastId
    BY Zenon DEF DeleteTag
  <1>2. /\ connected \in BOOLEAN /\ lastId \in Nat /\ DOMAIN tags \subseteq 1 .. lastId
        /\ \A id \in DOMAIN tags : tags[id] \in Sound /\ ValidTag(tags[id])
        /\ ~connected => tags = <<>>
    BY ImportFields
  <1>3. /\ DOMAIN tags' = DOMAIN tags \ {k}
        /\ Tabular(tags')
        /\ \A id \in DOMAIN tags' : tags'[id] = tags[id]
    BY <1>1 DEF Tabular
  <1>4. connected' /\ connected' \in BOOLEAN
    <2>1. connected
      BY <1>2
    <2> QED BY <1>1, <2>1
  <1>5. lastId' \in Nat /\ DOMAIN tags' \subseteq 1 .. lastId'
    BY <1>1, <1>2, <1>3
  <1>6. \A id \in DOMAIN tags' : tags'[id] \in Sound /\ ValidTag(tags'[id])
    BY <1>2, <1>3
  <1> QED BY <1>1, <1>3, <1>4, <1>5, <1>6, EditsKeep, Zenon

LEMMA DeleteConnectionKeeps ==
    ASSUME ImportInv, DeleteConnection
    PROVE  ImportInv'
  <1>1. Edits /\ connected' = FALSE /\ tags' = <<>> /\ lastId' = lastId
    BY Zenon DEF DeleteConnection
  <1>2. lastId \in Nat
    BY ImportFields
  <1>3. /\ DOMAIN tags' = {} /\ Tabular(tags')
    BY <1>1 DEF Tabular
  <1>4. /\ DOMAIN tags' \subseteq 1 .. lastId' /\ lastId' \in Nat
        /\ \A id \in DOMAIN tags' : tags'[id] \in Sound /\ ValidTag(tags'[id])
    BY <1>1, <1>2, <1>3
  <1>5. connected' \in BOOLEAN
    BY <1>1
  <1> QED BY <1>1, <1>3, <1>4, <1>5, EditsKeep, Zenon

\* While the block is laid out nothing has been imported.
LEMMA LayingKeeps ==
    ASSUME ImportInv, [LayoutStep]_layoutVars, UNCHANGED importVars
    PROVE  ImportInv'
  <1>1. LayoutInv' /\ ValueInv'
    BY LayoutGoesOn, ValuesGoOn DEF ImportInv
  <1>2. /\ connected' = connected /\ tags' = tags /\ lastId' = lastId /\ edits' = edits
        /\ imports' = imports
    BY DEF importVars
  <1>3. /\ connected \in BOOLEAN /\ lastId \in Nat /\ edits \in 0 .. MaxEdits
        /\ DOMAIN tags \subseteq 1 .. lastId /\ tags \in [DOMAIN tags -> Entry]
        /\ ~connected => tags = <<>>
        /\ imports \in [Importers -> Work]
        /\ \A id \in DOMAIN tags : ValidTag(tags[id])
    BY Zenon DEF ImportInv, TypeOK
  <1>4. \A i \in Importers : PlanInv(tags', imports'[i])
    BY <1>2, Zenon DEF ImportInv
  <1>5. CASE UNCHANGED layoutVars
    <2>1. members' = members /\ phase' = phase
      BY <1>5 DEF layoutVars
    <2>2. TypeOK'
      <3>1. LayoutTypeOK'
        BY <1>1 DEF LayoutInv
      <3>2. \A id \in DOMAIN tags' : ValidTag(tags'[id]) /\ tags'[id].source <= Len(members')
        BY <1>2, <2>1, Zenon DEF ImportInv, TypeOK
      <3> QED BY <1>2, <1>3, <3>1, <3>2, Zenon DEF TypeOK, ValidTag, ValidAddress
    <2>3. SourceInv'
      BY <1>2, <2>1, Zenon DEF ImportInv, SourceInv, Sourced
    <2> QED BY <1>1, <1>4, <2>2, <2>3 DEF ImportInv
  <1>6. CASE LayoutStep
    <2>1. phase = "reading"
      BY <1>6 DEF LayoutStep, Declare, OpenStruct, EndStruct, EndOfBlock, Optimized, ReadsLine
    <2>2. tags = <<>> /\ \A who \in Importers : imports[who].plan = <<>>
      BY <2>1 DEF ImportInv, SourceInv
    <2>3. DOMAIN tags' = {} /\ tags' = <<>> /\ \A who \in Importers :
             imports'[who].plan = <<>> /\ DOMAIN imports'[who].plan = {}
      BY <1>2, <2>2
    <2>4. TypeOK'
      <3>1. LayoutTypeOK'
        BY <1>1 DEF LayoutInv
      <3>2. \A id \in DOMAIN tags' : ValidTag(tags[id])' /\ tags'[id].source <= Len(members')
        BY <2>3
      <3> QED BY <1>2, <1>3, <3>1, <3>2, Zenon DEF TypeOK
    <2>5. SourceInv'
      BY <2>3 DEF SourceInv
    <2> QED BY <1>1, <1>4, <2>4, <2>5 DEF ImportInv
  <1> QED BY <1>5, <1>6

LEMMA ImportStarts == Init => ImportInv
  <1> SUFFICES ASSUME Init PROVE ImportInv
    OBVIOUS
  <1>1. LayoutInv /\ ValueInv
    BY LayoutStarts, ValuesStart DEF Init
  <1>2. /\ connected = TRUE /\ tags = <<>> /\ lastId = 0 /\ edits = 0
        /\ imports = [who \in Importers |-> Idle]
    BY DEF Init
  <1>3. \A who \in Importers : imports[who] = Idle
    BY <1>2
  <1>4. /\ Idle \in Work /\ Idle.plan = <<>> /\ DOMAIN Idle.plan = {} /\ Idle.pc = "idle"
        /\ Len(Idle.plan) = 0
    <2>1. <<>> \in Seq(Item)
      OBVIOUS
    <2> QED BY <2>1 DEF Idle, Work
  <1>5. PlanInv(tags, Idle)
    BY <1>4 DEF PlanInv, Apart
  <1>6. TypeOK
    <2>1. imports \in [Importers -> Work]
      BY <1>2, <1>4
    <2>2. /\ DOMAIN tags = {} /\ tags \in [DOMAIN tags -> Entry]
          /\ DOMAIN tags \subseteq 1 .. lastId
          /\ \A id \in DOMAIN tags : ValidTag(tags[id]) /\ tags[id].source <= Len(members)
      BY <1>2
    <2>3. connected \in BOOLEAN /\ lastId \in Nat /\ edits \in 0 .. MaxEdits
      BY <1>2, TagImportAssumption
    <2>4. LayoutTypeOK
      BY <1>1 DEF LayoutInv
    <2> QED BY <1>2, <2>1, <2>2, <2>3, <2>4 DEF TypeOK
  <1>7. SourceInv
    BY <1>2, <1>3, <1>4 DEF SourceInv
  <1> QED BY <1>1, <1>3, <1>5, <1>6, <1>7 DEF ImportInv

LEMMA ImportGoesOn == ImportInv /\ [Next]_vars => ImportInv'
  <1> SUFFICES ASSUME ImportInv, [Next]_vars PROVE ImportInv'
    OBVIOUS
  <1>1. CASE LayoutStep /\ UNCHANGED importVars
    BY <1>1, LayingKeeps
  <1>2. ASSUME NEW who \in Importers, NEW number \in DbNumbers, NEW prefix \in TagPrefixes,
               NEW overwrite \in BOOLEAN, ImportBlock(who, number, prefix, overwrite)
        PROVE  ImportInv'
    BY <1>2, ImportBlockKeeps
  <1>3. ASSUME NEW who \in Importers, NEW rows \in SymbolFiles, NEW prefix \in TagPrefixes,
               NEW overwrite \in BOOLEAN, ImportSymbols(who, rows, prefix, overwrite)
        PROVE  ImportInv'
    BY <1>3, ImportSymbolsKeeps
  <1>4. ASSUME NEW who \in Importers, ApplyRow(who) PROVE ImportInv'
    BY <1>4, ApplyRowKeeps
  <1>5. ASSUME NEW rows \in SymbolFiles, NEW i \in DOMAIN rows, CreateTag(rows[i])
        PROVE  ImportInv'
    BY <1>5, CreateTagKeeps
  <1>6. ASSUME NEW id \in DOMAIN tags, DeleteTag(id) PROVE ImportInv'
    BY <1>6, DeleteTagKeeps
  <1>7. CASE DeleteConnection
    BY <1>7, DeleteConnectionKeeps
  <1>8. CASE UNCHANGED vars
    BY <1>8, LayingKeeps DEF vars
  <1> QED BY <1>1, <1>2, <1>3, <1>4, <1>5, <1>6, <1>7, <1>8, Zenon DEF Next

\* Nothing is imported while the block is laid out, what came from a member
\* agrees with it, and what an import nobody disturbed has done and has still
\* to do agrees with the table (layout_to_symbols, plan_import, apply_import).
THEOREM ImportInvariant == Spec => []ImportInv
  <1>1. Init => ImportInv
    BY ImportStarts
  <1>2. ImportInv /\ [Next]_vars => ImportInv'
    BY ImportGoesOn
  <1> QED BY <1>1, <1>2, PTL DEF Spec

\* Every tag meets the rules of the web form, whichever import brought it and
\* whoever wrote meanwhile (validate_tag, plan_import, create_tag).
THEOREM TagsAreValid == Spec => []TypeOK
  <1>1. ImportInv => TypeOK
    BY DEF ImportInv
  <1> QED BY <1>1, ImportInvariant, PTL

LEMMA WholeSeq ==
    ASSUME NEW n \in Nat, NEW S, NEW q \in Seq(S), Len(q) = n
    PROVE  SubSeq(q, 1, n) = [k \in 1 .. n |-> q[k]]
  OBVIOUS

\* What the Test Read decodes for an imported tag are the bytes of its member,
\* whatever the block declares and however the read is cut into chunks
\* (layout_to_symbols, apply_import, read_area, decode).
THEOREM TagsReadTheirMembers == Spec => []ReadsItsMember
  <1>1. ImportInv => ReadsItsMember
    <2> SUFFICES ASSUME ImportInv, NEW id \in DOMAIN tags, tags[id].source # 0
                 PROVE  LET tag    == tags[id]
                            member == members[tag.source]
                            raw    == ReadArea(tag.byte, SizeOf(tag.data_type, tag.length))
                        IN  /\ Decoded(raw, tag.data_type, tag.length)
                                 = [k \in 1 .. member.size |-> member.byte + k - 1]
                            /\ tag.data_type = "BOOL" => tag.bit = member.bit
      BY DEF ReadsItsMember
    <2> DEFINE tag == tags[id]
               member == members[tag.source]
               size == SizeOf(tag.data_type, tag.length)
               raw == ReadArea(tag.byte, size)
    <2>1. tag \in Entry /\ Sourced(tag) /\ ValueInv /\ members \in Seq(Member)
      BY ImportFields DEF Sound, LayoutTypeOK
    <2>2. tag.source \in DOMAIN members /\ ReadsAs(tag, member)
      BY <2>1 DEF Sourced
    <2>3. member \in Member /\ tag.data_type \in DataTypes
      BY <2>1, <2>2 DEF Entry
    <2>4. member.data_type # Unsupported
      BY <2>2, <2>3 DEF ReadsAs, DataTypes, Unsupported
    <2>5. member.size = size
      <3>1. member.size = SizeOf(member.data_type, member.length)
        BY <2>1, <2>2, <2>4, Zenon DEF ValueInv
      <3> QED BY <2>2, <3>1, Zenon DEF ReadsAs
    <2>6. size \in Nat /\ tag.byte \in Nat /\ tag.byte = member.byte /\ tag.bit = member.bit
      BY <2>2, <2>3, <2>5 DEF Member, ReadsAs
    <2> HIDE DEF size, tag, member
    <2>7. /\ raw \in Seq(Nat) /\ Len(raw) = size
          /\ \A k \in 1 .. size : raw[k] = tag.byte + k - 1
      BY <2>6, ReadsAll
    <2> HIDE DEF raw
    <2>8. SubSeq(raw, 1, size) = [k \in 1 .. size |-> raw[k]]
      BY <2>6, <2>7, WholeSeq
    <2>9. SubSeq(raw, 1, size) = [k \in 1 .. member.size |-> member.byte + k - 1]
      BY <2>5, <2>6, <2>7, <2>8
    <2>10. Decoded(raw, tag.data_type, tag.length) = SubSeq(raw, 1, size)
      BY DEF Decoded, size
    <2> QED BY <2>6, <2>9, <2>10 DEF raw, size, tag, member
  <1> QED BY <1>1, ImportInvariant, PTL

\* Two entries of one address are the same but for their name and source.
LEMMA SameReadsBack ==
    ASSUME NEW t \in Entry, NEW e \in Entry, SameAddress(t, e)
    PROVE  [t EXCEPT !.name = e.name, !.source = e.source] = e
  <1> DEFINE r == [t EXCEPT !.name = e.name, !.source = e.source]
             As(x) == [name |-> x.name, area |-> x.area, db |-> x.db, byte |-> x.byte,
                       bit |-> x.bit, data_type |-> x.data_type, length |-> x.length,
                       source |-> x.source]
  <1>1. /\ r \in Entry /\ r.name = e.name /\ r.source = e.source /\ r.area = t.area
        /\ r.db = t.db /\ r.byte = t.byte /\ r.bit = t.bit
        /\ r.data_type = t.data_type /\ r.length = t.length
    BY DEF Entry
  <1> HIDE DEF r
  <1>2. r = As(r) /\ e = As(e)
    BY <1>1 DEF Entry
  <1>3. As(r) = As(e)
    BY <1>1 DEF SameAddress
  <1> QED BY <1>2, <1>3 DEF r

\* When an import that nobody disturbed is over, its report is what the table
\* holds, however long the file; but for a row found identical whose tag
\* another row updated, which only a prefix put in front of finished names
\* brings about (plan_import, apply_import).
THEOREM ReportsMatch == Spec => []ReportMatches
  <1>1. ImportInv => ReportMatches
    <2> SUFFICES ASSUME ImportInv, NEW who \in Importers, imports[who].pc = "done",
                        imports[who].alone
                 PROVE  /\ Len(imports[who].plan) + imports[who].skipped = imports[who].rows
                        /\ \A i \in DOMAIN imports[who].plan :
                              \/ Reported(imports[who].plan[i])
                              \/ imports[who].cut /\ Overtaken(imports[who], i)
      BY Zenon DEF ReportMatches
    <2> DEFINE work == imports[who]
    <2>1. work \in Work /\ PlanInv(tags, work)
      BY ImportFields, Zenon DEF Fits
    <2>2. work.pc = "done" /\ work.alone
      OBVIOUS
    <2> HIDE DEF work
    <2>3. /\ Len(work.plan) + work.skipped = work.rows /\ work.at = Len(work.plan) + 1
          /\ \A i \in DOMAIN work.plan :
                Accounted(tags, work.plan[i], i < work.at) /\ Unchanged(tags, work, i)
      <3>1. work.pc # "idle"
        BY <2>2
      <3> QED BY <2>1, <2>2, <3>1, Zenon DEF PlanInv
    <2>4. ASSUME NEW i \in DOMAIN work.plan
          PROVE  Reported(work.plan[i]) \/ (work.cut /\ Overtaken(work, i))
      <3> DEFINE item == work.plan[i]
      <3>1. i < work.at /\ item \in Item
        BY <2>1, <2>3, WorkFields
      <3>2. Accounted(tags, item, i < work.at)
        BY <2>3
      <3>3. item.action = "identical" =>
               SameAddress(tags[item.id], item.entry) \/ Overtaken(work, i)
        BY <2>3, Zenon DEF Unchanged
      <3>4. Overtaken(work, i) => work.cut
        <4> SUFFICES ASSUME Overtaken(work, i) PROVE work.cut
          OBVIOUS
        <4>1. PICK j \in DOMAIN work.plan :
                 /\ work.plan[j].action = "update" /\ work.plan[j].id = item.id
                 /\ item.action = "identical"
          BY Zenon DEF Overtaken
        <4>2. Accounted(tags, work.plan[j], j < work.at)
          BY <2>3
        <4>3. Lower(work.plan[j].entry.name) = Lower(item.entry.name)
          BY <3>2, <4>1, <4>2 DEF Accounted, Holds
        <4>4. i # j
          BY <4>1
        <4>5. Apart(work.plan, work.cut)
          BY <2>1, Zenon DEF PlanInv
        <4>6. work.plan[j].action \in {"create", "update"}
          BY <4>1
        <4> QED BY <4>3, <4>4, <4>5, <4>6, Zenon DEF Apart
      <3> HIDE DEF item
      <3>5. item.action \in {"skip", "identical", "update"} =>
               Holds(tags, item.id, item.entry.name)
        BY <3>2 DEF Accounted
      <3>6. /\ item.action = "create" => \E id \in DOMAIN tags : tags[id] = item.entry
            /\ item.action = "update" => tags[item.id] = item.entry
        BY <3>1, <3>2 DEF Accounted
      <3>7. item.action = "skip" => item.id \in DOMAIN tags
        BY <3>5 DEF Holds
      <3>8. ASSUME item.action = "identical", ~Overtaken(work, i)
            PROVE  [tags[item.id] EXCEPT !.name = item.entry.name,
                                         !.source = item.entry.source] = item.entry
        <4>1. item.id \in DOMAIN tags /\ SameAddress(tags[item.id], item.entry)
          BY <3>3, <3>5, <3>8 DEF Holds
        <4>2. tags[item.id] \in Entry /\ item.entry \in Entry
          BY <3>1, <4>1, ImportFields, ItemFields DEF Sound
        <4> QED BY <4>1, <4>2, SameReadsBack
      <3>9. Reported(item) \/ Overtaken(work, i)
        BY <3>6, <3>7, <3>8, Zenon DEF Reported
      <3> QED BY <3>4, <3>9, Zenon DEF item
    <2> QED BY <2>3, <2>4 DEF work
  <1> QED BY <1>1, ImportInvariant, PTL
=============================================================================
